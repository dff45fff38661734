--------------------------- MODULE SspRulesProofs ---------------------------
(***************************************************************************)
(* What add_in_rule and remove_in_rule promise, for every stream list and  *)
(* any number of handovers.  The list of a handover alternates: each old   *)
(* stream is followed by its temporary copy.  When the old streams are not *)
(* flagged, the loop of remove_temporary_streams looks at the old ones and *)
(* removes them; when they are (after every other handover), it looks at   *)
(* all streams, keeps them and clears their flags.  The last section shows *)
(* that this description of the loop is what the loop computes.            *)
(***************************************************************************)
EXTENDS SspRules, SspStreamsProofs

Flagged(ss)   == \A i \in DOMAIN ss : ss[i].temporary
Unflagged(ss) == \A i \in DOMAIN ss : ~ss[i].temporary

Evens(n) == {i \in 1 .. 2 * n : i % 2 = 0}

-----------------------------------------------------------------------------
(* Sets of positions *)

\* There are n even numbers up to 2n.
LEMMA EvensCardinality ==
    ASSUME NEW n \in Nat
    PROVE  Cardinality(Evens(n)) = n
<1> DEFINE f == [x \in 1 .. n |-> 2 * x]
<1>1. IsFiniteSet(1 .. n) /\ Cardinality(1 .. n) = n
  BY FS_Interval
<1>2. f \in Injection(1 .. n, Evens(n))
  BY DEF Injection, IsInjective, Evens
<1>3. \A i \in Evens(n) : \E x \in 1 .. n : f[x] = i
  <2>1. ASSUME NEW i \in Evens(n) PROVE i \div 2 \in 1 .. n /\ 2 * (i \div 2) = i
    BY DEF Evens
  <2>2. QED
    BY <2>1
<1>4. f \in Surjection(1 .. n, Evens(n))
  <2>1. f \in [1 .. n -> Evens(n)]
    BY DEF Evens
  <2>2. QED
    BY <1>3, <2>1 DEF Surjection
<1>5. ExistsBijection(1 .. n, Evens(n))
  BY <1>2, <1>4 DEF ExistsBijection, Bijection
<1>6. QED
  BY <1>1, <1>5, FS_Bijection

\* The k-th even number is 2k.
LEMMA NthEven ==
    ASSUME NEW n \in Nat, NEW k \in 1 .. n
    PROVE  Nth(Evens(n), k) = 2 * k
<1> DEFINE rank(i) == Cardinality({j \in Evens(n) : j <= i})
<1>1. ASSUME NEW m \in 1 .. n PROVE rank(2 * m) = m
  <2>1. {j \in Evens(n) : j <= 2 * m} = Evens(m)
    BY DEF Evens
  <2>2. QED
    BY <2>1, EvensCardinality
<1>2. \A i \in Evens(n) : i \div 2 \in 1 .. n /\ i = 2 * (i \div 2)
  BY DEF Evens
<1>3. 2 * k \in Evens(n)
  BY DEF Evens
<1> HIDE DEF rank
<1>4. \A i \in Evens(n) : rank(i) = k => i = 2 * k
  BY <1>1, <1>2
<1>5. rank(2 * k) = k
  BY <1>1
<1>6. Nth(Evens(n), k) = CHOOSE i \in Evens(n) : rank(i) = k
  BY DEF Nth, rank
<1>7. QED
  BY <1>3, <1>4, <1>5, <1>6

\* The k-th number of an interval from 1 is k.
LEMMA NthOfAll ==
    ASSUME NEW n \in Nat, NEW k \in 1 .. n
    PROVE  Nth(1 .. n, k) = k
<1> DEFINE rank(i) == Cardinality({j \in 1 .. n : j <= i})
<1>1. ASSUME NEW m \in 1 .. n PROVE rank(m) = m
  <2>1. {j \in 1 .. n : j <= m} = 1 .. m
    OBVIOUS
  <2>2. Cardinality(1 .. m) = m
    BY FS_Interval
  <2>3. QED
    BY <2>1, <2>2
<1> HIDE DEF rank
<1>2. Nth(1 .. n, k) = CHOOSE i \in 1 .. n : rank(i) = k
  BY DEF Nth, rank
<1>3. QED
  BY <1>1, <1>2

-----------------------------------------------------------------------------
(* remove_temporary_streams on the lists of a handover *)

\* Every old stream unflagged, every copy flagged: the copies remain.
LEMMA RemoveAlternating ==
    ASSUME NEW n \in Nat, NEW ss \in Seq(Stream), Len(ss) = 2 * n,
           \A i \in 1 .. 2 * n : ss[i].temporary <=> i % 2 = 0
    PROVE  /\ RemoveTemporaryStreams(ss) = [k \in 1 .. n |-> ss[2 * k]]
           /\ ~RemoveTemporaryCrashes(ss)
<1>1. ASSUME NEW i \in 1 .. 2 * n PROVE i \in Visited(ss) <=> i % 2 = 1
  <2> DEFINE before == {0} \cup {j \in 1 .. i - 1 : ss[j].temporary}
  <2>1. \A j \in before : j \in Nat /\ (j = 0 \/ (j \in 1 .. i - 1 /\ j % 2 = 0))
    <3>1. \A j \in 1 .. i - 1 : j \in 1 .. 2 * n
      OBVIOUS
    <3>2. QED
      BY <3>1
  <2>2. CASE i % 2 = 1
    <3>1. i - 1 \in before
      BY <2>2
    <3>2. \A j \in before : j <= i - 1
      BY <2>1
    <3> HIDE DEF before
    <3>3. Max(before) = i - 1
      BY <2>1, <3>1, <3>2, MaxIs
    <3>4. QED
      BY <2>2, <3>3 DEF Visited, before
  <2>3. CASE i % 2 = 0
    <3>1. i - 2 \in before
      BY <2>3
    <3>2. \A j \in before : j <= i - 2
      BY <2>1, <2>3
    <3> HIDE DEF before
    <3>3. Max(before) = i - 2
      BY <2>1, <3>1, <3>2, MaxIs
    <3>4. (i - 1 - Max(before)) % 2 = 1
      BY <3>3
    <3>5. i \notin Visited(ss)
      BY <3>4 DEF Visited, before
    <3>6. QED
      BY <2>3, <3>5
  <2>4. QED
    BY <2>2, <2>3
<1>2. Kept(ss) = Evens(n)
  BY <1>1 DEF Kept, Evens
<1>3. Cardinality(Evens(n)) = n
  BY EvensCardinality
<1>4. ASSUME NEW k \in 1 .. n
      PROVE  [ss[2 * k] EXCEPT !.temporary = @ /\ 2 * k \notin Visited(ss)] = ss[2 * k]
  <2>1. 2 * k \in 1 .. 2 * n /\ (2 * k) % 2 = 0
    OBVIOUS
  <2>2. ss[2 * k] \in Stream /\ ss[2 * k].temporary = TRUE
    <3>1. ss[2 * k] \in Stream /\ ss[2 * k].temporary
      BY <2>1, ElementOfSeq
    <3>2. ss[2 * k].temporary \in BOOLEAN
      BY <3>1 DEF Stream
    <3>3. QED
      BY <3>1, <3>2
  <2>3. 2 * k \notin Visited(ss)
    BY <1>1, <2>1
  <2>4. \A s \in Stream : s.temporary = TRUE => [s EXCEPT !.temporary = TRUE] = s
    BY DEF Stream
  <2>5. QED
    BY <2>2, <2>3, <2>4
<1>5. RemoveTemporaryStreams(ss) =
        [k \in 1 .. n |-> [ss[2 * k] EXCEPT !.temporary = @ /\ 2 * k \notin Visited(ss)]]
  BY <1>2, <1>3, NthEven DEF RemoveTemporaryStreams
<1>6. ~RemoveTemporaryCrashes(ss)
  <2>1. ss # <<>> => 2 * n \in Evens(n)
    BY DEF Evens
  <2>2. QED
    BY <1>2, <2>1 DEF RemoveTemporaryCrashes
<1>7. QED
  BY <1>4, <1>5, <1>6

\* Every stream flagged: all of them remain, with their flags cleared.
LEMMA RemoveFromFlagged ==
    ASSUME NEW ss \in Seq(Stream), Flagged(ss)
    PROVE  /\ RemoveTemporaryStreams(ss) =
                [k \in 1 .. Len(ss) |-> [ss[k] EXCEPT !.temporary = FALSE]]
           /\ ~RemoveTemporaryCrashes(ss)
<1>1. Len(ss) \in Nat /\ DOMAIN ss = 1 .. Len(ss)
  OBVIOUS
<1>2. ASSUME NEW i \in 1 .. Len(ss) PROVE i \in Visited(ss)
  <2> DEFINE before == {0} \cup {j \in 1 .. i - 1 : ss[j].temporary}
  <2>1. \A j \in before : j \in Nat /\ j <= i - 1
    BY <1>1
  <2>2. i - 1 \in before
    BY <1>1 DEF Flagged
  <2> HIDE DEF before
  <2>3. Max(before) = i - 1
    BY <2>1, <2>2, MaxIs
  <2>4. QED
    BY <1>1, <2>3 DEF Visited, before
<1>3. Kept(ss) = 1 .. Len(ss)
  BY <1>1 DEF Kept, Flagged
<1>4. Cardinality(1 .. Len(ss)) = Len(ss)
  BY <1>1, FS_Interval, SMTT(40)
<1>5. ~RemoveTemporaryCrashes(ss)
  BY <1>1, <1>3 DEF RemoveTemporaryCrashes
<1>6. RemoveTemporaryStreams(ss) =
        [k \in 1 .. Len(ss) |-> [ss[k] EXCEPT !.temporary = @ /\ k \notin Visited(ss)]]
  BY <1>1, <1>3, <1>4, NthOfAll DEF RemoveTemporaryStreams
<1>7. QED
  BY <1>2, <1>5, <1>6

-----------------------------------------------------------------------------
(* One handover *)

\* remove_in_rule after one add_in_rule, on a list whose flags were all alike:
\* nothing crashes, the new port and all media types are served, the flags are
\* alike again, and if they were clear the copies are all that is left.
LEMMA HandoverEnds ==
    ASSUME NEW base \in Seq(Stream) \ {<<>>}, NEW port \in Port,
           Flagged(base) \/ Unflagged(base)
    PROVE  LET ss    == AddTemporaryStreams(base, port)
               after == RemoveTemporaryStreams(ss)
           IN  /\ ~RemoveTemporaryCrashes(ss)
               /\ after # <<>>
               /\ ContainPort(after, port)
               /\ \A i \in DOMAIN base : \E j \in DOMAIN after : after[j].media = base[i].media
               /\ Flagged(after) \/ Unflagged(after)
               /\ Unflagged(base) => after = [k \in 1 .. Len(base) |-> Copy(base[k], port)]
<1> DEFINE ss    == AddTemporaryStreams(base, port)
           after == RemoveTemporaryStreams(ss)
           n     == Len(base)
<1>1. n \in Nat /\ n # 0 /\ DOMAIN base = 1 .. n
  OBVIOUS
<1>2. /\ ss \in Seq(Stream) /\ Len(ss) = 2 * n
      /\ \A k \in 1 .. n : ss[2 * k - 1] = base[k] /\ ss[2 * k] = Copy(base[k], port)
  BY AddTemporaryPositions
<1>3. ASSUME NEW i \in 1 .. 2 * n
      PROVE  \/ i % 2 = 1 /\ (i + 1) \div 2 \in 1 .. n /\ i = 2 * ((i + 1) \div 2) - 1
             \/ i % 2 = 0 /\ i \div 2 \in 1 .. n /\ i = 2 * (i \div 2)
  BY <1>1
<1> HIDE DEF n
<1>4. CASE Unflagged(base)
  <2> HIDE DEF ss
  <2>1. \A i \in 1 .. 2 * n : ss[i].temporary <=> i % 2 = 0
    <3>1. ASSUME NEW k \in 1 .. n PROVE ~ss[2 * k - 1].temporary /\ ss[2 * k].temporary
      <4>1. ss[2 * k - 1] = base[k] /\ ss[2 * k] = Copy(base[k], port)
        BY <1>2
      <4>2. ~base[k].temporary /\ Copy(base[k], port).temporary
        BY <1>1, <1>4 DEF Unflagged, Copy
      <4>3. QED
        BY <4>1, <4>2
    <3>2. QED
      BY <1>3, <3>1
  <2>2. after = [k \in 1 .. n |-> ss[2 * k]] /\ ~RemoveTemporaryCrashes(ss)
    BY <1>1, <1>2, <2>1, RemoveAlternating
  <2>3. after = [k \in 1 .. n |-> Copy(base[k], port)]
    BY <1>2, <2>2
  <2>4. 1 \in DOMAIN after /\ DOMAIN after = 1 .. n
    BY <1>1, <2>3
  <2>5. \A k \in 1 .. n : /\ after[k].port = port /\ after[k].temporary
                          /\ after[k].media = base[k].media
    BY <2>3 DEF Copy
  <2> HIDE DEF after
  <2>6. ContainPort(after, port) /\ Flagged(after) /\ after # <<>>
    <3>1. after[1].port = port
      BY <2>4, <2>5
    <3>2. ContainPort(after, port)
      BY <2>4, <3>1 DEF ContainPort
    <3>3. Flagged(after)
      BY <2>4, <2>5 DEF Flagged
    <3>4. after # <<>>
      <4>1. 1 \in DOMAIN after
        BY <2>4
      <4>2. QED
        BY <4>1
    <3>5. QED
      BY <3>2, <3>3, <3>4
  <2>7. QED
    BY <1>1, <2>2, <2>3, <2>4, <2>5, <2>6 DEF ss, after, n
<1>5. CASE Flagged(base) /\ ~Unflagged(base)
  <2> HIDE DEF ss
  <2>1. Flagged(ss)
    <3>1. ASSUME NEW k \in 1 .. n PROVE ss[2 * k - 1].temporary /\ ss[2 * k].temporary
      <4>1. ss[2 * k - 1] = base[k] /\ ss[2 * k] = Copy(base[k], port)
        BY <1>2
      <4>2. base[k].temporary /\ Copy(base[k], port).temporary
        BY <1>1, <1>5 DEF Flagged, Copy
      <4>3. QED
        BY <4>1, <4>2
    <3>2. DOMAIN ss = 1 .. 2 * n
      BY <1>1, <1>2
    <3>3. QED
      BY <1>3, <3>1, <3>2 DEF Flagged
  <2>2. /\ after = [k \in 1 .. Len(ss) |-> [ss[k] EXCEPT !.temporary = FALSE]]
        /\ ~RemoveTemporaryCrashes(ss)
    BY <1>2, <2>1, RemoveFromFlagged
  <2>3. DOMAIN after = 1 .. 2 * n
    BY <1>2, <2>2
  <2>4. \A k \in 1 .. 2 * n : /\ after[k].port = ss[k].port
                              /\ after[k].media = ss[k].media
                              /\ ~after[k].temporary
    <3>1. \A k \in 1 .. 2 * n : ss[k] \in Stream
      BY <1>1, <1>2, ElementOfSeq
    <3>2. \A s \in Stream : LET r == [s EXCEPT !.temporary = FALSE]
                            IN  r.port = s.port /\ r.media = s.media /\ ~r.temporary
      BY DEF Stream
    <3>3. QED
      BY <1>2, <2>2, <3>1, <3>2
  <2> HIDE DEF after
  <2>5. Unflagged(after)
    BY <2>3, <2>4 DEF Unflagged
  <2>6. 2 \in DOMAIN after /\ after[2].port = port
    <3>1. 1 \in 1 .. n /\ 2 \in 1 .. 2 * n /\ 2 * 1 = 2
      BY <1>1
    <3>2. ss[2] = Copy(base[1], port)
      BY <1>2, <3>1
    <3>3. ss[2].port = port
      BY <3>2 DEF Copy
    <3>4. QED
      BY <2>3, <2>4, <3>1, <3>3
  <2>7. ContainPort(after, port)
    BY <2>6 DEF ContainPort
  <2>8. after # <<>>
    BY <2>6
  <2>9. ASSUME NEW k \in 1 .. n
        PROVE  2 * k \in 1 .. 2 * n /\ ss[2 * k].media = base[k].media
    <3>1. ss[2 * k] = Copy(base[k], port)
      BY <1>2
    <3>2. Copy(base[k], port).media = base[k].media
      BY DEF Copy
    <3>3. QED
      BY <1>1, <3>1, <3>2
  <2>10. \A i \in DOMAIN base : \E j \in DOMAIN after : after[j].media = base[i].media
    BY <1>1, <2>3, <2>4, <2>9
  <2>11. QED
    BY <1>5, <2>2, <2>5, <2>7, <2>8, <2>10 DEF ss, after
<1>6. QED
  BY <1>4, <1>5

-----------------------------------------------------------------------------
(* The inductive invariant *)

HasMedia(ss, from) == \A i \in DOMAIN from : \E j \in DOMAIN ss : ss[j].media = from[i].media

\* Up to the first remove_in_rule the list is what was parsed, or that and one copy.
BeforeFirst ==
    handovers = 0 =>
        /\ added = <<>> => streams = parsed
        /\ Len(added) = 1 => streams = AddTemporaryStreams(parsed, added[1])

\* While calls are paired, the flags of the list are alike between two handovers,
\* and within one the list is such a list and one copy.
BetweenHandovers ==
    paired =>
        /\ ~fault
        /\ streams # <<>>
        /\ \A i \in DOMAIN added : ContainPort(streams, added[i])
        /\ HasMedia(streams, parsed)
        /\ added = <<>> => Flagged(streams) \/ Unflagged(streams)
        /\ Len(added) = 1 =>
             \E base \in Seq(Stream) \ {<<>>} :
                /\ Flagged(base) \/ Unflagged(base)
                /\ HasMedia(base, parsed)
                /\ streams = AddTemporaryStreams(base, added[1])

IInv == TypeOK /\ OldPortsServed /\ BeforeFirst /\ BetweenHandovers

LEMMA InitIInv == Init => IInv
<1> SUFFICES ASSUME Init PROVE IInv
  OBVIOUS
<1>1. parsed \in Seq(Stream) \ {<<>>} /\ Unflagged(parsed)
  BY RulesAssumption DEF Init, Unflagged
<1>2. TypeOK
  <2>1. 0 \in 0 .. MaxHandovers /\ <<>> \in Seq(NewPorts)
    BY RulesAssumption
  <2>2. QED
    BY <1>1, <2>1 DEF Init, TypeOK
<1>3. OldPortsServed
  BY DEF Init, OldPortsServed, ContainPort
<1>4. BeforeFirst
  BY DEF Init, BeforeFirst
<1>5. BetweenHandovers
  BY <1>1 DEF Init, BetweenHandovers, HasMedia
<1>6. QED
  BY <1>2, <1>3, <1>4, <1>5 DEF IInv

\* Appending a port to the history of a handover.
LEMMA AppendAdded ==
    ASSUME NEW s \in Seq(NewPorts), NEW new \in NewPorts
    PROVE  /\ Append(s, new) \in Seq(NewPorts) /\ Append(s, new) # <<>>
           /\ Len(Append(s, new)) = 1 => s = <<>> /\ Append(s, new)[1] = new
           /\ \A i \in DOMAIN Append(s, new) :
                 (i \in DOMAIN s /\ Append(s, new)[i] = s[i]) \/ Append(s, new)[i] = new
  OBVIOUS

LEMMA FirstAdded ==
    ASSUME NEW s \in Seq(NewPorts), Len(s) = 1
    PROVE  s[1] \in Port
<1>1. s[1] \in NewPorts
  <2>1. 1 \in 1 .. Len(s)
    OBVIOUS
  <2>2. QED
    BY <2>1, ElementOfSeq
<1>2. QED
  BY <1>1, RulesAssumption

LEMMA AddInRuleIInv ==
    ASSUME IInv, NEW port \in Ports, NEW new \in NewPorts, AddInRule(port, new)
    PROVE  IInv'
<1>1. /\ streams \in Seq(Stream) /\ added \in Seq(NewPorts)
      /\ streams' = AddTemporaryStreams(streams, new) /\ added' = Append(added, new)
      /\ UNCHANGED <<fault, parsed, handovers, paired>>
  BY DEF IInv, TypeOK, AddInRule
<1>2. new \in Port
  BY RulesAssumption
<1>3. streams # <<>>
  BY DEF AddInRule, ContainPort
<1>4. /\ added' \in Seq(NewPorts) /\ added' # <<>>
      /\ Len(added') = 1 => added = <<>> /\ added'[1] = new
      /\ \A i \in DOMAIN added' : (i \in DOMAIN added /\ added'[i] = added[i]) \/ added'[i] = new
  BY <1>1, AppendAdded
<1>5. /\ \A p : ContainPort(streams, p) => ContainPort(streams', p)
      /\ ContainPort(streams', new)
      /\ \A i \in DOMAIN streams :
            \E j \in DOMAIN streams' : streams'[j].media = streams[i].media
  BY <1>1, <1>2, <1>3, AddTemporaryServes
<1>6. TypeOK'
  BY <1>1, <1>2, <1>4, AddTemporaryType DEF IInv, TypeOK
<1>7. OldPortsServed'
  BY <1>1, <1>4, <1>5 DEF IInv, OldPortsServed
<1>8. BeforeFirst'
  BY <1>1, <1>4 DEF IInv, BeforeFirst
<1>9. ASSUME paired' PROVE BetweenHandovers'
  <2>1. /\ ~fault' /\ HasMedia(streams, parsed)
        /\ \A i \in DOMAIN added : ContainPort(streams, added[i])
        /\ added = <<>> => Flagged(streams) \/ Unflagged(streams)
    BY <1>1, <1>9 DEF IInv, BetweenHandovers
  <2>2. streams' # <<>>
    BY <1>5 DEF ContainPort
  <2>3. \A i \in DOMAIN added' : ContainPort(streams', added'[i])
    BY <1>4, <1>5, <2>1
  <2>4. HasMedia(streams', parsed')
    BY <1>1, <1>5, <2>1 DEF HasMedia
  <2>5. Len(added') = 1 =>
             \E base \in Seq(Stream) \ {<<>>} :
                /\ Flagged(base) \/ Unflagged(base)
                /\ HasMedia(base, parsed')
                /\ streams' = AddTemporaryStreams(base, added'[1])
    BY <1>1, <1>3, <1>4, <2>1
  <2>6. QED
    BY <1>4, <2>1, <2>2, <2>3, <2>4, <2>5 DEF BetweenHandovers
<1>10. BetweenHandovers'
  BY <1>9 DEF BetweenHandovers
<1>11. QED
  BY <1>6, <1>7, <1>8, <1>10 DEF IInv

LEMMA RemoveInRuleIInv ==
    ASSUME IInv, NEW port \in Ports, RemoveInRule(port)
    PROVE  IInv'
<1>1. /\ streams \in Seq(Stream) /\ added \in Seq(NewPorts)
      /\ handovers \in 0 .. MaxHandovers /\ handovers < MaxHandovers
      /\ streams' = RemoveTemporaryStreams(streams)
      /\ fault' = RemoveTemporaryCrashes(streams)
      /\ added' = <<>> /\ handovers' = handovers + 1
      /\ paired' = (paired /\ Len(added) = 1)
      /\ parsed' = parsed /\ parsed \in Parsed /\ paired \in BOOLEAN
  BY DEF IInv, TypeOK, RemoveInRule
<1>2. handovers' \in 0 .. MaxHandovers /\ handovers' # 0
  BY <1>1, RulesAssumption
<1>3. TypeOK'
  <2>1. streams' \in Seq(Stream)
    BY <1>1, RemoveTemporaryType
  <2>2. fault' \in BOOLEAN
    BY <1>1 DEF RemoveTemporaryCrashes
  <2>3. paired' \in BOOLEAN /\ added' \in Seq(NewPorts) /\ parsed' \in Parsed
    BY <1>1
  <2>4. QED
    BY <1>2, <2>1, <2>2, <2>3 DEF TypeOK
<1>4. OldPortsServed' /\ BeforeFirst'
  BY <1>2 DEF OldPortsServed, BeforeFirst
<1>5. ASSUME paired' PROVE BetweenHandovers'
  <2>1. paired /\ Len(added) = 1
    BY <1>1, <1>5
  <2>2. PICK base \in Seq(Stream) \ {<<>>} :
            /\ Flagged(base) \/ Unflagged(base)
            /\ HasMedia(base, parsed)
            /\ streams = AddTemporaryStreams(base, added[1])
    BY <2>1 DEF IInv, BetweenHandovers
  <2>3. added[1] \in Port
    BY <1>1, <2>1, FirstAdded
  <2>4. /\ ~fault' /\ streams' # <<>>
        /\ Flagged(streams') \/ Unflagged(streams')
        /\ \A i \in DOMAIN base : \E j \in DOMAIN streams' : streams'[j].media = base[i].media
    <3>1. streams' = RemoveTemporaryStreams(AddTemporaryStreams(base, added[1]))
      BY <1>1, <2>2
    <3>2. fault' = RemoveTemporaryCrashes(AddTemporaryStreams(base, added[1]))
      BY <1>1, <2>2
    <3>3. QED
      BY <2>2, <2>3, <3>1, <3>2, HandoverEnds
  <2>5. HasMedia(streams', parsed')
    BY <1>1, <2>2, <2>4 DEF HasMedia
  <2>6. QED
    BY <1>1, <2>4, <2>5 DEF BetweenHandovers
<1>6. BetweenHandovers'
  BY <1>5 DEF BetweenHandovers
<1>7. QED
  BY <1>3, <1>4, <1>6 DEF IInv

LEMMA NextIInv == IInv /\ [Next]_vars => IInv'
<1> SUFFICES ASSUME IInv, [Next]_vars PROVE IInv'
  OBVIOUS
<1>1. CASE Next
  BY <1>1, AddInRuleIInv, RemoveInRuleIInv DEF Next
<1>2. CASE UNCHANGED vars
  BY <1>2 DEF vars, IInv, TypeOK, OldPortsServed, BeforeFirst, BetweenHandovers
<1>3. QED
  BY <1>1, <1>2

\* The inductive invariant holds in every state.
THEOREM Invariant == Spec => []IInv
  BY InitIInv, NextIInv, PTL DEF Spec

-----------------------------------------------------------------------------
(* Theorems *)

\* The streams stay well-formed streams of known media types, and the history
\* stays within its bounds, in any order of the calls (add_temporary_streams,
\* remove_temporary_streams).
THEOREM RulesTypeCorrect == Spec => []TypeOK
<1>1. IInv => TypeOK
  BY DEF IInv
<1>2. QED
  BY <1>1, Invariant, PTL

\* Whatever rules are added before the first remove_in_rule, the ports of the SDP
\* and every added port are served (add_temporary_streams).
THEOREM OldPortsAreServed == Spec => []OldPortsServed
<1>1. IInv => OldPortsServed
  BY DEF IInv
<1>2. QED
  BY <1>1, Invariant, PTL

\* Paired calls never crash, take the port of the handover away or lose a media
\* type, for any number of streams and handovers (remove_temporary_streams).
THEOREM PairedCallsWork == Spec => []PairedRulesWork
<1>1. ASSUME IInv, paired
      PROVE  /\ ~fault
             /\ \A i \in DOMAIN added : ContainPort(streams, added[i])
             /\ \A i \in DOMAIN parsed : StreamOfMedia(streams, parsed[i].media) # 0
  <2>1. streams \in Seq(Stream) /\ HasMedia(streams, parsed)
    BY <1>1 DEF IInv, TypeOK, BetweenHandovers
  <2>2. ASSUME NEW i \in DOMAIN parsed
        PROVE  StreamOfMedia(streams, parsed[i].media) # 0
    <3> DEFINE fits == {j \in DOMAIN streams : streams[j].media = parsed[i].media}
    <3>1. fits # {} /\ Len(streams) \in Nat /\ \A j \in fits : j \in 1 .. Len(streams)
      BY <2>1 DEF HasMedia
    <3> HIDE DEF fits
    <3>2. FirstOf(fits) # 0
      BY <3>1, FirstOfPosition
    <3>3. QED
      BY <3>2 DEF StreamOfMedia, fits
  <2>3. QED
    BY <1>1, <2>2 DEF IInv, BetweenHandovers
<1>2. IInv => PairedRulesWork
  BY <1>1 DEF PairedRulesWork
<1>3. QED
  BY <1>2, Invariant, PTL

\* The first handover leaves exactly the copies: every stream of the SDP, in
\* order, at the new port.
THEOREM FirstHandoverMoves == Spec => FirstHandover
<1>1. ASSUME IInv, NEW port \in Ports, RemoveInRule(port), handovers = 0, Len(added) = 1
      PROVE  streams' = [i \in DOMAIN parsed |->
                           [media |-> parsed[i].media, port |-> added[1],
                            rtcp_port |-> added[1], temporary |-> TRUE]]
  <2>1. streams = AddTemporaryStreams(parsed, added[1])
    BY <1>1 DEF IInv, BeforeFirst
  <2>2. parsed \in Seq(Stream) \ {<<>>} /\ Unflagged(parsed)
    BY <1>1, RulesAssumption DEF IInv, TypeOK, Unflagged
  <2>3. added[1] \in Port
    BY <1>1, FirstAdded DEF IInv, TypeOK
  <2>4. streams' = RemoveTemporaryStreams(streams)
    BY <1>1 DEF RemoveInRule
  <2>5. streams' = [k \in 1 .. Len(parsed) |-> Copy(parsed[k], added[1])]
    BY <2>1, <2>2, <2>3, <2>4, HandoverEnds
  <2>6. DOMAIN parsed = 1 .. Len(parsed)
    BY <2>2
  <2>7. QED
    BY <2>5, <2>6 DEF Copy
<1> DEFINE Moves == \A port \in Ports :
             RemoveInRule(port) /\ handovers = 0 /\ Len(added) = 1 =>
                streams' = [i \in DOMAIN parsed |->
                              [media |-> parsed[i].media, port |-> added[1],
                               rtcp_port |-> added[1], temporary |-> TRUE]]
<1>2. IInv /\ [Next]_vars => [Moves]_vars
  BY <1>1
<1>3. QED
  BY <1>2, Invariant, PTL DEF Spec, FirstHandover

\* A remove_in_rule that follows one add_in_rule keeps the port of its handover.
THEOREM HandoverKeepsPort == Spec => HandoverPortKept
<1>1. ASSUME IInv, NEW port \in Ports, RemoveInRule(port), paired, Len(added) = 1
      PROVE  ContainPort(streams', added[1])
  <2>1. PICK base \in Seq(Stream) \ {<<>>} :
            /\ Flagged(base) \/ Unflagged(base)
            /\ streams = AddTemporaryStreams(base, added[1])
    BY <1>1 DEF IInv, BetweenHandovers
  <2>2. added[1] \in Port
    BY <1>1, FirstAdded DEF IInv, TypeOK
  <2>3. streams' = RemoveTemporaryStreams(streams)
    BY <1>1 DEF RemoveInRule
  <2>4. QED
    BY <2>1, <2>2, <2>3, HandoverEnds
<1> DEFINE Keeps == \A port \in Ports :
             RemoveInRule(port) /\ paired /\ Len(added) = 1 => ContainPort(streams', added[1])
<1>2. IInv /\ [Next]_vars => [Keeps]_vars
  BY <1>1
<1>3. QED
  BY <1>2, Invariant, PTL DEF Spec, HandoverPortKept

-----------------------------------------------------------------------------
(* The loop of remove_temporary_streams *)

\* One pass of the loop: what is left from i on, given what f says is left behind.
Pass(b, f, i) ==
    IF i > Len(b) THEN <<>>
    ELSE IF b[i].temporary
         THEN <<[b[i] EXCEPT !.temporary = FALSE]>> \o f[i + 1]
         ELSE (IF i = Len(b) THEN <<>> ELSE <<b[i + 1]>>) \o f[i + 2]

\* f is what the loop computes from position i on.
LoopFrom(b, f, i) ==
    /\ f = [j \in 1 .. Len(b) + 2 |-> f[j]]
    /\ \A j \in 1 .. Len(b) + 2 : j >= i => f[j] = Pass(b, f, j)

\* There is a function like that.  From the end of the list on there is one; one
\* more place is one more EXCEPT, so no least number of places is without.
LEMMA LoopExists ==
    ASSUME NEW b \in Seq(Stream)
    PROVE  \E f : LoopFrom(b, f, 1)
<1>1. PICK n \in Nat : n = Len(b) + 3
  OBVIOUS
<1> DEFINE I == {k \in Nat : k < n /\ ~ \E f : LoopFrom(b, f, n - k)}
<1>2. SUFFICES ASSUME n - 1 \in I PROVE FALSE
  <2>1. n - 1 \in Nat /\ n - 1 < n /\ n - (n - 1) = 1
    BY <1>1
  <2>2. QED
    BY <2>1
<1>3. PICK k \in I : \A j \in I : k <= j
  <2> HIDE DEF I
  <2>1. I # {} /\ \A j \in I : j \in Nat
    BY <1>2 DEF I
  <2>2. QED
    BY <2>1, MinOfNaturals
<1>4. k \in Nat /\ k < n /\ ~ \E f : LoopFrom(b, f, n - k)
  OBVIOUS
<1> HIDE DEF I
<1>5. CASE k = 0
  <2>1. PICK f : f = [j \in 1 .. Len(b) + 2 |-> <<>>]
    OBVIOUS
  <2>2. \A j \in 1 .. Len(b) + 2 : ~ (j >= n - k)
    BY <1>1, <1>5
  <2>3. LoopFrom(b, f, n - k)
    BY <2>1, <2>2 DEF LoopFrom
  <2>4. QED
    BY <1>4, <2>3
<1>6. CASE k # 0
  <2>1. k - 1 \in Nat /\ k - 1 < n /\ ~ (k <= k - 1)
    BY <1>4, <1>6
  <2>2. PICK i : i = n - k
    OBVIOUS
  <2>3. i \in 1 .. Len(b) + 2 /\ n - (k - 1) = i + 1
    BY <1>1, <1>4, <1>6, <2>2
  <2>4. PICK g : LoopFrom(b, g, i + 1)
    <3>1. k - 1 \notin I
      BY <1>3, <2>1
    <3>2. QED
      BY <2>1, <2>3, <3>1 DEF I
  <2>5. PICK x : x = Pass(b, g, i)
    OBVIOUS
  <2>6. PICK f : f = [j \in 1 .. Len(b) + 2 |-> IF j = i THEN x ELSE g[j]]
    OBVIOUS
  <2>7. Len(b) \in Nat
    OBVIOUS
  <2>8. ASSUME NEW j \in 1 .. Len(b) + 2, j >= i PROVE Pass(b, f, j) = Pass(b, g, j)
    <3>1. CASE j > Len(b)
      BY <3>1 DEF Pass
    <3>2. CASE j <= Len(b)
      <4>1. /\ j + 1 \in 1 .. Len(b) + 2 /\ j + 1 # i
            /\ j + 2 \in 1 .. Len(b) + 2 /\ j + 2 # i
        BY <2>3, <2>7, <2>8, <3>2
      <4>2. f[j + 1] = g[j + 1] /\ f[j + 2] = g[j + 2]
        BY <2>6, <4>1
      <4>3. QED
        BY <4>2 DEF Pass
    <3>3. QED
      BY <2>3, <2>7, <3>1, <3>2
  <2>9. ASSUME NEW j \in 1 .. Len(b) + 2, j >= i PROVE f[j] = Pass(b, f, j)
    <3>1. CASE j = i
      BY <2>5, <2>6, <2>8, <2>9, <3>1
    <3>2. CASE j # i
      <4>1. j >= i + 1
        BY <2>3, <2>9, <3>2
      <4>2. g[j] = Pass(b, g, j)
        BY <2>4, <4>1 DEF LoopFrom
      <4>3. QED
        BY <2>6, <2>8, <2>9, <3>2, <4>2
    <3>3. QED
      BY <3>1, <3>2
  <2>10. f = [j \in 1 .. Len(b) + 2 |-> f[j]]
    BY <2>6
  <2>11. LoopFrom(b, f, i)
    BY <2>9, <2>10 DEF LoopFrom
  <2>12. QED
    BY <1>4, <2>2, <2>11
<1>7. QED
  BY <1>5, <1>6

\* RemovalLoop is what such a function says is left from the first stream on.
LEMMA LoopIs ==
    ASSUME NEW b \in Seq(Stream)
    PROVE  \E f : LoopFrom(b, f, 1) /\ RemovalLoop(b) = f[1]
<1>1. PICK f : f = CHOOSE g : g = [i \in 1 .. Len(b) + 2 |-> Pass(b, g, i)]
  OBVIOUS
<1>2. RemovalLoop(b) = f[1]
  BY <1>1 DEF RemovalLoop, Pass
<1>3. \E g : g = [i \in 1 .. Len(b) + 2 |-> Pass(b, g, i)]
  <2>1. PICK g : LoopFrom(b, g, 1)
    BY LoopExists
  <2>2. \A j \in 1 .. Len(b) + 2 : g[j] = Pass(b, g, j)
    BY <2>1 DEF LoopFrom
  <2>3. g = [j \in 1 .. Len(b) + 2 |-> g[j]]
    BY <2>1 DEF LoopFrom
  <2>4. QED
    BY <2>2, <2>3
<1>4. f = [i \in 1 .. Len(b) + 2 |-> Pass(b, f, i)]
  BY <1>1, <1>3
<1>5. LoopFrom(b, f, 1)
  BY <1>4 DEF LoopFrom
<1>6. QED
  BY <1>2, <1>5

\* r is what remove_temporary_streams makes of the streams of b at the positions I.
Makes(b, I, r) ==
    \E n \in Nat : \E g \in [1 .. n -> 1 .. Len(b)] :
        /\ \A i, j \in 1 .. n : i < j => g[i] < g[j]
        /\ I = {g[i] : i \in 1 .. n}
        /\ r = [k \in 1 .. n |-> Result(b, g[k])]

\* Of no streams it makes the empty list.
LEMMA MakesNothing ==
    ASSUME NEW b
    PROVE  Makes(b, {}, <<>>)
<1>1. PICK g : g = [k \in 1 .. 0 |-> 1]
  OBVIOUS
<1>2. g \in [1 .. 0 -> 1 .. Len(b)] /\ {} = {g[i] : i \in 1 .. 0}
  BY <1>1
<1>3. <<>> = [k \in 1 .. 0 |-> Result(b, g[k])]
  OBVIOUS
<1>4. 0 \in Nat /\ \A i, j \in 1 .. 0 : i < j => g[i] < g[j]
  OBVIOUS
<1>5. QED
  BY <1>2, <1>3, <1>4 DEF Makes

\* A stream in front of them.
LEMMA MakesOneMore ==
    ASSUME NEW b \in Seq(Stream), NEW I, NEW r, Makes(b, I, r),
           NEW x \in 1 .. Len(b), \A i \in I : x < i
    PROVE  Makes(b, {x} \cup I, <<Result(b, x)>> \o r)
<1>1. PICK n \in Nat : \E g \in [1 .. n -> 1 .. Len(b)] :
          /\ \A i, j \in 1 .. n : i < j => g[i] < g[j]
          /\ I = {g[i] : i \in 1 .. n}
          /\ r = [k \in 1 .. n |-> Result(b, g[k])]
  BY DEF Makes
<1>2. PICK g \in [1 .. n -> 1 .. Len(b)] :
          /\ \A i, j \in 1 .. n : i < j => g[i] < g[j]
          /\ I = {g[i] : i \in 1 .. n}
          /\ r = [k \in 1 .. n |-> Result(b, g[k])]
  BY <1>1
<1>3. PICK m, h : m = n + 1 /\ h = [k \in 1 .. m |-> IF k = 1 THEN x ELSE g[k - 1]]
  OBVIOUS
<1>4. m \in Nat /\ 1 \in 1 .. m /\ h[1] = x
  BY <1>3
<1>5. \A k \in 1 .. m : k # 1 => k - 1 \in 1 .. n /\ h[k] = g[k - 1]
  BY <1>3
<1>6. \A k \in 1 .. n : k + 1 \in 1 .. m /\ h[k + 1] = g[k]
  BY <1>3
<1>7. h \in [1 .. m -> 1 .. Len(b)]
  BY <1>3, <1>4, <1>5
<1>8. ASSUME NEW i \in 1 .. m, NEW j \in 1 .. m, i < j PROVE h[i] < h[j]
  <2>1. j # 1 /\ j - 1 \in 1 .. n /\ h[j] = g[j - 1]
    BY <1>5, <1>8
  <2>2. CASE i = 1
    BY <1>2, <1>4, <2>1, <2>2
  <2>3. CASE i # 1
    <3>1. i - 1 \in 1 .. n /\ h[i] = g[i - 1] /\ i - 1 < j - 1
      BY <1>5, <1>8, <2>3
    <3>2. QED
      BY <1>2, <2>1, <3>1
  <2>4. QED
    BY <2>2, <2>3
<1>9. {x} \cup I = {h[i] : i \in 1 .. m}
  <2>1. ASSUME NEW y \in {x} \cup I PROVE \E i \in 1 .. m : y = h[i]
    <3>1. CASE y = x
      BY <1>4, <3>1
    <3>2. CASE y \in I
      BY <1>2, <1>6, <3>2
    <3>3. QED
      BY <3>1, <3>2
  <2>2. ASSUME NEW i \in 1 .. m PROVE h[i] \in {x} \cup I
    BY <1>2, <1>4, <1>5
  <2>3. QED
    BY <2>1, <2>2
<1>10. <<Result(b, x)>> \o r = [k \in 1 .. m |-> Result(b, h[k])]
  <2>1. PICK s : s = <<Result(b, x)>> \o r
    OBVIOUS
  <2>2. PICK R : R = {Result(b, x)} \cup {Result(b, g[k]) : k \in 1 .. n}
    OBVIOUS
  <2>3. r \in Seq(R) /\ Len(r) = n
    <3>1. r \in [1 .. n -> R]
      BY <1>2, <2>2
    <3>2. QED
      BY <3>1
  <2>8. PICK t : t = <<Result(b, x)>>
    OBVIOUS
  <2>9. t \in Seq(R) /\ Len(t) = 1 /\ t[1] = Result(b, x)
    BY <2>2, <2>8
  <2>10. s = t \o r
    BY <2>1, <2>8
  <2>4. /\ s \in Seq(R) /\ Len(s) = m
        /\ s[1] = Result(b, x) /\ \A k \in 1 .. m : k # 1 => s[k] = r[k - 1]
    <3>1. s \in Seq(R) /\ Len(s) = Len(t) + Len(r)
      BY <2>3, <2>9, <2>10, ConcatProperties
    <3>2. \A k \in 1 .. Len(t) + Len(r) : s[k] = IF k <= Len(t) THEN t[k] ELSE r[k - Len(t)]
      BY <2>3, <2>9, <2>10, ConcatProperties
    <3>3. \A k \in 1 .. m : s[k] = IF k <= 1 THEN t[k] ELSE r[k - 1]
      BY <1>3, <2>3, <2>9, <3>2
    <3>4. QED
      BY <1>3, <1>4, <2>3, <2>9, <3>1, <3>3
  <2>5. \A k \in 1 .. m : s[k] = Result(b, h[k])
    <3>1. ASSUME NEW k \in 1 .. m, k # 1 PROVE s[k] = Result(b, h[k])
      <4>1. k - 1 \in 1 .. n /\ h[k] = g[k - 1]
        BY <1>5, <3>1
      <4>2. r[k - 1] = Result(b, g[k - 1])
        BY <1>2, <4>1
      <4>3. QED
        BY <2>4, <3>1, <4>1, <4>2
    <3>2. QED
      BY <1>4, <2>4, <3>1
  <2>6. s = [k \in 1 .. m |-> s[k]]
    BY <1>4, <2>4
  <2>7. QED
    BY <2>1, <2>5, <2>6
<1>11. QED
  BY <1>4, <1>7, <1>8, <1>9, <1>10 DEF Makes

\* The positions of the streams that stay, from the i-th stream on.
KeptFrom(b, i) == {x \in Kept(b) : x >= i}

\* The loop is about to look at the i-th stream, or at the end of the list.
LooksAt(b, i) == i \in 1 .. Len(b) + 2 /\ (i > Len(b) \/ i \in Visited(b))

\* What a pass of the loop makes of the list from there on, when the later
\* passes do as they should.
LEMMA PassMakes ==
    ASSUME NEW b \in Seq(Stream), NEW f, LoopFrom(b, f, 1), NEW i \in Nat, LooksAt(b, i),
           \A j \in Nat : j > i /\ LooksAt(b, j) => Makes(b, KeptFrom(b, j), f[j])
    PROVE  Makes(b, KeptFrom(b, i), f[i])
<1>1. PICK n \in Nat : n = Len(b)
  BY Positions
<1>2. \A q \in Kept(b) : q \in 1 .. n
  BY <1>1, Positions
<1>3. \A q \in 1 .. n : q \in Kept(b) <=> (q \in Visited(b) => b[q].temporary)
  BY <1>1, Positions
<1>4. i \in 1 .. n + 2 /\ (i > n \/ i \in Visited(b))
  BY <1>1 DEF LooksAt
<1>5. f[i] = Pass(b, f, i)
  BY <1>1, <1>4 DEF LoopFrom
<1>6. \A q \in 1 .. n : q + 1 \in 1 .. n =>
          (q + 1 \in Visited(b) <=> q \notin Visited(b) \/ b[q].temporary)
  BY <1>1, VisitedSteps
<1>7. CASE i > n
  <2>1. f[i] = <<>>
    BY <1>1, <1>5, <1>7 DEF Pass
  <2>2. KeptFrom(b, i) = {}
    BY <1>2, <1>7 DEF KeptFrom
  <2>3. QED
    BY <2>1, <2>2, MakesNothing
<1>8. CASE i <= n /\ b[i].temporary
  <2>1. i \in 1 .. n /\ i \in Visited(b) /\ i \in Kept(b)
    BY <1>3, <1>4, <1>8
  <2>2. f[i] = <<Result(b, i)>> \o f[i + 1]
    <3>1. f[i] = <<[b[i] EXCEPT !.temporary = FALSE]>> \o f[i + 1]
      BY <1>1, <1>4, <1>5, <1>8 DEF Pass
    <3>2. b[i] \in Stream
      BY <1>1, <2>1, Positions
    <3>3. Result(b, i) = [b[i] EXCEPT !.temporary = FALSE]
      BY <2>1, <3>2 DEF Result, Stream
    <3>4. QED
      BY <3>1, <3>3
  <2>3. LooksAt(b, i + 1)
    <3>1. i + 1 > n \/ i + 1 \in Visited(b)
      BY <1>6, <1>8, <2>1
    <3>2. QED
      BY <1>1, <2>1, <3>1 DEF LooksAt
  <2>4. Makes(b, KeptFrom(b, i + 1), f[i + 1])
    BY <2>3
  <2>5. KeptFrom(b, i) = {i} \cup KeptFrom(b, i + 1)
    <3>1. \A x \in Kept(b) : x >= i <=> x = i \/ x >= i + 1
      BY <1>2, <2>1
    <3>2. i >= i
      OBVIOUS
    <3>3. QED
      BY <2>1, <3>1 DEF KeptFrom
  <2>6. \A x \in KeptFrom(b, i + 1) : i < x
    BY <1>2, <2>1 DEF KeptFrom
  <2>7. QED
    BY <1>1, <2>1, <2>2, <2>4, <2>5, <2>6, MakesOneMore
<1>9. CASE i = n /\ ~b[i].temporary
  <2>1. i \in 1 .. n /\ i \notin Kept(b)
    BY <1>3, <1>4, <1>9
  <2>2. f[i] = <<>> \o f[n + 2] /\ n + 2 \in 1 .. n + 2
    BY <1>1, <1>4, <1>5, <1>9 DEF Pass
  <2>3. f[n + 2] = <<>>
    <3>1. f[n + 2] = Pass(b, f, n + 2)
      BY <1>1, <2>2 DEF LoopFrom
    <3>2. n + 2 > Len(b)
      BY <1>1
    <3>3. QED
      BY <3>1, <3>2 DEF Pass
  <2>4. f[i] = <<>>
    BY <2>2, <2>3
  <2>5. KeptFrom(b, i) = {}
    BY <1>2, <1>9, <2>1 DEF KeptFrom
  <2>6. QED
    BY <2>4, <2>5, MakesNothing
<1>10. CASE i < n /\ ~b[i].temporary
  <2>1. i \in 1 .. n /\ i \in Visited(b) /\ i \notin Kept(b)
    BY <1>3, <1>4, <1>10
  <2>2. i + 1 \in 1 .. n /\ i + 1 \notin Visited(b) /\ i + 1 \in Kept(b)
    BY <1>3, <1>6, <1>10, <2>1
  <2>3. f[i] = <<Result(b, i + 1)>> \o f[i + 2]
    <3>1. f[i] = <<b[i + 1]>> \o f[i + 2]
      <4>1. ~(i > Len(b)) /\ ~b[i].temporary /\ i # Len(b)
        BY <1>1, <1>10
      <4>2. QED
        BY <1>5, <4>1 DEF Pass
    <3>2. b[i + 1] = Result(b, i + 1)
      BY <1>1, <2>2, Positions
    <3>3. QED
      BY <3>1, <3>2
  <2>4. LooksAt(b, i + 2)
    <3>1. PICK k : k = i + 1
      OBVIOUS
    <3>2. k + 1 = i + 2 /\ k \in 1 .. n /\ k \notin Visited(b)
      BY <2>1, <2>2, <3>1
    <3>3. k + 1 > n \/ k + 1 \in Visited(b)
      BY <1>6, <3>2
    <3>4. QED
      BY <1>1, <1>10, <2>1, <3>2, <3>3 DEF LooksAt
  <2>5. Makes(b, KeptFrom(b, i + 2), f[i + 2])
    BY <2>4
  <2>6. KeptFrom(b, i) = {i + 1} \cup KeptFrom(b, i + 2)
    BY <1>2, <2>1, <2>2 DEF KeptFrom
  <2>7. \A x \in KeptFrom(b, i + 2) : i + 1 < x
    BY <1>2, <2>1 DEF KeptFrom
  <2>8. QED
    BY <1>1, <2>2, <2>3, <2>5, <2>6, <2>7, MakesOneMore
<1>11. QED
  BY <1>4, <1>7, <1>8, <1>9, <1>10

\* The list the loop makes, from every place it looks at: the least number of
\* passes left for which it would be another one cannot be.
LEMMA LoopMakes ==
    ASSUME NEW b \in Seq(Stream), NEW f, LoopFrom(b, f, 1)
    PROVE  \A i \in Nat : LooksAt(b, i) => Makes(b, KeptFrom(b, i), f[i])
<1>1. PICK n \in Nat : n = Len(b) + 2
  BY Positions
<1>2. PICK I : I = {k \in Nat : k < n /\ LooksAt(b, n - k)
                                 /\ ~Makes(b, KeptFrom(b, n - k), f[n - k])}
  OBVIOUS
<1>3. I = {}
  <2>1. SUFFICES ASSUME I # {} PROVE FALSE
    OBVIOUS
  <2>2. PICK k \in I : \A j \in I : k <= j
    <3>1. I \subseteq Nat
      BY <1>2
    <3>2. QED
      BY <2>1, <3>1, MinOfNaturals
  <2>3. k \in Nat /\ k < n /\ LooksAt(b, n - k) /\ ~Makes(b, KeptFrom(b, n - k), f[n - k])
    BY <1>2
  <2>4. PICK i \in Nat : i = n - k
    BY <2>3
  <2>5. ASSUME NEW j \in Nat, j > i, LooksAt(b, j) PROVE Makes(b, KeptFrom(b, j), f[j])
    <3>1. PICK l \in Nat : j = n - l
      BY <1>1, <2>5 DEF LooksAt
    <3>2. l < n /\ l < k
      BY <1>1, <2>3, <2>4, <2>5, <3>1 DEF LooksAt
    <3>3. l \notin I
      BY <2>2, <2>3, <3>2
    <3>4. QED
      BY <1>2, <2>5, <3>1, <3>2, <3>3
  <2>6. Makes(b, KeptFrom(b, i), f[i])
    BY <2>3, <2>4, <2>5, PassMakes
  <2>7. QED
    BY <2>3, <2>4, <2>6
<1>4. ASSUME NEW i \in Nat, LooksAt(b, i) PROVE Makes(b, KeptFrom(b, i), f[i])
  <2>1. PICK k : k = n - i
    OBVIOUS
  <2>3. k \in Nat /\ i = n - k /\ k < n
    BY <1>1, <1>4, <2>1 DEF LooksAt
  <2>2. QED
    BY <1>2, <1>3, <1>4, <2>3
<1>5. QED
  BY <1>4

\* For every list, the description of what remove_temporary_streams keeps is
\* what its loop computes.
LEMMA LoopIsRemoval ==
    ASSUME NEW b \in Seq(Stream)
    PROVE  RemoveTemporaryStreams(b) = RemovalLoop(b)
<1>1. PICK f : LoopFrom(b, f, 1) /\ RemovalLoop(b) = f[1]
  BY LoopIs
<1>2. Len(b) \in Nat /\ \A q \in Kept(b) : q \in 1 .. Len(b)
  BY Positions
<1>3. LooksAt(b, 1)
  <2>1. 1 > Len(b) \/ 1 \in Visited(b)
    BY <1>2, VisitedSteps
  <2>2. QED
    BY <1>2, <2>1 DEF LooksAt
<1>4. KeptFrom(b, 1) = Kept(b)
  BY <1>2 DEF KeptFrom
<1>5. Makes(b, Kept(b), RemovalLoop(b))
  BY <1>1, <1>3, <1>4, LoopMakes
<1>6. PICK n \in Nat : \E g \in [1 .. n -> 1 .. Len(b)] :
          /\ \A i, j \in 1 .. n : i < j => g[i] < g[j]
          /\ Kept(b) = {g[i] : i \in 1 .. n}
          /\ RemovalLoop(b) = [k \in 1 .. n |-> Result(b, g[k])]
  BY <1>5 DEF Makes
<1>7. PICK g \in [1 .. n -> 1 .. Len(b)] :
          /\ \A i, j \in 1 .. n : i < j => g[i] < g[j]
          /\ Kept(b) = {g[i] : i \in 1 .. n}
          /\ RemovalLoop(b) = [k \in 1 .. n |-> Result(b, g[k])]
  BY <1>6
<1>8. g \in [1 .. n -> Nat]
  BY <1>2
<1>9. Cardinality(Kept(b)) = n /\ \A k \in 1 .. n : Nth(Kept(b), k) = g[k]
  <2>1. PICK I : I = Kept(b)
    OBVIOUS
  <2>2. \A i, j \in 1 .. n : i < j => g[i] < g[j]
    BY <1>7
  <2>3. I = {g[i] : i \in 1 .. n}
    BY <1>7, <2>1
  <2>4. Cardinality(I) = n /\ \A k \in 1 .. n : Nth(I, k) = g[k]
    BY ONLY <1>8, <2>2, <2>3, NthIs, ZenonT(40)
  <2>5. QED
    BY <2>1, <2>4
<1>10. RemoveTemporaryStreams(b) = [k \in 1 .. n |-> Result(b, Nth(Kept(b), k))]
  <2>1. Cardinality(Kept(b)) = n
    BY <1>9
  <2>2. QED
    BY <2>1 DEF RemoveTemporaryStreams, Result
<1>11. QED
  BY <1>7, <1>9, <1>10

\* remove_temporary_streams keeps what Kept describes: after every handover,
\* finished, repeated or abandoned, the loop of the code and the description
\* that the other modules reason with agree on the list of the endpoint.
THEOREM LoopDoesAgree == Spec => []LoopAgrees
<1>1. TypeOK => LoopAgrees
  BY LoopIsRemoval DEF TypeOK, LoopAgrees
<1>2. QED
  BY <1>1, RulesTypeCorrect, PTL
=============================================================================
