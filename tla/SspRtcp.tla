------------------------------- MODULE SspRtcp -------------------------------
(***************************************************************************)
(* The look at the packet loss of an RTCP report (ssp_rtcp.c).  A report   *)
(* is its type, the fraction lost of each of its report blocks, and the    *)
(* bytes the program finds where further blocks would be: what follows in  *)
(* a compound packet, or what an earlier datagram left in the buffer.      *)
(***************************************************************************)
EXTENDS Integers, Sequences

Byte == 0 .. 255

\* The five bit reception report count is the number of blocks.
Report == {r \in [type : {"SR", "RR", "other"}, lost : Seq(Byte), behind : Byte] :
             Len(r.lost) <= 31}

\* The threshold is an int but compared as an unsigned number: a negative one is
\* above every byte.
Exceeds(lost, threshold) == threshold >= 0 /\ lost > threshold

\* Mutant of BlockOfPass: the loop steps before it looks.
BlockAfterPass(i) == (i * (i + 1)) \div 2

\* The block (counted from 0) pass i of the loop looks at: pass i ends with a
\* step of i blocks.
BlockOfPass(i) == (i * (i - 1)) \div 2

FractionLost(r, b) == IF b < Len(r.lost) THEN r.lost[b + 1] ELSE r.behind

ExceedsLimit(r, threshold) ==
    IF r.type = "other" THEN -1
    ELSE IF \E i \in 0 .. Len(r.lost) - 1 :
               Exceeds(FractionLost(r, BlockOfPass(i)), threshold)
         THEN 1 ELSE 0
=============================================================================
