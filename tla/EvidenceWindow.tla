--------------------------- MODULE EvidenceWindow ---------------------------
(***************************************************************************)
(* Which lines of a transcript extractor_consumer.py reads as the evidence *)
(* of a job. A text is a sequence of bytes of which only the line break is *)
(* told apart, and the byte at offset o, counted from 0 as in the code, is *)
(* text[o + 1]; so text[o] is the byte before offset o. A line is the pair *)
(* of the offsets of its first byte and of its end.                        *)
(***************************************************************************)
EXTENDS Integers, Sequences, FiniteSets

CONSTANT LineBreak

Larger(m, n) == IF m >= n THEN m ELSE n

Smaller(m, n) == IF m <= n THEN m ELSE n

(* The byte before offset o is a line break.                               *)
AfterBreak(text, o) == o \in 1 .. Len(text) /\ text[o] = LineBreak

(* The offsets right behind a line break, the break at or behind cut.      *)
LaterStarts(text, cut, end) == {o \in cut + 1 .. end : AfterBreak(text, o)}

(* Mutant: the cut is where reading begins, in the middle of a line or not. *)
UnalignedStart(text, start, end, maxBytes) == Larger(start, end - maxBytes)

(* Mutant: the line at the cut is skipped even when it is whole.           *)
AlwaysSkipsStart(text, start, end, maxBytes) ==
  LET cut == Larger(start, end - maxBytes)
      later == LaterStarts(text, cut, end)
  IN IF cut = start
       THEN cut
       ELSE IF later = {} THEN end
                          ELSE CHOOSE o \in later : \A p \in later : o <= p

(* Where reading begins: at the start of the window, or within maxBytes of *)
(* its end, there at the first line that begins behind the cut.            *)
BoundedStart(text, start, end, maxBytes) ==
  LET cut == Larger(start, end - maxBytes)
      later == LaterStarts(text, cut, end)
  IN IF cut = start \/ AfterBreak(text, cut)
       THEN cut
       ELSE IF later = {} THEN end
                          ELSE CHOOSE o \in later : \A p \in later : o <= p

(* The lines of the bytes between two offsets that are not blank. The last *)
(* one may be cut off by the end, the first one by the start.              *)
LinesBetween(text, start, end) ==
  {line \in (start .. end) \X (start .. end) :
     /\ line[1] < line[2]
     /\ line[1] = start \/ AfterBreak(text, line[1])
     /\ line[2] = end \/ AfterBreak(text, line[2] + 1)
     /\ \A o \in line[1] + 1 .. line[2] : ~AfterBreak(text, o)}

(* The last n lines of a set of them.                                      *)
Newest(lines, n) ==
  {line \in lines : Cardinality({l \in lines : l[1] > line[1]}) < n}

Content(text, line) == SubSeq(text, line[1] + 1, line[2])

(* A line as the request shows it: its offset and its bytes.               *)
Record(text, line) == [offset |-> line[1], bytes |-> Content(text, line)]

(* The records of a window of which at most maxBytes bytes and maxEvents   *)
(* lines are read; a text that has lost its end gives fewer.               *)
EvidenceRecords(text, start, end, maxBytes, maxEvents) ==
  LET from == BoundedStart(text, start, end, maxBytes)
      lines == LinesBetween(text, from, Smaller(end, Len(text)))
  IN {Record(text, line) : line \in Newest(lines, maxEvents)}

=============================================================================
