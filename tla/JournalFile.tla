----------------------------- MODULE JournalFile -----------------------------
(***************************************************************************)
(* The append-only line framing shared by every journal of the store crate *)
(* (ccos-enterprise-store: audit.jsonl, its rotated segments,              *)
(* governance.jsonl).                                                      *)
(*                                                                         *)
(* A file is a sequence of fragments.  One record is written as two        *)
(* fragments: its "head", some non-empty part of the line that has no      *)
(* newline, and its "tail", the rest of the line with the newline.  A      *)
(* write cut short anywhere inside a line leaves a head without its tail,  *)
(* and bytes written later are glued to that head.  This is as fine as the *)
(* reader can see: it splits on newlines and parses each line whole.       *)
(***************************************************************************)
EXTENDS Integers, Sequences

\* IsPrefix, Front and FlattenSeq mean what they mean in SequencesExt; stating
\* the three here spares every proof the rest of that module.
IsPrefix(s, t) == Len(s) <= Len(t) /\ SubSeq(s, 1, Len(s)) = SubSeq(t, 1, Len(s))
Front(s) == SubSeq(s, 1, Len(s) - 1)
FlattenSeq(seqs) ==
    IF Len(seqs) = 0 THEN seqs
    ELSE LET flatten[i \in 1 .. Len(seqs)] ==
                 IF i = 1 THEN seqs[i] ELSE flatten[i - 1] \o seqs[i]
         IN  flatten[Len(seqs)]

Head1(r) == [rec |-> r, half |-> "head"]
Tail2(r) == [rec |-> r, half |-> "tail"]

\* The bytes `append` builds for a batch before it writes any of them.
Encode(records) ==
    [i \in 1 .. 2 * Len(records) |->
        LET r == records[(i + 1) \div 2]
        IN  IF i % 2 = 1 THEN Head1(r) ELSE Tail2(r)]

\* Everything up to the last newline: what the file durably committed.
CommittedLen(file) ==
    LET ends == {i \in 1 .. Len(file) : file[i].half = "tail"}
    IN  IF ends = {} THEN 0 ELSE CHOOSE i \in ends : \A j \in ends : j <= i

\* Bytes after the last newline: the torn tail.
TornTail(file) == Len(file) - CommittedLen(file)

\* Every committed line is one record as it was written.
WellFramed(file) ==
    LET n == CommittedLen(file)
    IN  /\ n % 2 = 0
        /\ \A j \in 1 .. n \div 2 :
              /\ file[2 * j - 1].half = "head"
              /\ file[2 * j].half = "tail"
              /\ file[2 * j].rec = file[2 * j - 1].rec

\* The records of the committed lines of a well-framed file.
Records(file) ==
    [j \in 1 .. CommittedLen(file) \div 2 |-> file[2 * j].rec]

\* Sequence numbers (ordinals) continue from `first` without a gap.
DenseFrom(records, first) ==
    \A j \in DOMAIN records : records[j].seq = first + j - 1

\* The bytes of the file after a write that stopped after k fragments.
Partial(bytes, k) == SubSeq(bytes, 1, k)
Remainder(bytes, k) == SubSeq(bytes, k + 1, Len(bytes))
=============================================================================
