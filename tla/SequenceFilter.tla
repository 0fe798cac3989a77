---------------------------- MODULE SequenceFilter ----------------------------
(***************************************************************************)
(* Filtering a queue by membership of a set: as SelectSeq of the standard  *)
(* modules does by a test, and joining a sequence of queues, as FlattenSeq *)
(* does, but written so that facts about them can be proved (module        *)
(* Induction_proofs).                                                      *)
(***************************************************************************)
EXTENDS Integers, Sequences

Elements(s) == {s[i] : i \in 1 .. Len(s)}

\* The elements of s that are in S, in their order.
Those(s, S) ==
    LET upto[i \in 0 .. Len(s)] ==
            IF i = 0 THEN <<>>
            ELSE IF s[i] \in S THEN Append(upto[i - 1], s[i]) ELSE upto[i - 1]
    IN  upto[Len(s)]

\* One sequence after the other.
Joined(ss) ==
    LET upto[i \in 0 .. Len(ss)] == IF i = 0 THEN <<>> ELSE upto[i - 1] \o ss[i]
    IN  upto[Len(ss)]

\* The records of one kind in a log, in their order.
OfKind(s, k) == Those(s, {x \in Elements(s) : x.kind = k})
=============================================================================
