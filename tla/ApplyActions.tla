---------------------------- MODULE ApplyActions ----------------------------
(***************************************************************************)
(* ApplyActions of the gateway: the text after the redact and mask actions *)
(* of the guards that failed.                                              *)
(*                                                                         *)
(* A text is a sequence of bytes.  An edit replaces the bytes from start   *)
(* to end, counted from zero, end excluded.  A byte is a pair: a character *)
(* and the position of the byte in the character's encoding.               *)
(***************************************************************************)
EXTENDS Naturals, Sequences, SequencesExt, FiniteSets

CONSTANTS
    KeepLast    \* the bytes a mask leaves alone at the end of a segment (4)

ASSUME ApplyActionsAssumption == KeepLast \in Nat

Star == <<"*", 1>>

\* "[" label "-REDACTED]": one token.
Redacted == <<"[REDACTED]", 1>>

BytesOf(text) == {text[i] : i \in DOMAIN text}

Segment(text, e) == SubSeq(text, e.start + 1, e.end)

\* A mask keeps the last bytes of a segment if it is longer than that.
Masked(seg) ==
    LET n == IF Len(seg) > KeepLast THEN Len(seg) - KeepLast ELSE Len(seg) IN
    [i \in 1 .. Len(seg) |-> IF i <= n THEN Star ELSE seg[i]]

Replacement(text, e) ==
    IF e.action = "redact" THEN <<Redacted>> ELSE Masked(Segment(text, e))

\* sort.Slice by start; it is not stable, so equal starts come in any order.
SortedEdits(edits) ==
    {s \in SetToSeqs(edits) : \A i, j \in DOMAIN s : i < j => s[i].start <= s[j].start}

\* Mutant of Cut: an edit that overlaps the one before is cut in again.
CutOverlapping(text, done, e) ==
    [out |-> done.out \o SubSeq(text, done.pos + 1, e.start) \o Replacement(text, e),
     pos |-> e.start]

\* One edit: it is skipped if it starts within one already made, however far it reaches.
Cut(text, done, e) ==
    IF e.start < done.pos THEN done
    ELSE [out |-> done.out \o SubSeq(text, done.pos + 1, e.start) \o Replacement(text, e),
          pos |-> e.end]

\* The loop over the sorted edits, if there are any.
Rewrite(text, s) ==
    LET done[n \in 0 .. Len(s)] ==
            IF n = 0 THEN [out |-> <<>>, pos |-> 0] ELSE Cut(text, done[n - 1], s[n])
        last == done[Len(s)]
    IN  IF s = <<>> THEN text ELSE last.out \o SubSeq(text, last.pos + 1, Len(text))

\* What the loop is for, without the loop: the bytes that may not be left when
\* it is done.  The first byte of every edit, as far as a mask hides it, and all
\* that an edit hides if no other edit starts before its end and reaches it.
Hides(text, e) == BytesOf(Segment(text, e)) \ BytesOf(Replacement(text, e))

Meets(e, f) == e.start < f.end /\ f.start < e.end

MustHide(text, edits) ==
    (UNION {Hides(text, e) : e \in {d \in edits : \A f \in edits \ {d} : ~Meets(d, f)}})
        \cup {text[e.start + 1] : e \in {d \in edits : /\ d.start < d.end
                                                   /\ \A f \in edits : f.action = "redact"}}
=============================================================================
