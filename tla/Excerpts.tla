------------------------------ MODULE Excerpts ------------------------------
(***************************************************************************)
(* Cutting UTF-8 text by bytes: the words around a citation's quote        *)
(* (RawWindow.Legible in src/internal/domain/domain.go, over the slice the *)
(* recall statement takes) and the pages a source message is read in       *)
(* (src/internal/infra/pg/messagewindow.go).                               *)
(*                                                                         *)
(* A byte is the width of the code point it leads, or 0 when it continues  *)
(* one, with whether that code point is white space.                       *)
(***************************************************************************)
EXTENDS Integers, SequencesExt, FiniteSetsExt

Rune(width, space) == [i \in 1 .. width |-> [leads |-> IF i = 1 THEN width ELSE 0, space |-> space]]

\* A whole code point starts at byte i of b.
Whole(b, i) == b[i].leads > 0 /\ i + b[i].leads - 1 <= Len(b)
WellFormed(b) == b = << >> \/ (Whole(b, 1) /\ \A i \in 1 .. Len(b) :
                     b[i].leads > 0 => Whole(b, i)
                         /\ (i + b[i].leads <= Len(b) => b[i + b[i].leads].leads > 0))
Spaces(b) == {i \in DOMAIN b : Whole(b, i) /\ b[i].space}

\* The bytes before the first code point the cut left whole, and up to the last.
firstWholeRune(b) == Min({n \in 0 .. Len(b) : n = Len(b) \/ n = 4 \/ Whole(b, n + 1)})
lastWholeRune(b) ==
    Max({n \in 0 .. Len(b) : n = 0 \/ n = Len(b) - 4
             \/ \E i \in 1 .. n : Whole(b, i) /\ i + b[i].leads - 1 = n})

\* Where the first word that begins inside the slice begins, and where the last one ends.
wordStartIn(prefix) ==
    LET spaces == Spaces(prefix)
    IN IF spaces = {} THEN firstWholeRune(prefix)
       ELSE Min({n \in Min(spaces) .. Len(prefix) :
                    n = Len(prefix) \/ (prefix[n + 1].leads > 0 /\ n + 1 \notin spaces)})

wordEndIn(suffix) ==
    LET spaces == Spaces(suffix)
        ends == {i - 1 + suffix[i].leads : i \in spaces}
    IN IF spaces = {} THEN lastWholeRune(suffix)
       ELSE Max({n \in 0 .. Max(spaces) - 1 : n = 0 \/ (n \notin ends /\ suffix[n + 1].leads > 0)})

\* Legible: the slice of a message of so many bytes that starts at `start', around a quote, without
\* the words the slice cut in two.
Legible(slice, start, quoteStart, quoteEnd, bytes) ==
    LET qs == quoteStart - start
        qe == quoteEnd - start
        elidedBefore == start > 0
        elidedAfter == start + Len(slice) < bytes
        lo == IF elidedBefore THEN wordStartIn(SubSeq(slice, 1, qs)) ELSE 0
        hi == IF elidedAfter THEN qe + wordEndIn(SubSeq(slice, qe + 1, Len(slice))) ELSE Len(slice)
    IN IF slice = << >> \/ qs < 0 \/ qe > Len(slice) \/ qs > qe
       THEN [text |-> << >>, start |-> 0, complete |-> FALSE]
       ELSE [text |-> SubSeq(slice, lo + 1, hi), start |-> start + lo,
             complete |-> ~elidedBefore /\ ~elidedAfter]

\* The slice the recall statement cuts around a quote; substring stops at the ends of a message.
Around(message, quoteStart, quoteEnd, window) ==
    LET start == Max({0, quoteStart - window})
    IN Legible(SubSeq(message, start + 1, Min({Len(message), quoteEnd + window})),
               start, quoteStart, quoteEnd, Len(message))

\* One page of a message: at most `limit' bytes from a code point on, whole code points only.
Page(message, start, limit) ==
    LET cut == SubSeq(message, start + 1, Min({Len(message), start + limit}))
    IN SubSeq(cut, 1, Max({n \in 0 .. Len(cut) : n >= Len(cut) - 3 /\ WellFormed(SubSeq(cut, 1, n))}))

\* The pages a reader gets by asking for the next one from where the last one ended.
Pages(message, limit) ==
    LET text[start \in 0 .. Len(message)] ==
            IF start = Len(message) THEN << >>
            ELSE LET page == Page(message, start, limit)
                 IN IF page = << >> THEN << >> ELSE page \o text[start + Len(page)]
    IN text[0]

-----------------------------------------------------------------------------
(* What is checked of them, over every message of a few code points        *)

Runes == {Rune(1, FALSE), Rune(1, TRUE), Rune(3, FALSE), Rune(2, TRUE)}
Messages(n) == {FlattenSeq(m) : m \in UNION {[1 .. k -> Runes] : k \in 1 .. n}}
Boundaries(m) == {0} \cup {i - 1 + m[i].leads : i \in {j \in DOMAIN m : m[j].leads > 0}}

\* An excerpt is text: it starts and ends at whole code points, holds the quote, is part of the
\* message, and says it is complete exactly when it is the message.
ExcerptIsLegible(m, window) ==
    \A qs, qe \in Boundaries(m) : qs < qe =>
        LET e == Around(m, qs, qe, window)
            end == e.start + Len(e.text)
        IN /\ {e.start, end} \subseteq Boundaries(m)
           /\ e.start <= qs /\ qe <= end
           /\ e.text = SubSeq(m, e.start + 1, end)
           /\ e.complete => e.text = m

\* Reading on from where each page ended gives the message, once.
PagesAreTheMessage(m, limit) == Pages(m, limit) = m
=============================================================================
