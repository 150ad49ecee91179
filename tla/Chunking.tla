------------------------------ MODULE Chunking ------------------------------
(* chunking.service.ts. A text is its length and the positions of its sentence
   ends ("." or a like mark before a blank, or an empty line); positions count
   from 0 as in the code, and what trim() takes off a piece is not counted. *)
EXTENDS Integers, Sequences, FiniteSetsExt

CONSTANTS TargetChars,    \* characters of a chunk
          OverlapChars    \* characters it shares with the one before

ASSUME ChunkingAssumption == TargetChars \in Nat \ {0} /\ OverlapChars \in Nat

\* A mark ends a piece only if it is wholly inside and beyond half the target.
Marks(text, pos, end) ==
    {b \in text.marks : pos <= b /\ b + 1 < end /\ 2 * (b - pos) > TargetChars}

End(text, pos) ==
    LET end   == Min({text.length, pos + TargetChars})
        marks == Marks(text, pos, end)
    IN  IF end < text.length /\ marks # {} THEN Max(marks) + 1 ELSE end

\* Mutant: the overlap is added instead of taken off.
PiecesApart(text) ==
    LET pieces[pos \in 0 .. text.length] ==
            LET end == End(text, pos)
            IN  IF pos = text.length THEN <<>>
                ELSE <<[from |-> pos, to |-> end]>> \o
                     IF end = text.length THEN <<>> ELSE pieces[Min({end + OverlapChars, text.length})]
    IN  pieces

\* The pieces [from, to) from position pos on.
PiecesFrom(text) ==
    LET pieces[pos \in 0 .. text.length] ==
            LET end == End(text, pos)
            IN  IF pos = text.length THEN <<>>
                ELSE <<[from |-> pos, to |-> end]>> \o
                     IF end = text.length THEN <<>> ELSE pieces[Max({end - OverlapChars, pos + 1})]
    IN  pieces

Chunk(text) == PiecesFrom(text)[0]
=============================================================================
