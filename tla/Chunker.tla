------------------------------ MODULE Chunker ------------------------------
(***************************************************************************)
(* chunk_text of backend/app/ingestion/chunkers.py: one call of the        *)
(* token-window splitter, one iteration of its while loop per step.  A     *)
(* text is its number of tokens; a chunk is the half-open interval of      *)
(* token positions it was decoded from.                                    *)
(***************************************************************************)
EXTENDS Integers, Sequences

CONSTANTS
  TextLengths,      \* token counts of the texts that are split
  SizeArgs,         \* values callers pass as chunk_size; 0 stands for None too
  OverlapArgs,      \* values callers pass as overlap; 0 stands for None too
  DefaultSize,      \* settings.chunk_size_tokens
  DefaultOverlap    \* settings.chunk_overlap_tokens

ASSUME ArgsAssumption ==
  /\ TextLengths \subseteq Nat
  /\ SizeArgs \subseteq Nat
  /\ OverlapArgs \subseteq Nat
  /\ DefaultSize \in Nat \ {0}
  /\ DefaultOverlap \in Nat

VARIABLES
  n,         \* len(tokens)
  size,      \* chunk_size after "chunk_size or settings.chunk_size_tokens"
  overlap,   \* overlap after "overlap or settings.chunk_overlap_tokens"
  start,     \* the loop variable
  chunks,    \* the list being built
  pc         \* "enter", "loop", "done" or "error" (the ValueError)

args == <<n, size, overlap>>
vars == <<n, size, overlap, start, chunks, pc>>

Chunk == [from : Nat, to : Nat]

Lesser(a, b)  == IF a < b THEN a ELSE b
Greater(a, b) == IF a > b THEN a ELSE b

\* Mutant of OrDefault: a test for None only, which lets a 0 through.
OrDefaultKeepsZero(arg, default) == arg

\* Python's "argument or default": None and 0 both give way to the default.
OrDefault(arg, default) == IF arg = 0 THEN default ELSE arg

Last(s) == s[Len(s)]
-----------------------------------------------------------------------------
Init ==
  /\ n \in TextLengths
  /\ \E a \in SizeArgs    : size    = OrDefault(a, DefaultSize)
  /\ \E a \in OverlapArgs : overlap = OrDefault(a, DefaultOverlap)
  /\ start = 0
  /\ chunks = <<>>
  /\ pc = "enter"

\* The prologue: reject the arguments, or return a short text whole.
Enter ==
  /\ pc = "enter"
  /\ \/ /\ overlap >= size
        /\ pc' = "error"
        /\ UNCHANGED chunks
     \/ /\ overlap < size
        /\ n <= size
        /\ chunks' = <<[from |-> 0, to |-> n]>>
        /\ pc' = "done"
     \/ /\ overlap < size
        /\ n > size
        /\ pc' = "loop"
        /\ UNCHANGED chunks
  /\ UNCHANGED <<args, start>>

End == Lesser(start + size, n)

\* Mutant of NextStart: the overlap is not taken back.
NextStartNoOverlap == Greater(start + size, start + 1)

\* Where the next window begins.
NextStart == Greater(start + size - overlap, start + 1)

\* Mutants of TinyTail: <= for <, and no refusal at all.
TinyTailEager == End - start <= size \div 2 /\ chunks # <<>>
TinyTailNever == FALSE

\* "refuse tiny tail fragments".
TinyTail == End - start < size \div 2 /\ chunks # <<>>

\* Mutant of Window: a window that does not end the text is not advanced past.
WindowStuck ==
  /\ pc = "loop"
  /\ IF End = n THEN pc' = "done" ELSE UNCHANGED pc
  /\ UNCHANGED <<args, start, chunks>>

\* One iteration of "while start < len(tokens)".
Window ==
  /\ pc = "loop"
  /\ \/ /\ (start >= n \/ TinyTail)
        /\ pc' = "done"
        /\ UNCHANGED <<start, chunks>>
     \/ /\ start < n /\ ~TinyTail
        /\ chunks' = Append(chunks, [from |-> start, to |-> End])
        /\ IF End = n
           THEN pc' = "done" /\ UNCHANGED start
           ELSE start' = NextStart /\ UNCHANGED pc
  /\ UNCHANGED args

Next == Enter \/ Window

Spec == Init /\ [][Next]_vars /\ WF_vars(Next)
-----------------------------------------------------------------------------
TypeOK ==
  /\ n \in Nat
  /\ size \in Nat \ {0}
  /\ overlap \in Nat
  /\ start \in Nat
  /\ chunks \in Seq(Chunk)
  /\ pc \in {"enter", "loop", "done", "error"}

\* No chunk is larger than the budget, and when the text is split none is
\* smaller than half of it ("refuse tiny tail fragments", chunkers.py:44).
ChunksWithinBudget ==
  \A i \in 1..Len(chunks) :
    /\ chunks[i].to - chunks[i].from <= size
    /\ Len(chunks) > 1 => chunks[i].to - chunks[i].from >= size \div 2

\* Consecutive chunks share exactly the configured overlap: nothing between
\* two chunks is skipped and nothing more is repeated.
ChunksTile ==
  /\ chunks # <<>> => chunks[1].from = 0
  /\ \A i \in 1..Len(chunks) - 1 : chunks[i + 1].from = chunks[i].to - overlap

\* Every chunk brings text its predecessor did not have: no chunk repeats the
\* tail of the one before it, which would index the same passage twice.
ChunksAdvance ==
  \A i \in 1..Len(chunks) - 1 : chunks[i].to < chunks[i + 1].to

\* What the tiny-tail rule may lose: once the call has returned, either the
\* text is covered to its end or fewer than half a chunk less the overlap of
\* its last tokens are in no chunk.
LossBounded ==
  pc = "done" =>
    /\ chunks # <<>>
    /\ \/ Last(chunks).to = n
       \/ n - Last(chunks).to < size \div 2 - overlap

\* The loop ends on every input: start moves on, or the call returns.
Terminates == <>(pc \in {"done", "error"})
=============================================================================
