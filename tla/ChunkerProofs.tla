--------------------------- MODULE ChunkerProofs ---------------------------
(***************************************************************************)
(* The safety properties of Chunker for every text length, chunk size and  *)
(* overlap.  The loop's own invariant is LoopInv: while the loop runs, all *)
(* chunks are full, the last one ends before the text does, and start is   *)
(* that end less the overlap.                                              *)
(***************************************************************************)
EXTENDS Chunker, TLAPS

LoopInv ==
  /\ overlap < size
  /\ size < n
  /\ chunks = <<>> => start = 0
  /\ chunks # <<>> => start = Last(chunks).to - overlap /\ Last(chunks).to < n
  /\ \A i \in 1..Len(chunks) : chunks[i].to - chunks[i].from = size

ChunksInv == ChunksWithinBudget /\ ChunksTile /\ ChunksAdvance

IInv ==
  /\ TypeOK
  /\ pc \in {"enter", "error"} => chunks = <<>> /\ start = 0
  /\ pc = "loop" => LoopInv
  /\ ChunksInv
  /\ LossBounded

USE ArgsAssumption

\* The first state: the defaults have replaced what the caller left out.
LEMMA InitIInv == Init => IInv
  BY DEF Init, IInv, TypeOK, OrDefault, ChunksInv, ChunksWithinBudget, ChunksTile,
         ChunksAdvance, LossBounded, Last, Chunk

\* The prologue either rejects, returns one chunk, or establishes LoopInv.
LEMMA EnterIInv == IInv /\ Enter => IInv'
<1> SUFFICES ASSUME IInv, Enter PROVE IInv'
  OBVIOUS
<1> USE DEF IInv, TypeOK, args
<1>0. chunks = <<>> /\ start = 0
  BY DEF Enter
<1>1. CASE overlap >= size /\ pc' = "error" /\ UNCHANGED <<args, start, chunks>>
  BY <1>0, <1>1 DEF ChunksInv, ChunksWithinBudget, ChunksTile, ChunksAdvance, LossBounded
<1>2. CASE /\ overlap < size /\ n <= size /\ pc' = "done"
           /\ chunks' = <<[from |-> 0, to |-> n]>> /\ UNCHANGED <<args, start>>
  <2>1. Len(chunks') = 1 /\ chunks'[1] = [from |-> 0, to |-> n] /\ chunks' # <<>>
    BY <1>2
  <2>2. TypeOK'
    BY <1>2 DEF Chunk
  <2>3. ChunksInv' /\ LossBounded'
    BY <1>2, <2>1 DEF ChunksInv, ChunksWithinBudget, ChunksTile, ChunksAdvance,
                      LossBounded, Last
  <2> QED BY <1>2, <2>2, <2>3
<1>3. CASE overlap < size /\ n > size /\ pc' = "loop" /\ UNCHANGED <<args, start, chunks>>
  BY <1>0, <1>3 DEF LoopInv, ChunksInv, ChunksWithinBudget, ChunksTile, ChunksAdvance, LossBounded
<1> QED BY <1>1, <1>2, <1>3 DEF Enter

\* Where an iteration of the loop starts and ends.
LEMMA WindowBounds ==
  ASSUME IInv, pc = "loop"
  PROVE  /\ start < n
         /\ End \in Nat /\ End <= n /\ End <= start + size /\ start < End
         /\ End # n => End = start + size
         /\ NextStart = start + size - overlap /\ NextStart \in Nat
         /\ chunks # <<>> => Last(chunks).to \in Nat /\ Last(chunks).to < End
<1> USE DEF IInv, TypeOK
<1>1. LoopInv
  OBVIOUS
<1>2. chunks # <<>> => Last(chunks) \in Chunk
  BY DEF Last
<1>3. chunks # <<>> => /\ Last(chunks).to \in Nat /\ Last(chunks).to < n
                       /\ start = Last(chunks).to - overlap
  BY <1>1, <1>2 DEF LoopInv, Chunk
<1>4. start < n
  BY <1>1, <1>3 DEF LoopInv
<1>5. /\ End \in Nat /\ End <= n /\ End <= start + size /\ start < End
      /\ End # n => End = start + size
      /\ chunks # <<>> => Last(chunks).to < End
  BY <1>1, <1>3, <1>4 DEF LoopInv, End, Lesser
<1>6. NextStart = start + size - overlap /\ NextStart \in Nat
  BY <1>1 DEF LoopInv, NextStart, Greater
<1> QED BY <1>3, <1>4, <1>5, <1>6

\* An iteration that stops at the tail loses less than LossBounded allows.
LEMMA TailIInv ==
  ASSUME IInv, pc = "loop", start >= n \/ TinyTail,
         pc' = "done", UNCHANGED <<args, start, chunks>>
  PROVE  IInv'
<1> USE DEF IInv, TypeOK, args
<1>1. TinyTail
  BY WindowBounds
<1>2. End = n /\ chunks # <<>> /\ n - start < size \div 2
  BY <1>1, WindowBounds DEF TinyTail, LoopInv
<1>3. start = Last(chunks).to - overlap /\ Last(chunks).to \in Nat
  BY <1>2, WindowBounds DEF LoopInv
<1>4. LossBounded'
  BY <1>2, <1>3 DEF LossBounded, Last
<1>5. ChunksInv'
  BY DEF ChunksInv, ChunksWithinBudget, ChunksTile, ChunksAdvance
<1> QED BY <1>4, <1>5

\* An iteration that appends its window keeps the chunks in order.
LEMMA AppendIInv ==
  ASSUME IInv, pc = "loop", ~TinyTail,
         chunks' = Append(chunks, [from |-> start, to |-> End]),
         UNCHANGED args
  PROVE  ChunksInv'
<1> DEFINE w == [from |-> start, to |-> End]
<1> USE DEF IInv, TypeOK, args
<1>1. /\ Len(chunks') = Len(chunks) + 1
      /\ chunks'[Len(chunks) + 1] = w
      /\ \A i \in 1..Len(chunks) : chunks'[i] = chunks[i]
      /\ Len(chunks) \in Nat /\ (chunks = <<>> <=> Len(chunks) = 0)
  OBVIOUS
<1>2. w.from = start /\ w.to = End /\ w.to - w.from <= size
  BY WindowBounds
<1>3. \A i \in 1..Len(chunks) : chunks[i].to - chunks[i].from = size
  BY DEF LoopInv
<1>4. Len(chunks) > 0 => w.to - w.from >= size \div 2
  BY <1>1, <1>2, WindowBounds DEF TinyTail
<1>5. ChunksWithinBudget'
  <2>1. size' = size
    OBVIOUS
  <2>2. ASSUME NEW i \in 1..Len(chunks')
        PROVE  /\ chunks'[i].to - chunks'[i].from <= size
               /\ Len(chunks') > 1 => chunks'[i].to - chunks'[i].from >= size \div 2
    <3>1. CASE i = Len(chunks) + 1
      BY <1>1, <1>2, <1>4, <3>1
    <3>2. CASE i \in 1..Len(chunks)
      BY <1>1, <1>3, <3>2
    <3> QED BY <1>1, <3>1, <3>2
  <2> QED BY <2>1, <2>2 DEF ChunksWithinBudget
<1>6. ChunksTile'
  <2>1. chunks'[1].from = 0
    BY <1>1, <1>2 DEF ChunksInv, ChunksTile, LoopInv
  <2>2. ASSUME NEW i \in 1..Len(chunks') - 1
        PROVE  chunks'[i + 1].from = chunks'[i].to - overlap
    <3>1. CASE i = Len(chunks)
      BY <1>1, <1>2, <3>1 DEF LoopInv, Last
    <3>2. CASE i \in 1..Len(chunks) - 1
      BY <1>1, <3>2 DEF ChunksInv, ChunksTile
    <3> QED BY <1>1, <3>1, <3>2
  <2>3. overlap' = overlap
    OBVIOUS
  <2> QED BY <2>1, <2>2, <2>3 DEF ChunksTile
<1>7. ChunksAdvance'
  <2>1. ASSUME NEW i \in 1..Len(chunks') - 1 PROVE chunks'[i].to < chunks'[i + 1].to
    <3>1. CASE i = Len(chunks)
      BY <1>1, <1>2, <3>1, WindowBounds DEF Last
    <3>2. CASE i \in 1..Len(chunks) - 1
      BY <1>1, <3>2 DEF ChunksInv, ChunksAdvance
    <3> QED BY <1>1, <3>1, <3>2
  <2> QED BY <2>1 DEF ChunksAdvance
<1> QED BY <1>5, <1>6, <1>7 DEF ChunksInv

\* One iteration of the loop.
LEMMA WindowIInv == IInv /\ Window => IInv'
<1> SUFFICES ASSUME IInv, Window PROVE IInv'
  OBVIOUS
<1>1. CASE (start >= n \/ TinyTail) /\ pc' = "done" /\ UNCHANGED <<start, chunks>>
  BY <1>1, TailIInv DEF Window
<1>2. CASE /\ start < n /\ ~TinyTail
           /\ chunks' = Append(chunks, [from |-> start, to |-> End])
           /\ IF End = n THEN pc' = "done" /\ UNCHANGED start
                         ELSE start' = NextStart /\ UNCHANGED pc
  <2> USE DEF Window
  <2>1. ChunksInv'
    BY <1>2, AppendIInv
  <2>2. TypeOK'
    BY <1>2, WindowBounds DEF IInv, TypeOK, Chunk, args
  <2>3. /\ Len(chunks') = Len(chunks) + 1 /\ chunks' # <<>>
        /\ Last(chunks)' = [from |-> start, to |-> End]
        /\ \A i \in 1..Len(chunks) : chunks'[i] = chunks[i]
    BY <1>2 DEF IInv, TypeOK, Last
  <2>4. CASE End = n
    <3>1. pc' = "done" /\ LossBounded'
      BY <1>2, <2>3, <2>4 DEF LossBounded, args
    <3> QED BY <2>1, <2>2, <3>1 DEF IInv
  <2>5. CASE End # n
    <3>1. End = start + size /\ End < n /\ start' = End - overlap /\ pc' = "loop"
      BY <1>2, <2>5, WindowBounds DEF IInv, TypeOK
    <3>2. \A i \in 1..Len(chunks') : chunks'[i].to - chunks'[i].from = size
      <4>1. chunks'[Len(chunks')].to - chunks'[Len(chunks')].from = size
        BY <2>3, <3>1 DEF Last, IInv, TypeOK
      <4>2. \A i \in 1..Len(chunks) : chunks'[i].to - chunks'[i].from = size
        BY <2>3 DEF IInv, LoopInv
      <4> QED BY <2>3, <4>1, <4>2 DEF IInv, TypeOK
    <3>3. LoopInv'
      BY <2>3, <3>1, <3>2 DEF LoopInv, IInv, args
    <3> QED BY <2>1, <2>2, <3>1, <3>3 DEF IInv, LossBounded
  <2> QED BY <2>4, <2>5
<1> QED BY <1>1, <1>2 DEF Window

\* The strengthened invariant holds in every state of every call.
THEOREM Inductive == Spec => []IInv
<1>1. IInv /\ UNCHANGED vars => IInv'
  BY DEF IInv, TypeOK, LoopInv, ChunksInv, ChunksWithinBudget, ChunksTile, ChunksAdvance,
         LossBounded, Last, vars, args
<1>2. IInv /\ [Next]_vars => IInv'
  BY <1>1, EnterIInv, WindowIInv DEF Next
<1> QED BY <1>2, InitIInv, PTL DEF Spec

\* The loop variable and the chunk bounds stay natural numbers: no window
\* starts before the text, whatever the overlap.
THEOREM TypeCorrect == Spec => []TypeOK
  BY Inductive, PTL DEF IInv

\* No chunk exceeds the budget and, in a split text, none is a tiny fragment.
THEOREM WithinBudget == Spec => []ChunksWithinBudget
  BY Inductive, PTL DEF IInv, ChunksInv

\* Consecutive chunks share exactly the configured overlap.
THEOREM Tile == Spec => []ChunksTile
  BY Inductive, PTL DEF IInv, ChunksInv

\* Each chunk reaches further into the text than the one before it.
THEOREM Advance == Spec => []ChunksAdvance
  BY Inductive, PTL DEF IInv, ChunksInv

\* A finished call has covered the text up to less than half a chunk less
\* the overlap.
THEOREM Loss == Spec => []LossBounded
  BY Inductive, PTL DEF IInv
=============================================================================
