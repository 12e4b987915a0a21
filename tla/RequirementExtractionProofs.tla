--------------------- MODULE RequirementExtractionProofs ---------------------
(***************************************************************************)
(* The chunks, the answers and the merged requirements of an analysis, for *)
(* any limits, any document and whatever the model answers.                *)
(***************************************************************************)
EXTENDS RequirementExtraction, FiniteSetTheorems, TLAPS

----------------------------------------------------------------------------
(* The inductive invariant.                                                *)

\* The chunk being filled begins where the last closed one ends.
CutInv ==
    /\ pc = "create" => chunks = <<>> /\ next = 1
    /\ pc \in {"create", "cut"} =>
           /\ first = IF chunks = <<>> THEN 1 ELSE chunks[Len(chunks)].to + 1
           /\ first = next => next = 1

\* A chunk that was closed has at most the target, or one block; and could not have
\* taken in another.
Bounded(from, to) ==
    \/ from = to /\ Length(from, to) <= HardMaxChars
    \/ Length(from, to) <= TargetChars

ChunksAreSized ==
    /\ \A c \in 1..Len(chunks) :
           /\ chunks[c].from \in 1..chunks[c].to /\ chunks[c].to \in 1..Len(blocks)
           /\ Bounded(chunks[c].from, chunks[c].to)
           /\ chunks[c].to < Len(blocks) => Length(chunks[c].from, chunks[c].to + 1) > TargetChars
    /\ pc = "cut" /\ first < next => Bounded(first, next - 1)

\* Each block cut so far is in one chunk.
ChunksAreOrdered ==
    /\ \A c, d \in 1..Len(chunks) : c < d => chunks[c].to < chunks[d].from
    /\ pc \in {"create", "cut"} =>
           /\ \A c \in 1..Len(chunks) : chunks[c].to < first
           /\ \A b \in 1..first - 1 : \E c \in 1..Len(chunks) : b \in chunks[c].from..chunks[c].to
    /\ pc \in {"overlap", "trim", "call", "done"} =>
           \A b \in 1..Len(blocks) : \E c \in 1..Len(chunks) : b \in chunks[c].from..chunks[c].to

\* Every chunk before the one being sent was answered or counted as failed.
ChunksAreCounted ==
    /\ pc \in {"create", "cut"} => chunk = 1
    /\ pc \in {"trim", "call"} => chunk <= Len(chunks)
    /\ pc \in {"overlap", "done"} => chunk <= Len(chunks) + 1
    /\ pc = "done" => chunk = Len(chunks) + 1
    /\ answered \subseteq 1..chunk - 1
    /\ failed = Cardinality((1..chunk - 1) \ answered)

\* Context that was cut did not fit.
ContextIsTrimmed ==
    pc \in {"trim", "call"} =>
        /\ start \in ContextStart(chunk)..chunks[chunk].from
        /\ \A i \in ContextStart(chunk)..start - 1 : Length(i, chunks[chunk].to) > HardMaxChars
        /\ pc = "call" => Length(start, chunks[chunk].to) <= HardMaxChars

\* What is verified is quoted, and nothing comes but from answers.
AnswersAreSound ==
    /\ \A i \in 1..Len(validated) :
           validated[i].verified =>
               /\ validated[i].block \in 1..Len(blocks)
               /\ validated[i].quote \in blocks[validated[i].block].quotes
    /\ answered = {} => validated = <<>>

\* What merged holds is what the answers before `position' cite, each source once.
MergedSoFar ==
    /\ \A k \in Keys : \A e \in merged[k] :
           /\ \E i \in 1..position - 1 : validated[i].key = k /\ SameEvidence(e, validated[i])
           /\ e.verified => e.block \in 1..Len(blocks) /\ e.quote \in blocks[e.block].quotes
           /\ pc = "done" => Known(e)
           /\ \A f \in merged[k] : SameEvidence(e, f) => e = f
    /\ \A i \in 1..position - 1 :
           pc # "done" \/ Known(validated[i]) =>
               \E e \in merged[validated[i].key] : SameEvidence(e, validated[i])
    /\ pc = "done" => position = Len(validated) + 1

ExtractionInv ==
    /\ TypeOK
    /\ CutInv /\ ChunksPartitionBlocks /\ ChunksAreSized /\ ChunksAreOrdered
    /\ ChunksAreCounted /\ ContextIsTrimmed
    /\ AnswersAreSound /\ MergedSoFar

USE DEF inputVars, cutVars, callVars, mergeVars

----------------------------------------------------------------------------
(* Lemmas about the operators.                                             *)

\* The maximum of two numbers.
LEMMA MaxOfTwo ==
    ASSUME NEW a \in Int, NEW b \in Int
    PROVE  Max({a, b}) = IF a >= b THEN a ELSE b
<1>1. PICK m \in {a, b} : \A y \in {a, b} : m >= y
  OBVIOUS
<1>2. /\ Max({a, b}) \in {a, b}
      /\ \A y \in {a, b} : Max({a, b}) >= y
  BY <1>1, Zenon DEF Max
<1> QED
  BY <1>2

\* A member below all others is the minimum.
LEMMA MinIsLeast ==
    ASSUME NEW S \in SUBSET Int, NEW m \in S, \A y \in S : m <= y
    PROVE  Min(S) = m
<1>1. /\ Min(S) \in S
      /\ \A y \in S : Min(S) <= y
  BY Zenon DEF Min
<1>2. Min(S) <= m /\ m <= Min(S) /\ Min(S) \in Int /\ m \in Int
  BY <1>1
<1> QED
  BY <1>2

\* What the provers need to know of a sequence whose elements they do not look into.
LEMMA SeqFacts ==
    ASSUME NEW S, NEW s \in Seq(S)
    PROVE  /\ Len(s) \in Nat /\ DOMAIN s = 1..Len(s)
           /\ \A i \in 1..Len(s) : s[i] \in S
           /\ s = <<>> <=> Len(s) = 0
  OBVIOUS

\* A bounded sequence is a sequence.
LEMMA BoundedIsSeq ==
    ASSUME NEW S, NEW T, T \subseteq S, NEW n, NEW s \in BoundedSeq(T, n)
    PROVE  s \in Seq(S)
<1>1. PICK m \in 0..n : s \in [1..m -> T]
  BY DEF BoundedSeq, SeqOf
<1> QED
  BY <1>1

\* Lengths are numbers, of one block its size, and so nonnegative.
LEMMA LengthType ==
    ASSUME TypeOK, NEW i \in 1..Len(blocks), NEW j \in 1..Len(blocks)
    PROVE  Length(i, j) \in Int /\ Length(i, i) = Size(blocks, i)
<1>1. \A b \in 1..Len(blocks) : blocks[b] \in Blocks
  BY DEF TypeOK
<1>2. \A k \in Blocks : k.end \in Int
  BY DEF Blocks
<1> QED
  BY <1>1, <1>2 DEF Length, Size

\* The steps, with what the model may answer reduced to what the proofs use.
LEMMA NextSteps ==
    ASSUME [Next]_vars
    PROVE  \/ CreateProvider \/ TakeBlock \/ RefuseBlock \/ EndCut
           \/ Overlap \/ TrimContext \/ EndTrim
           \/ \E items \in Seq(Items) : pc = "call" /\ Answer(items)
           \/ AttemptFails
           \/ Merge \/ Store
           \/ UNCHANGED vars
<1>1. ASSUME Extract
     PROVE  \E items \in Seq(Items) : pc = "call" /\ Answer(items)
  <2>1. FakeAnswers \subseteq Seq(Items)
    BY BoundedIsSeq DEF FakeAnswers, Found
  <2>2. Batches \subseteq Seq(Items)
    BY BoundedIsSeq DEF Batches
  <2> QED
    BY <1>1, <2>1, <2>2 DEF Extract
<1>2. ExtractFails => AttemptFails
  BY DEF ExtractFails, AttemptFails
<1> QED
  BY <1>1, <1>2 DEF Next

\* Where chunks begin and end.
LEMMA ChunkType ==
    ASSUME TypeOK, ChunksPartitionBlocks, NEW c \in 1..Len(chunks)
    PROVE  /\ chunks[c].from \in Nat \ {0} /\ chunks[c].to \in Nat \ {0}
           /\ chunks[c].from <= chunks[c].to
           /\ chunks[c].from = IF c = 1 THEN 1 ELSE chunks[c - 1].to + 1
           /\ Len(chunks) \in Nat /\ DOMAIN chunks = 1..Len(chunks)
<1>1. chunks \in Seq([from : Nat \ {0}, to : Nat \ {0}])
  BY DEF TypeOK
<1>2. DOMAIN chunks = 1..Len(chunks) /\ Len(chunks) \in Nat
  BY <1>1
<1>3. chunks[c] \in [from : Nat \ {0}, to : Nat \ {0}]
  BY <1>1, SeqFacts
<1> QED
  BY <1>2, <1>3 DEF ChunksPartitionBlocks

\* The context begins in the chunk before, or with the chunk.
LEMMA ContextStartType ==
    ASSUME TypeOK, ChunksPartitionBlocks, NEW c \in 1..Len(chunks)
    PROVE  /\ ContextStart(c) \in Nat \ {0}
           /\ ContextStart(c) <= chunks[c].from
           /\ c = 1 => ContextStart(c) = 1
           /\ c > 1 => ContextStart(c) = IF chunks[c - 1].from >= chunks[c].from - OverlapBlocks
                                         THEN chunks[c - 1].from
                                         ELSE chunks[c].from - OverlapBlocks
<1>1. /\ chunks[c].from \in Nat \ {0}
      /\ c = 1 => chunks[c].from = 1
  BY ChunkType
<1>2. ASSUME c > 1
     PROVE  /\ chunks[c - 1].from \in Nat \ {0} /\ chunks[c - 1].to \in Nat
            /\ chunks[c - 1].from <= chunks[c - 1].to
            /\ chunks[c].from = chunks[c - 1].to + 1
  <2>1. c - 1 \in 1..Len(chunks)
    BY <1>2, ChunkType
  <2> QED
    BY <1>2, <2>1, ChunkType
<1>3. CASE c = 1
  BY <1>1, <1>3 DEF ContextStart
<1>4. CASE c > 1
  <2>1. ContextStart(c) = Max({chunks[c - 1].from, chunks[c].from - OverlapBlocks})
    BY <1>4 DEF ContextStart
  <2>2. chunks[c].from - OverlapBlocks \in Int
    BY <1>1, ExtractionAssumption
  <2>3. ContextStart(c) = IF chunks[c - 1].from >= chunks[c].from - OverlapBlocks
                          THEN chunks[c - 1].from ELSE chunks[c].from - OverlapBlocks
    BY <1>2, <1>4, <2>1, <2>2, MaxOfTwo
  <2> QED
    BY <1>1, <1>2, <1>4, <2>3, ExtractionAssumption
<1> QED
  BY <1>3, <1>4

----------------------------------------------------------------------------
(* The steps.                                                              *)

\* What closing a chunk does to the chunks.
LEMMA CloseChunk ==
    ASSUME TypeOK, first < next, chunks' = Append(chunks, [from |-> first, to |-> next - 1])
    PROVE  /\ chunks' \in Seq([from : Nat \ {0}, to : Nat \ {0}])
           /\ Len(chunks') = Len(chunks) + 1 /\ Len(chunks) \in Nat
           /\ \A c \in 1..Len(chunks) : chunks'[c] = chunks[c]
           /\ chunks'[Len(chunks) + 1].from = first
           /\ chunks'[Len(chunks) + 1].to = next - 1
<1>1. chunks \in Seq([from : Nat \ {0}, to : Nat \ {0}])
  BY DEF TypeOK
<1>2. [from |-> first, to |-> next - 1] \in [from : Nat \ {0}, to : Nat \ {0}]
  BY DEF TypeOK
<1> HIDE DEF TypeOK
<1> QED
  BY <1>1, <1>2

\* Every step keeps the types.
LEMMA TypeStep ==
    ASSUME TypeOK, ChunksPartitionBlocks, ChunksAreCounted, [Next]_vars
    PROVE  TypeOK'
<1> USE ExtractionAssumption DEF TypeOK
<1>1. CASE CreateProvider
  BY <1>1 DEF CreateProvider
<1>2. CASE TakeBlock
  <2>1. CASE Full
    <3>1. chunks' = Append(chunks, [from |-> first, to |-> next - 1]) /\ first < next
      BY <1>2, <2>1 DEF TakeBlock, Full
    <3>2. chunks' \in Seq([from : Nat \ {0}, to : Nat \ {0}]) /\ 1..Len(chunks) \subseteq 1..Len(chunks')
      BY <3>1, CloseChunk
    <3> QED
      BY <1>2, <2>1, <3>2 DEF TakeBlock
  <2>2. CASE ~Full
    BY <1>2, <2>2 DEF TakeBlock
  <2> QED
    BY <2>1, <2>2
<1>3. CASE RefuseBlock
  BY <1>3 DEF RefuseBlock
<1>4. CASE EndCut
  <2>1. CASE first < next
    <3>1. chunks' = Append(chunks, [from |-> first, to |-> next - 1])
      BY <1>4, <2>1 DEF EndCut
    <3>2. chunks' \in Seq([from : Nat \ {0}, to : Nat \ {0}]) /\ 1..Len(chunks) \subseteq 1..Len(chunks')
      BY <2>1, <3>1, CloseChunk
    <3> QED
      BY <1>4, <2>1, <3>2 DEF EndCut
  <2>2. CASE ~(first < next)
    BY <1>4, <2>2 DEF EndCut
  <2> QED
    BY <2>1, <2>2
<1>5. CASE Overlap
  <2>1. chunk \in 1..Len(chunks)
    BY <1>5 DEF Overlap
  <2>2. ContextStart(chunk) \in Nat
    BY <2>1, ContextStartType
  <2> QED
    BY <1>5, <2>2 DEF Overlap
<1>6. CASE TrimContext
  BY <1>6 DEF TrimContext
<1>7. CASE EndTrim
  BY <1>7 DEF EndTrim
<1>8. ASSUME NEW items \in Seq(Items), pc = "call", Answer(items)
     PROVE  TypeOK'
  <2> DEFINE Validated == [key : Keys, block : 0..MaxBlocks, quote : Quotes, verified : BOOLEAN]
             new == [i \in 1..Len(items) |-> Validate(items[i])]
  <2>1. \A i \in 1..Len(items) : items[i] \in Items
    BY <1>8
  <2>2. \A item \in Items : Validate(item) \in Validated
    <3> SUFFICES ASSUME NEW item \in Items
                 PROVE  Validate(item) \in Validated
      OBVIOUS
    <3>1. Verified(item) \in BOOLEAN
      BY DEF Verified
    <3> HIDE DEF Verified
    <3> QED
      BY <3>1 DEF Validate, Items
  <2>3. new \in Seq(Validated) /\ validated \in Seq(Validated)
    BY <2>1, <2>2, <1>8
  <2> HIDE DEF new, Validated
  <2>4. validated \o new \in Seq(Validated) /\ Len(validated) <= Len(validated \o new)
    BY <2>3
  <2>5. validated' = validated \o new
    BY <1>8 DEF Answer, new
  <2>6. validated' \in Seq(Validated) /\ position' \in 1..Len(validated') + 1
    <3>1. Len(validated) \in Nat /\ Len(validated \o new) \in Nat
      BY <2>3, <2>4, SeqFacts
    <3>2. position' = position /\ position \in 1..Len(validated) + 1
      BY <1>8 DEF Answer
    <3> QED
      BY <3>1, <3>2, <2>4, <2>5
  <2>7. answered' \subseteq 1..Len(chunks')
    BY <1>8 DEF Answer, NextChunk, ChunksAreCounted
  <2> QED
    BY <1>8, <2>6, <2>7 DEF Answer, NextChunk, Validated
<1>9. CASE AttemptFails
  <2>1. CASE attempt = MaxAttempts
    BY <1>9, <2>1 DEF AttemptFails, NextChunk
  <2>2. CASE attempt # MaxAttempts
    BY <1>9, <2>2 DEF AttemptFails, NextChunk
  <2> QED
    BY <2>1, <2>2
<1>10. CASE Merge
  <2>1. validated[position] \in [key : Keys, block : 0..MaxBlocks, quote : Quotes, verified : BOOLEAN]
    <3> DEFINE Validated == [key : Keys, block : 0..MaxBlocks, quote : Quotes, verified : BOOLEAN]
    <3>1. validated \in Seq(Validated) /\ position \in 1..Len(validated) + 1 /\ position <= Len(validated)
      BY <1>10 DEF Merge
    <3> HIDE DEF Validated
    <3>2. validated[position] \in Validated
      BY <3>1, SeqFacts
    <3> QED
      BY <3>2 DEF Validated
  <2>2. Evidence(validated[position]) \in [block : 0..MaxBlocks, quote : Quotes, verified : BOOLEAN]
    BY <2>1 DEF Evidence
  <2>3. merged' \in [Keys -> SUBSET [block : 0..MaxBlocks, quote : Quotes, verified : BOOLEAN]]
    BY <1>10, <2>1, <2>2 DEF Merge, MergeOne
  <2>4. position' \in 1..Len(validated') + 1
    BY <1>10 DEF Merge
  <2> QED
    BY <1>10, <2>3, <2>4 DEF Merge
<1>11. CASE Store
  BY <1>11 DEF Store
<1>12. CASE UNCHANGED vars
  BY <1>12 DEF vars
<1> QED
  BY <1>1, <1>2, <1>3, <1>4, <1>5, <1>6, <1>7, <1>8, <1>9, <1>10, <1>11,
     <1>12, NextSteps

\* A chunk is closed where the next begins.
LEMMA CutStep ==
    ASSUME TypeOK, CutInv, [Next]_vars
    PROVE  CutInv'
<1> USE DEF CutInv
<1>1. CASE CreateProvider
  BY <1>1 DEF CreateProvider
<1>2. CASE TakeBlock
  <2>1. CASE Full
    <3>1. chunks' = Append(chunks, [from |-> first, to |-> next - 1]) /\ first < next /\ next \in Nat \ {0}
      BY <1>2, <2>1 DEF TakeBlock, Full, TypeOK
    <3>2. Len(chunks') = Len(chunks) + 1 /\ chunks'[Len(chunks')].to = next - 1 /\ chunks' # <<>>
      BY <3>1, CloseChunk
    <3> QED
      BY <1>2, <2>1, <3>1, <3>2 DEF TakeBlock
  <2>2. CASE ~Full
    BY <1>2, <2>2 DEF TakeBlock, TypeOK
  <2> QED
    BY <2>1, <2>2
<1>3. CASE RefuseBlock
  BY <1>3 DEF RefuseBlock
<1>4. CASE EndCut
  BY <1>4 DEF EndCut
<1>5. CASE Overlap
  BY <1>5 DEF Overlap
<1>6. CASE TrimContext
  BY <1>6 DEF TrimContext
<1>7. CASE EndTrim
  BY <1>7 DEF EndTrim
<1>8. ASSUME NEW items \in Seq(Items), pc = "call", Answer(items)
     PROVE  CutInv'
  BY <1>8 DEF Answer, NextChunk
<1>9. CASE AttemptFails
  BY <1>9 DEF AttemptFails, NextChunk
<1>10. CASE Merge
  BY <1>10 DEF Merge
<1>11. CASE Store
  BY <1>11 DEF Store
<1>12. CASE UNCHANGED vars
  BY <1>12 DEF vars
<1> QED
  BY <1>1, <1>2, <1>3, <1>4, <1>5, <1>6, <1>7, <1>8, <1>9, <1>10, <1>11,
     <1>12, NextSteps

\* The chunks stay adjacent.
LEMMA PartitionStep ==
    ASSUME TypeOK, CutInv, ChunksPartitionBlocks, [Next]_vars
    PROVE  ChunksPartitionBlocks'
<1> USE DEF ChunksPartitionBlocks
<1>1. CASE CreateProvider
  BY <1>1 DEF CreateProvider, CutInv
<1>2. CASE TakeBlock
  <2>1. CASE Full
    <3>1. chunks' = Append(chunks, [from |-> first, to |-> next - 1]) /\ first < next /\ next \in Nat
      BY <1>2, <2>1 DEF TakeBlock, Full, TypeOK
    <3>2. /\ Len(chunks') = Len(chunks) + 1 /\ Len(chunks) \in Nat /\ DOMAIN chunks' = 1..Len(chunks) + 1
          /\ \A c \in 1..Len(chunks) : chunks'[c] = chunks[c]
          /\ chunks'[Len(chunks) + 1].from = first /\ chunks'[Len(chunks) + 1].to = next - 1
      BY <3>1, CloseChunk
    <3>3. first = IF Len(chunks) = 0 THEN 1 ELSE chunks[Len(chunks)].to + 1
      BY <1>2, <3>2 DEF TakeBlock, CutInv, TypeOK
    <3>4. \A c \in DOMAIN chunks' :
              /\ chunks'[c].from <= chunks'[c].to
              /\ chunks'[c].from = IF c = 1 THEN 1 ELSE chunks'[c - 1].to + 1
      <4> SUFFICES ASSUME NEW c \in DOMAIN chunks'
                   PROVE  /\ chunks'[c].from <= chunks'[c].to
                          /\ chunks'[c].from = IF c = 1 THEN 1 ELSE chunks'[c - 1].to + 1
        OBVIOUS
      <4>1. CASE c = Len(chunks) + 1
        <5>1. first \in Nat /\ first <= next - 1 /\ c \in Nat
          BY <3>1, <3>2, <4>1 DEF TypeOK
        <5>2. c # 1 => Len(chunks) # 0 /\ chunks'[c - 1] = chunks[Len(chunks)]
          BY <3>2, <4>1
        <5> QED
          BY <3>2, <3>3, <4>1, <5>1, <5>2
      <4>2. CASE c \in 1..Len(chunks)
        <5>1. chunks'[c] = chunks[c] /\ (c # 1 => chunks'[c - 1] = chunks[c - 1])
          BY <3>2, <4>2
        <5> QED
          BY <4>2, <5>1, ChunkType
      <4> QED
        BY <3>2, <4>1, <4>2
    <3> QED
      BY <1>2, <2>1, <3>1, <3>2, <3>4 DEF TakeBlock
  <2>2. CASE ~Full
    BY <1>2, <2>2 DEF TakeBlock
  <2> QED
    BY <2>1, <2>2
<1>3. CASE RefuseBlock
  BY <1>3 DEF RefuseBlock
<1>4. CASE EndCut
  <2>0. next = Len(blocks) + 1 /\ Len(blocks) \in Nat /\ (blocks = <<>> <=> Len(blocks) = 0)
    <3>1. blocks \in Seq(Blocks) /\ next \in Nat /\ next <= Len(blocks) + 1 /\ next > Len(blocks)
      BY <1>4 DEF EndCut, TypeOK
    <3> QED
      BY <3>1, SeqFacts
  <2>1. CASE first < next
    <3>1. chunks' = Append(chunks, [from |-> first, to |-> next - 1]) /\ next \in Nat
      BY <1>4, <2>1 DEF EndCut, TypeOK
    <3>2. /\ Len(chunks') = Len(chunks) + 1 /\ Len(chunks) \in Nat /\ DOMAIN chunks' = 1..Len(chunks) + 1
          /\ \A c \in 1..Len(chunks) : chunks'[c] = chunks[c]
          /\ chunks'[Len(chunks) + 1].from = first /\ chunks'[Len(chunks) + 1].to = next - 1
      BY <2>1, <3>1, CloseChunk
    <3>3. first = IF Len(chunks) = 0 THEN 1 ELSE chunks[Len(chunks)].to + 1
      BY <1>4, <3>2 DEF EndCut, CutInv, TypeOK
    <3>4. \A c \in DOMAIN chunks' :
              /\ chunks'[c].from <= chunks'[c].to
              /\ chunks'[c].from = IF c = 1 THEN 1 ELSE chunks'[c - 1].to + 1
      <4> SUFFICES ASSUME NEW c \in DOMAIN chunks'
                   PROVE  /\ chunks'[c].from <= chunks'[c].to
                          /\ chunks'[c].from = IF c = 1 THEN 1 ELSE chunks'[c - 1].to + 1
        OBVIOUS
      <4>1. CASE c = Len(chunks) + 1
        <5>1. first \in Nat /\ first <= next - 1 /\ c \in Nat
          BY <2>1, <3>1, <3>2, <4>1 DEF TypeOK
        <5>2. c # 1 => Len(chunks) # 0 /\ chunks'[c - 1] = chunks[Len(chunks)]
          BY <3>2, <4>1
        <5> QED
          BY <3>2, <3>3, <4>1, <5>1, <5>2
      <4>2. CASE c \in 1..Len(chunks)
        <5>1. chunks'[c] = chunks[c] /\ (c # 1 => chunks'[c - 1] = chunks[c - 1])
          BY <3>2, <4>2
        <5> QED
          BY <4>2, <5>1, ChunkType
      <4> QED
        BY <3>2, <4>1, <4>2
    <3>5. blocks # <<>>
      BY <2>0, <2>1 DEF TypeOK
    <3> QED
      BY <1>4, <2>0, <3>2, <3>4, <3>5 DEF EndCut
  <2>2. CASE ~(first < next)
    <3>1. next = 1 /\ first = 1
      BY <1>4, <2>2 DEF EndCut, CutInv, TypeOK
    <3>2. chunks = <<>>
      <4> SUFFICES ASSUME chunks # <<>>
                   PROVE  FALSE
        OBVIOUS
      <4>1. Len(chunks) \in 1..Len(chunks)
        BY DEF TypeOK
      <4> QED
        BY <1>4, <3>1, <4>1, ChunkType DEF CutInv, EndCut
    <3> QED
      BY <1>4, <2>0, <2>2, <3>1, <3>2 DEF EndCut
  <2> QED
    BY <2>1, <2>2
<1>5. CASE Overlap
  BY <1>5 DEF Overlap
<1>6. CASE TrimContext
  BY <1>6 DEF TrimContext
<1>7. CASE EndTrim
  BY <1>7 DEF EndTrim
<1>8. ASSUME NEW items \in Seq(Items), pc = "call", Answer(items)
     PROVE  ChunksPartitionBlocks'
  BY <1>8 DEF Answer, NextChunk
<1>9. CASE AttemptFails
  BY <1>9 DEF AttemptFails, NextChunk
<1>10. CASE Merge
  BY <1>10 DEF Merge
<1>11. CASE Store
  BY <1>11 DEF Store
<1>12. CASE UNCHANGED vars
  BY <1>12 DEF vars
<1> QED
  BY <1>1, <1>2, <1>3, <1>4, <1>5, <1>6, <1>7, <1>8, <1>9, <1>10, <1>11,
     <1>12, NextSteps

\* A chunk is closed when it is full, and not before.
LEMMA SizedStep ==
    ASSUME TypeOK, CutInv, ChunksPartitionBlocks, ChunksAreSized, [Next]_vars
    PROVE  ChunksAreSized'
<1> USE DEF ChunksAreSized
<1>1. CASE CreateProvider
  BY <1>1 DEF CreateProvider, CutInv, TypeOK
<1>2. CASE TakeBlock
  <2>0. /\ blocks' = blocks /\ next \in 1..Len(blocks) /\ first \in 1..next
        /\ Len(blocks) \in Nat /\ next' = next + 1 /\ pc' = "cut" /\ pc = "cut"
    BY <1>2 DEF TakeBlock, TypeOK
  <2>1. Bounded(next, next)
    <3>1. Size(blocks, next) <= HardMaxChars
      BY <1>2 DEF TakeBlock
    <3> QED
      BY <2>0, <3>1, LengthType DEF Bounded
  <2>2. \A i, j : Bounded(i, j)' = Bounded(i, j) /\ Length(i, j)' = Length(i, j)
    BY <2>0 DEF Bounded, Length
  <2>3. CASE Full
    <3>1. /\ chunks' = Append(chunks, [from |-> first, to |-> next - 1])
          /\ first < next /\ Length(first, next) > TargetChars /\ first' = next
      BY <1>2, <2>3 DEF TakeBlock, Full
    <3>2. /\ Len(chunks') = Len(chunks) + 1 /\ Len(chunks) \in Nat
          /\ \A c \in 1..Len(chunks) : chunks'[c] = chunks[c]
          /\ chunks'[Len(chunks) + 1].from = first /\ chunks'[Len(chunks) + 1].to = next - 1
      BY <3>1, CloseChunk
    <3>3. Bounded(first, next - 1)
      BY <2>0, <3>1
    <3>4. \A c \in 1..Len(chunks') :
              /\ chunks'[c].from \in 1..chunks'[c].to /\ chunks'[c].to \in 1..Len(blocks)
              /\ Bounded(chunks'[c].from, chunks'[c].to)
              /\ chunks'[c].to < Len(blocks) =>
                     Length(chunks'[c].from, chunks'[c].to + 1) > TargetChars
      <4> SUFFICES ASSUME NEW c \in 1..Len(chunks')
                   PROVE  /\ chunks'[c].from \in 1..chunks'[c].to /\ chunks'[c].to \in 1..Len(blocks)
                          /\ Bounded(chunks'[c].from, chunks'[c].to)
                          /\ chunks'[c].to < Len(blocks) =>
                                 Length(chunks'[c].from, chunks'[c].to + 1) > TargetChars
        OBVIOUS
      <4>1. CASE c = Len(chunks) + 1
        <5>1. chunks'[c].from = first /\ chunks'[c].to = next - 1 /\ (next - 1) + 1 = next
          BY <2>0, <3>2, <4>1
        <5> QED
          BY <2>0, <3>1, <3>3, <5>1
      <4>2. CASE c \in 1..Len(chunks)
        BY <3>2, <4>2
      <4> QED
        BY <3>2, <4>1, <4>2
    <3>5. first' = next /\ next' - 1 = next
      BY <2>0, <3>1
    <3> QED
      BY <2>0, <2>1, <2>2, <3>4, <3>5
  <2>4. CASE ~Full
    <3>1. chunks' = chunks /\ first' = first
      BY <1>2, <2>4 DEF TakeBlock
    <3>2. first < next => Length(first, next) <= TargetChars
      <4>1. first \in 1..Len(blocks)
        BY <2>0
      <4>2. Length(first, next) \in Int
        BY <2>0, <4>1, LengthType
      <4> QED
        BY <2>4, <4>2, ExtractionAssumption DEF Full
    <3>3. Bounded(first, next)
      <4>1. CASE first = next
        BY <2>1, <4>1
      <4>2. CASE first < next
        BY <3>2, <4>2 DEF Bounded
      <4> QED
        BY <2>0, <4>1, <4>2
    <3>4. first' = first /\ next' - 1 = next
      BY <2>0, <3>1
    <3> QED
      BY <2>0, <2>2, <3>1, <3>3, <3>4
  <2> QED
    BY <2>3, <2>4
<1>3. CASE RefuseBlock
  BY <1>3 DEF RefuseBlock, Bounded, Length
<1>4. CASE EndCut
  <2>0. blocks' = blocks /\ next = Len(blocks) + 1 /\ Len(blocks) \in Nat /\ first \in 1..next
    BY <1>4, SeqFacts DEF EndCut, TypeOK
  <2>1. \A i, j : Bounded(i, j)' = Bounded(i, j) /\ Length(i, j)' = Length(i, j)
    BY <2>0 DEF Bounded, Length
  <2>2. CASE first < next
    <3>1. chunks' = Append(chunks, [from |-> first, to |-> next - 1]) /\ pc' = "overlap"
      BY <1>4, <2>2 DEF EndCut
    <3>2. /\ Len(chunks') = Len(chunks) + 1 /\ Len(chunks) \in Nat
          /\ \A c \in 1..Len(chunks) : chunks'[c] = chunks[c]
          /\ chunks'[Len(chunks) + 1].from = first /\ chunks'[Len(chunks) + 1].to = next - 1
      BY <2>2, <3>1, CloseChunk
    <3>3. Bounded(first, next - 1)
      BY <1>4, <2>2 DEF EndCut
    <3> QED
      BY <2>0, <2>1, <2>2, <3>1, <3>2, <3>3
  <2>3. CASE ~(first < next)
    BY <1>4, <2>1, <2>3, <2>0 DEF EndCut
  <2> QED
    BY <2>2, <2>3
<1>5. CASE Overlap
  BY <1>5 DEF Overlap, Bounded, Length
<1>6. CASE TrimContext
  BY <1>6 DEF TrimContext, Bounded, Length
<1>7. CASE EndTrim
  BY <1>7 DEF EndTrim, Bounded, Length
<1>8. ASSUME NEW items \in Seq(Items), pc = "call", Answer(items)
     PROVE  ChunksAreSized'
  BY <1>8 DEF Answer, Bounded, Length, NextChunk
<1>9. CASE AttemptFails
  BY <1>9 DEF AttemptFails, Bounded, Length, NextChunk
<1>10. CASE Merge
  BY <1>10 DEF Merge, Bounded, Length
<1>11. CASE Store
  BY <1>11 DEF Store, Bounded, Length
<1>12. CASE UNCHANGED vars
  BY <1>12 DEF vars, Bounded, Length
<1> QED
  BY <1>1, <1>2, <1>3, <1>4, <1>5, <1>6, <1>7, <1>8, <1>9, <1>10, <1>11,
     <1>12, NextSteps

\* No block is left out of the chunks, and none is in two.
LEMMA OrderedStep ==
    ASSUME TypeOK, CutInv, ChunksPartitionBlocks, ChunksAreOrdered, [Next]_vars
    PROVE  ChunksAreOrdered'
<1> USE DEF ChunksAreOrdered
<1>1. CASE CreateProvider
  BY <1>1 DEF CreateProvider
<1>2. CASE TakeBlock
  <2>0. /\ next \in Nat /\ first \in 1..next /\ next' = next + 1 /\ pc' = "cut" /\ pc = "cut"
    BY <1>2 DEF TakeBlock, TypeOK
  <2>1. CASE Full
    <3>1. /\ chunks' = Append(chunks, [from |-> first, to |-> next - 1])
          /\ first < next /\ first' = next
      BY <1>2, <2>1 DEF TakeBlock, Full
    <3>2. /\ Len(chunks') = Len(chunks) + 1 /\ Len(chunks) \in Nat
          /\ \A c \in 1..Len(chunks) : chunks'[c] = chunks[c]
          /\ chunks'[Len(chunks) + 1].from = first /\ chunks'[Len(chunks) + 1].to = next - 1
      BY <3>1, CloseChunk
    <3>3. \A b \in 1..next - 1 : \E c \in 1..Len(chunks') : b \in chunks'[c].from..chunks'[c].to
      <4> SUFFICES ASSUME NEW b \in 1..next - 1
                   PROVE  \E c \in 1..Len(chunks') : b \in chunks'[c].from..chunks'[c].to
        OBVIOUS
      <4>1. CASE b < first
        <5>1. PICK c \in 1..Len(chunks) : b \in chunks[c].from..chunks[c].to
          BY <2>0, <4>1
        <5> QED
          BY <3>2, <5>1
      <4>2. CASE b >= first
        BY <2>0, <3>2, <4>2
      <4> QED
        BY <2>0, <4>1, <4>2
    <3>4. \A c \in 1..Len(chunks) : chunks[c].to < first /\ chunks[c].to \in Nat
      BY <2>0, ChunkType
    <3>5. \A c, d \in 1..Len(chunks') : c < d => chunks'[c].to < chunks'[d].from
      <4> SUFFICES ASSUME NEW c \in 1..Len(chunks'), NEW d \in 1..Len(chunks'), c < d
                   PROVE  chunks'[c].to < chunks'[d].from
        OBVIOUS
      <4>1. c \in 1..Len(chunks)
        BY <3>2
      <4>2. CASE d = Len(chunks) + 1
        BY <3>2, <3>4, <4>1, <4>2
      <4>3. CASE d \in 1..Len(chunks)
        BY <3>2, <4>1, <4>3
      <4> QED
        BY <3>2, <4>2, <4>3
    <3>6. \A c \in 1..Len(chunks') : chunks'[c].to < next
      BY <2>0, <3>1, <3>2, <3>4
    <3> QED
      BY <2>0, <3>1, <3>3, <3>5, <3>6
  <2>2. CASE ~Full
    BY <1>2, <2>2 DEF TakeBlock
  <2> QED
    BY <2>1, <2>2
<1>3. CASE RefuseBlock
  BY <1>3 DEF RefuseBlock
<1>4. CASE EndCut
  <2>0. /\ next = Len(blocks) + 1 /\ Len(blocks) \in Nat /\ first \in 1..next /\ pc = "cut"
        /\ pc' = "overlap" /\ blocks' = blocks
    <3>1. blocks \in Seq(Blocks) /\ next \in Nat /\ next <= Len(blocks) + 1
          /\ next > Len(blocks) /\ first \in Nat \ {0} /\ first <= next
      BY <1>4 DEF EndCut, TypeOK
    <3>2. Len(blocks) \in Nat
      BY <3>1, SeqFacts
    <3>3. pc = "cut" /\ pc' = "overlap" /\ blocks' = blocks
      BY <1>4 DEF EndCut
    <3> QED
      BY <3>1, <3>2, <3>3
  <2>1. CASE first < next
    <3>1. chunks' = Append(chunks, [from |-> first, to |-> next - 1])
      BY <1>4, <2>1 DEF EndCut
    <3>2. /\ Len(chunks') = Len(chunks) + 1 /\ Len(chunks) \in Nat
          /\ \A c \in 1..Len(chunks) : chunks'[c] = chunks[c]
          /\ chunks'[Len(chunks) + 1].from = first /\ chunks'[Len(chunks) + 1].to = next - 1
      BY <2>1, <3>1, CloseChunk
    <3>3. \A b \in 1..Len(blocks) : \E c \in 1..Len(chunks') : b \in chunks'[c].from..chunks'[c].to
      <4> SUFFICES ASSUME NEW b \in 1..Len(blocks)
                   PROVE  \E c \in 1..Len(chunks') : b \in chunks'[c].from..chunks'[c].to
        OBVIOUS
      <4>1. CASE b < first
        <5>1. PICK c \in 1..Len(chunks) : b \in chunks[c].from..chunks[c].to
          BY <2>0, <4>1
        <5> QED
          BY <3>2, <5>1
      <4>2. CASE b >= first
        BY <2>0, <3>2, <4>2
      <4> QED
        BY <2>0, <4>1, <4>2
    <3>4. \A c \in 1..Len(chunks) : chunks[c].to < first /\ chunks[c].to \in Nat
      BY <2>0, ChunkType
    <3>5. \A c, d \in 1..Len(chunks') : c < d => chunks'[c].to < chunks'[d].from
      <4> SUFFICES ASSUME NEW c \in 1..Len(chunks'), NEW d \in 1..Len(chunks'), c < d
                   PROVE  chunks'[c].to < chunks'[d].from
        OBVIOUS
      <4>1. c \in 1..Len(chunks)
        BY <3>2
      <4>2. CASE d = Len(chunks) + 1
        BY <3>2, <3>4, <4>1, <4>2
      <4>3. CASE d \in 1..Len(chunks)
        BY <3>2, <4>1, <4>3
      <4> QED
        BY <3>2, <4>2, <4>3
    <3> QED
      BY <2>0, <3>3, <3>5
  <2>2. CASE ~(first < next)
    <3>1. Len(blocks) = 0
      BY <2>0, <2>2 DEF CutInv
    <3> QED
      BY <1>4, <2>0, <2>2, <3>1 DEF EndCut
  <2> QED
    BY <2>1, <2>2
<1>5. CASE Overlap
  BY <1>5 DEF Overlap
<1>6. CASE TrimContext
  BY <1>6 DEF TrimContext
<1>7. CASE EndTrim
  BY <1>7 DEF EndTrim
<1>8. ASSUME NEW items \in Seq(Items), pc = "call", Answer(items)
     PROVE  ChunksAreOrdered'
  BY <1>8 DEF Answer, NextChunk
<1>9. CASE AttemptFails
  BY <1>9 DEF AttemptFails, NextChunk
<1>10. CASE Merge
  BY <1>10 DEF Merge
<1>11. CASE Store
  BY <1>11 DEF Store
<1>12. CASE UNCHANGED vars
  BY <1>12 DEF vars
<1> QED
  BY <1>1, <1>2, <1>3, <1>4, <1>5, <1>6, <1>7, <1>8, <1>9, <1>10, <1>11,
     <1>12, NextSteps

\* The chunks without an answer are those counted, when one more is tried.
LEMMA CountOneMore ==
    ASSUME NEW n \in Nat \ {0}, NEW S \in SUBSET (1..n - 1)
    PROVE  /\ Cardinality((1..n - 1) \ S) \in Nat
           /\ (1..n) \ (S \cup {n}) = (1..n - 1) \ S
           /\ Cardinality((1..n) \ S) = Cardinality((1..n - 1) \ S) + 1
<1>0. IsFiniteSet(1..n - 1) /\ (1..n - 1) \ S \in SUBSET (1..n - 1)
  BY FS_Interval
<1>1. IsFiniteSet((1..n - 1) \ S)
  BY <1>0, FS_Subset
<1>2. n \notin (1..n - 1) \ S /\ (1..n) \ S = ((1..n - 1) \ S) \cup {n}
  OBVIOUS
<1>3. Cardinality((1..n) \ S) = Cardinality((1..n - 1) \ S) + 1
  BY <1>1, <1>2, FS_AddElement
<1>4. (1..n) \ (S \cup {n}) = (1..n - 1) \ S
  OBVIOUS
<1> QED
  BY <1>1, <1>3, <1>4, FS_CardinalityType

\* Each chunk is answered, or it fails and is counted.
LEMMA CountedStep ==
    ASSUME TypeOK, ChunksAreCounted, [Next]_vars
    PROVE  ChunksAreCounted'
<1> USE DEF ChunksAreCounted
<1>1. CASE CreateProvider
  BY <1>1 DEF CreateProvider
<1>2. CASE TakeBlock
  BY <1>2 DEF TakeBlock
<1>3. CASE RefuseBlock
  BY <1>3 DEF RefuseBlock
<1>4. CASE EndCut
  <2>1. chunk' = 1 /\ answered' = answered /\ failed' = failed /\ pc' = "overlap" /\ chunk = 1
    BY <1>4 DEF EndCut
  <2>2. chunks' \in Seq([from : Nat \ {0}, to : Nat \ {0}])
    BY <1>4, CloseChunk DEF EndCut, TypeOK
  <2>3. Len(chunks') \in Nat
    BY <2>2, SeqFacts
  <2> QED
    BY <2>1, <2>3
<1>5. CASE Overlap
  BY <1>5 DEF Overlap, TypeOK
<1>6. CASE TrimContext
  BY <1>6 DEF TrimContext
<1>7. CASE EndTrim
  BY <1>7 DEF EndTrim
<1>8. ASSUME NEW items \in Seq(Items), pc = "call", Answer(items)
     PROVE  ChunksAreCounted'
  <2>1. chunk \in Nat \ {0} /\ chunk <= Len(chunks) /\ Len(chunks) \in Nat
    BY <1>8 DEF TypeOK
  <2>2. (1..chunk) \ (answered \cup {chunk}) = (1..chunk - 1) \ answered
    BY <2>1, CountOneMore
  <2>3. chunk' = chunk + 1 /\ chunk' - 1 = chunk /\ answered' = answered \cup {chunk} /\ failed' = failed
    BY <1>8, <2>1 DEF Answer, NextChunk
  <2>4. failed' = Cardinality((1..chunk' - 1) \ answered')
    BY <2>2, <2>3
  <2>5. answered' \subseteq 1..chunk' - 1
    BY <2>1, <2>3
  <2>6. pc' = "overlap" /\ chunks' = chunks
    BY <1>8 DEF Answer, NextChunk
  <2> QED
    BY <2>1, <2>3, <2>4, <2>5, <2>6
<1>9. CASE AttemptFails
  <2>1. chunk \in Nat \ {0} /\ chunk <= Len(chunks) /\ Len(chunks) \in Nat
    BY <1>9 DEF TypeOK, AttemptFails
  <2>2. CASE attempt = MaxAttempts
    <3>1. chunk' = chunk + 1 /\ chunk' - 1 = chunk /\ answered' = answered /\ failed' = failed + 1
      BY <1>9, <2>1, <2>2 DEF AttemptFails, NextChunk
    <3>2. failed' = Cardinality((1..chunk' - 1) \ answered')
      BY <2>1, <3>1, CountOneMore
    <3>3. answered' \subseteq 1..chunk' - 1
      BY <2>1, <3>1
    <3>4. pc' = "overlap" /\ chunks' = chunks
      BY <1>9, <2>2 DEF AttemptFails, NextChunk
    <3> QED
      BY <2>1, <3>1, <3>2, <3>3, <3>4
  <2>3. CASE attempt # MaxAttempts
    BY <1>9, <2>3 DEF AttemptFails
  <2> QED
    BY <2>2, <2>3
<1>10. CASE Merge
  BY <1>10 DEF Merge
<1>11. CASE Store
  <2>1. chunk \in Nat /\ Len(chunks) \in Nat
    BY SeqFacts DEF TypeOK
  <2>2. chunk = Len(chunks) + 1
    BY <1>11, <2>1 DEF Store
  <2> QED
    BY <1>11, <2>2 DEF Store
<1>12. CASE UNCHANGED vars
  BY <1>12 DEF vars
<1> QED
  BY <1>1, <1>2, <1>3, <1>4, <1>5, <1>6, <1>7, <1>8, <1>9, <1>10, <1>11,
     <1>12, NextSteps

\* Context is cut from the front, and only while it does not fit.
LEMMA TrimStep ==
    ASSUME TypeOK, ChunksPartitionBlocks, ChunksAreSized, ChunksAreCounted, ContextIsTrimmed, [Next]_vars
    PROVE  ContextIsTrimmed'
<1> USE DEF ContextIsTrimmed
<1>1. CASE CreateProvider
  BY <1>1 DEF CreateProvider
<1>2. CASE TakeBlock
  BY <1>2 DEF TakeBlock
<1>3. CASE RefuseBlock
  BY <1>3 DEF RefuseBlock
<1>4. CASE EndCut
  BY <1>4 DEF EndCut
<1>5. CASE Overlap
  <2>1. chunk \in 1..Len(chunks)
    BY <1>5 DEF Overlap, TypeOK
  <2>2. ContextStart(chunk) \in Nat \ {0} /\ ContextStart(chunk) <= chunks[chunk].from
    BY <2>1, ContextStartType
  <2>3. chunks[chunk].from \in Nat
    BY <2>1, ChunkType
  <2>4. chunks' = chunks /\ chunk' = chunk /\ start' = ContextStart(chunk) /\ pc' = "trim"
    BY <1>5 DEF Overlap
  <2>5. ContextStart(chunk)' = ContextStart(chunk)
    BY <2>4 DEF ContextStart
  <2> QED
    BY <2>2, <2>3, <2>4, <2>5
<1>6. CASE TrimContext
  <2>1. chunk \in 1..Len(chunks)
    BY <1>6 DEF TrimContext, TypeOK, ChunksAreCounted
  <2>2. /\ chunks' = chunks /\ chunk' = chunk /\ blocks' = blocks /\ start' = start + 1 /\ pc' = "trim"
        /\ start < chunks[chunk].from /\ start \in ContextStart(chunk)..chunks[chunk].from
        /\ \A i \in ContextStart(chunk)..start - 1 : Length(i, chunks[chunk].to) > HardMaxChars
        /\ Length(start, chunks[chunk].to) > HardMaxChars
    BY <1>6 DEF TrimContext, Overlong
  <2>3. ContextStart(chunk)' = ContextStart(chunk) /\ \A i, j : Length(i, j)' = Length(i, j)
    BY <2>2 DEF ContextStart, Length
  <2>4. ContextStart(chunk) \in Nat /\ chunks[chunk].from \in Nat /\ start \in Nat
    BY <2>1, <2>2, ContextStartType, ChunkType
  <2>5. \A i \in ContextStart(chunk)..(start + 1) - 1 : Length(i, chunks[chunk].to) > HardMaxChars
    BY <2>2, <2>4
  <2> QED
    BY <2>2, <2>3, <2>4, <2>5
<1>7. CASE EndTrim
  <2>1. chunk \in 1..Len(chunks)
    BY <1>7 DEF EndTrim, TypeOK, ChunksAreCounted
  <2>2. /\ chunks' = chunks /\ chunk' = chunk /\ blocks' = blocks /\ start' = start /\ pc' = "call"
        /\ start = chunks[chunk].from \/ ~(Length(start, chunks[chunk].to) > HardMaxChars)
        /\ start \in ContextStart(chunk)..chunks[chunk].from
        /\ \A i \in ContextStart(chunk)..start - 1 : Length(i, chunks[chunk].to) > HardMaxChars
    BY <1>7 DEF EndTrim, Overlong
  <2>3. ContextStart(chunk)' = ContextStart(chunk) /\ \A i, j : Length(i, j)' = Length(i, j)
    BY <2>2 DEF ContextStart, Length
  <2>4. /\ ContextStart(chunk) \in Nat \ {0}
        /\ chunks[chunk].from \in 1..chunks[chunk].to /\ chunks[chunk].to \in 1..Len(blocks)
        /\ Bounded(chunks[chunk].from, chunks[chunk].to)
    BY <2>1, ContextStartType DEF ChunksAreSized
  <2>5. start \in 1..Len(blocks) /\ chunks[chunk].from \in 1..Len(blocks)
    BY <2>2, <2>4
  <2>6. /\ Length(start, chunks[chunk].to) \in Int
        /\ Length(chunks[chunk].from, chunks[chunk].to) \in Int
    BY <2>4, <2>5, LengthType
  <2>7. Length(chunks[chunk].from, chunks[chunk].to) <= HardMaxChars
    BY <2>4, <2>6, ExtractionAssumption DEF Bounded
  <2>8. Length(start, chunks[chunk].to) <= HardMaxChars
    BY <2>2, <2>6, <2>7, ExtractionAssumption
  <2> QED
    BY <2>2, <2>3, <2>8
<1>8. ASSUME NEW items \in Seq(Items), pc = "call", Answer(items)
     PROVE  ContextIsTrimmed'
  BY <1>8 DEF Answer, NextChunk
<1>9. CASE AttemptFails
  BY <1>9 DEF AttemptFails, NextChunk, ContextStart, Length
<1>10. CASE Merge
  BY <1>10 DEF Merge
<1>11. CASE Store
  BY <1>11 DEF Store
<1>12. CASE UNCHANGED vars
  BY <1>12 DEF vars, ContextStart, Length
<1> QED
  BY <1>1, <1>2, <1>3, <1>4, <1>5, <1>6, <1>7, <1>8, <1>9, <1>10, <1>11,
     <1>12, NextSteps

\* The validated requirements, one by one.
LEMMA ValidatedType ==
    ASSUME TypeOK
    PROVE  /\ Len(validated) \in Nat
           /\ \A i \in 1..Len(validated) :
                  /\ validated[i] \in [key : Keys, block : 0..MaxBlocks, quote : Quotes,
                                        verified : BOOLEAN]
                  /\ validated[i].key \in Keys
<1> DEFINE Validated == [key : Keys, block : 0..MaxBlocks, quote : Quotes, verified : BOOLEAN]
<1>1. validated \in Seq(Validated)
  BY DEF TypeOK
<1>2. \A v \in Validated : v.key \in Keys
  OBVIOUS
<1> HIDE DEF Validated
<1>3. Len(validated) \in Nat /\ \A i \in 1..Len(validated) : validated[i] \in Validated
  BY <1>1, SeqFacts
<1> QED
  BY <1>2, <1>3 DEF Validated

\* What validate_requirement verifies is quoted.
LEMMA VerifiedIsInChunk ==
    ASSUME TypeOK, ChunksAreSized, ChunksAreCounted, ContextIsTrimmed, ChunksPartitionBlocks,
           pc = "call", NEW item, Verified(item)
    PROVE  item.block \in 1..Len(blocks) /\ item.quote \in blocks[item.block].quotes
<1>1. chunk \in 1..Len(chunks)
  BY DEF TypeOK, ChunksAreCounted
<1>2. chunks[chunk].to \in 1..Len(blocks) /\ ContextStart(chunk) \in Nat \ {0}
  BY <1>1, ContextStartType DEF ChunksAreSized
<1>3. start \in ContextStart(chunk)..chunks[chunk].from /\ chunks[chunk].from \in Nat
  BY <1>1, ChunkType DEF ContextIsTrimmed
<1>4. start..chunks[chunk].to \subseteq 1..Len(blocks)
  BY <1>2, <1>3
<1> QED
  BY <1>4 DEF Verified

\* What an answer adds to the validated requirements.
LEMMA AnswerAppends ==
    ASSUME TypeOK, NEW items \in Seq(Items), Answer(items)
    PROVE  /\ Len(validated') = Len(validated) + Len(items)
           /\ Len(validated) \in Nat /\ Len(items) \in Nat
           /\ \A i \in 1..Len(validated) : validated'[i] = validated[i]
           /\ \A i \in 1..Len(validated') : i > Len(validated) =>
                  \E item \in Items : validated'[i] = Validate(item)
<1> DEFINE Validated == [key : Keys, block : 0..MaxBlocks, quote : Quotes, verified : BOOLEAN]
           new == [i \in 1..Len(items) |-> Validate(items[i])]
           S == Validated \cup {Validate(item) : item \in Items}
<1>1. \A i \in 1..Len(items) : items[i] \in Items
  OBVIOUS
<1>2. new \in Seq(S) /\ Len(new) = Len(items) /\ Len(items) \in Nat
  BY <1>1
<1>3. validated \in Seq(Validated)
  BY DEF TypeOK
<1>4. \A i \in 1..Len(items) : \E item \in Items : new[i] = Validate(item)
  BY <1>1
<1>5. validated' = validated \o new
  BY DEF Answer
<1> HIDE DEF Validated, new
<1>6. validated \in Seq(S)
  BY <1>3
<1> HIDE DEF S
<1>7. /\ Len(validated \o new) = Len(validated) + Len(new) /\ Len(validated) \in Nat
      /\ \A i \in 1..Len(validated) : (validated \o new)[i] = validated[i]
      /\ \A i \in 1..Len(validated) + Len(new) :
             i > Len(validated) => (validated \o new)[i] = new[i - Len(validated)]
  BY <1>2, <1>6
<1>8. \A i \in 1..Len(validated) + Len(new) : i > Len(validated) => i - Len(validated) \in 1..Len(items)
  BY <1>2, <1>7
<1> QED
  BY <1>2, <1>4, <1>5, <1>7, <1>8

\* No step verifies what is not quoted.
LEMMA SoundStep ==
    ASSUME TypeOK, ChunksPartitionBlocks, ChunksAreSized, ChunksAreCounted, ContextIsTrimmed,
           AnswersAreSound, [Next]_vars
    PROVE  AnswersAreSound'
<1> USE DEF AnswersAreSound
<1>1. CASE CreateProvider
  BY <1>1 DEF CreateProvider
<1>2. CASE TakeBlock
  BY <1>2 DEF TakeBlock
<1>3. CASE RefuseBlock
  BY <1>3 DEF RefuseBlock
<1>4. CASE EndCut
  BY <1>4 DEF EndCut
<1>5. CASE Overlap
  BY <1>5 DEF Overlap
<1>6. CASE TrimContext
  BY <1>6 DEF TrimContext
<1>7. CASE EndTrim
  BY <1>7 DEF EndTrim
<1>8. ASSUME NEW items \in Seq(Items), pc = "call", Answer(items)
     PROVE  AnswersAreSound'
  <2>1. blocks' = blocks /\ answered' # {}
    BY <1>8 DEF Answer
  <2>2. ASSUME NEW item \in Items, Validate(item).verified
       PROVE  /\ Validate(item).block \in 1..Len(blocks)
              /\ Validate(item).quote \in blocks[Validate(item).block].quotes
    <3>1. /\ Validate(item).verified = Verified(item)
          /\ Validate(item).block = item.block /\ Validate(item).quote = item.quote
      BY DEF Validate
    <3> QED
      BY <1>8, <2>2, <3>1, VerifiedIsInChunk
  <2>3. \A i \in 1..Len(validated') :
            \/ i \in 1..Len(validated) /\ validated'[i] = validated[i]
            \/ \E item \in Items : validated'[i] = Validate(item)
    BY <1>8, AnswerAppends
  <2> QED
    BY <2>1, <2>2, <2>3
<1>9. CASE AttemptFails
  BY <1>9 DEF AttemptFails
<1>10. CASE Merge
  BY <1>10 DEF Merge
<1>11. CASE Store
  BY <1>11 DEF Store
<1>12. CASE UNCHANGED vars
  BY <1>12 DEF vars
<1> QED
  BY <1>1, <1>2, <1>3, <1>4, <1>5, <1>6, <1>7, <1>8, <1>9, <1>10, <1>11,
     <1>12, NextSteps

\* Merging loses no source, repeats none and makes none up.
LEMMA MergedStep ==
    ASSUME TypeOK, AnswersAreSound, MergedSoFar, [Next]_vars
    PROVE  MergedSoFar'
<1> USE DEF MergedSoFar
<1>1. CASE CreateProvider
  BY <1>1 DEF CreateProvider, SameEvidence, Known
<1>2. CASE TakeBlock
  BY <1>2 DEF TakeBlock, SameEvidence, Known
<1>3. CASE RefuseBlock
  BY <1>3 DEF RefuseBlock, SameEvidence, Known
<1>4. CASE EndCut
  BY <1>4 DEF EndCut, SameEvidence, Known
<1>5. CASE Overlap
  BY <1>5 DEF Overlap, SameEvidence, Known
<1>6. CASE TrimContext
  BY <1>6 DEF TrimContext, SameEvidence, Known
<1>7. CASE EndTrim
  BY <1>7 DEF EndTrim, SameEvidence, Known
<1>8. ASSUME NEW items \in Seq(Items), pc = "call", Answer(items)
     PROVE  MergedSoFar'
  <2>1. /\ \A i \in 1..position - 1 : validated'[i] = validated[i]
        /\ merged' = merged /\ position' = position /\ blocks' = blocks /\ pc' = "overlap"
    BY <1>8, AnswerAppends DEF Answer, NextChunk, TypeOK
  <2> QED
    BY <1>8, <2>1 DEF SameEvidence
<1>9. CASE AttemptFails
  BY <1>9 DEF AttemptFails, NextChunk, SameEvidence, Known
<1>10. CASE Merge
  <2> DEFINE item == validated[position]
  <2>1. /\ position \in 1..Len(validated) /\ Len(validated) \in Nat /\ item.key \in Keys
        /\ validated' = validated /\ blocks' = blocks /\ pc' = "overlap" /\ pc = "overlap"
        /\ position' = position + 1 /\ position' - 1 = position
    <3>1. position \in 1..Len(validated) + 1 /\ position <= Len(validated)
      BY <1>10 DEF Merge, TypeOK
    <3> QED
      BY <1>10, <3>1, ValidatedType DEF Merge
  <2>2. /\ Evidence(item).block = item.block /\ Evidence(item).quote = item.quote
        /\ Evidence(item).verified = item.verified
    BY DEF Evidence
  <2>3. item.verified => item.block \in 1..Len(blocks) /\ item.quote \in blocks[item.block].quotes
    BY <2>1 DEF AnswersAreSound
  <2> DEFINE repeated == \E e \in merged[item.key] : SameEvidence(e, item)
  <2>4. /\ \A k \in Keys : k # item.key => merged'[k] = merged[k]
        /\ merged'[item.key] = IF repeated THEN merged[item.key]
                               ELSE merged[item.key] \cup {Evidence(item)}
    <3>1. merged' = MergeOne(item) /\ DOMAIN merged = Keys
      BY <1>10 DEF Merge, TypeOK
    <3> HIDE DEF item
    <3> QED
      BY <2>1, <3>1 DEF MergeOne
  <2> HIDE DEF item
  <2>5. \A k \in Keys : \A e \in merged'[k] :
            e \in merged[k] \/ (k = item.key /\ e = Evidence(item) /\ ~repeated)
    BY <2>4
  <2>6. ASSUME NEW k \in Keys, NEW e \in merged'[k]
       PROVE  /\ \E i \in 1..position : validated[i].key = k /\ SameEvidence(e, validated[i])
              /\ e.verified => e.block \in 1..Len(blocks) /\ e.quote \in blocks[e.block].quotes
    <3>1. CASE e \in merged[k]
      BY <2>1, <3>1
    <3>2. CASE k = item.key /\ e = Evidence(item)
      BY <2>1, <2>2, <2>3, <3>2 DEF item, SameEvidence
    <3> QED
      BY <2>5, <2>6, <3>1, <3>2
  <2>7. ASSUME NEW k \in Keys, NEW e \in merged'[k], NEW f \in merged'[k], SameEvidence(e, f)
       PROVE  e = f
    <3>1. CASE e \in merged[k] /\ f \in merged[k]
      BY <2>7, <3>1
    <3>2. CASE e \in merged[k] /\ f = Evidence(item) /\ k = item.key
      <4>1. SameEvidence(e, item)
        BY <2>2, <2>7, <3>2 DEF SameEvidence
      <4> QED
        BY <2>4, <2>7, <3>2, <4>1
    <3>3. CASE f \in merged[k] /\ e = Evidence(item) /\ k = item.key
      <4>1. SameEvidence(f, item)
        BY <2>2, <2>7, <3>3 DEF SameEvidence
      <4> QED
        BY <2>4, <2>7, <3>3, <4>1
    <3> QED
      BY <2>5, <2>7, <3>1, <3>2, <3>3
  <2>8. ASSUME NEW i \in 1..position
       PROVE  \E e \in merged'[validated[i].key] : SameEvidence(e, validated[i])
    <3>1. CASE i \in 1..position - 1
      <4>1. PICK e \in merged[validated[i].key] : SameEvidence(e, validated[i])
        BY <2>1, <3>1
      <4>2. \A k : e \in merged[k] /\ (k \in Keys \/ k = item.key) => e \in merged'[k]
        BY <2>4
      <4>3. validated[i].key \in Keys
        BY <2>1, ValidatedType
      <4> QED
        BY <4>1, <4>2, <4>3
    <3>2. CASE i = position
      <4>1. CASE repeated
        BY <2>4, <3>2, <4>1 DEF item
      <4>2. CASE ~repeated
        <5>1. Evidence(item) \in merged'[item.key] /\ SameEvidence(Evidence(item), item)
          BY <2>2, <2>4, <4>2 DEF SameEvidence
        <5> QED
          BY <3>2, <5>1 DEF item
      <4> QED
        BY <4>1, <4>2
    <3> QED
      BY <2>1, <3>1, <3>2
  <2> HIDE DEF repeated
  <2> QED
    BY <2>1, <2>6, <2>7, <2>8
<1>11. CASE Store
  <2>1. /\ validated' = validated /\ blocks' = blocks /\ pc' = "done" /\ pc = "overlap"
        /\ position' = position /\ position = Len(validated) + 1
    <3>1. position \in 1..Len(validated) + 1 /\ position > Len(validated)
      BY <1>11 DEF Store, TypeOK
    <3>2. position = Len(validated) + 1
      BY <3>1, ValidatedType
    <3> QED
      BY <1>11, <3>2 DEF Store
  <2>2. \A k \in Keys : merged'[k] = {e \in merged[k] : Known(e)}
    BY <1>11 DEF Store
  <2>3. \A e : Known(e)' <=> Known(e)
    BY <2>1 DEF Known
  <2>4. ASSUME NEW i \in 1..position - 1, Known(validated[i])
       PROVE  \E e \in merged'[validated[i].key] : SameEvidence(e, validated[i])
    <3>1. PICK e \in merged[validated[i].key] : SameEvidence(e, validated[i])
      BY <2>1
    <3>2. Known(e)
      BY <2>4, <3>1 DEF Known, SameEvidence
    <3>3. validated[i].key \in Keys
      BY <2>1, ValidatedType
    <3> QED
      BY <2>2, <3>1, <3>2, <3>3
  <2> QED
    BY <2>1, <2>2, <2>3, <2>4
<1>12. CASE UNCHANGED vars
  BY <1>12 DEF vars, SameEvidence, Known
<1> QED
  BY <1>1, <1>2, <1>3, <1>4, <1>5, <1>6, <1>7, <1>8, <1>9, <1>10, <1>11,
     <1>12, NextSteps

----------------------------------------------------------------------------
(* The theorems.                                                           *)

\* The inductive invariant holds in every state of an analysis.
THEOREM ExtractionInvariant == Spec => []ExtractionInv
<1>1. Init => ExtractionInv
  <2> SUFFICES ASSUME Init
               PROVE  ExtractionInv
    OBVIOUS
  <2>1. TypeOK
    <3>1. blocks \in Seq(Blocks) /\ Len(blocks) <= MaxBlocks
      <4>1. PICK m \in 0..MaxBlocks : blocks \in [1..m -> Blocks]
        BY DEF Init, BoundedSeq, SeqOf
      <4>2. blocks \in Seq(Blocks) /\ Len(blocks) = m
        BY <4>1
      <4> QED
        BY <4>1, <4>2, ExtractionAssumption
    <3>2. chunks = <<>> /\ validated = <<>> /\ answered = {} /\ Len(blocks) \in Nat
      BY <3>1, SeqFacts DEF Init
    <3> QED
      BY <3>1, <3>2, ExtractionAssumption DEF Init, TypeOK
  <2>2. CutInv /\ ChunksPartitionBlocks /\ ChunksAreSized /\ ChunksAreOrdered
    BY DEF Init, CutInv, ChunksPartitionBlocks, ChunksAreSized, ChunksAreOrdered
  <2>3. ChunksAreCounted
    <3>1. (1..1 - 1) \ {} = {}
      OBVIOUS
    <3> QED
      BY <3>1, FS_EmptySet DEF Init, ChunksAreCounted
  <2>4. ContextIsTrimmed /\ AnswersAreSound /\ MergedSoFar
    BY DEF Init, ContextIsTrimmed, AnswersAreSound, MergedSoFar
  <2> QED
    BY <2>1, <2>2, <2>3, <2>4 DEF ExtractionInv
<1>2. ExtractionInv /\ [Next]_vars => ExtractionInv'
  BY TypeStep, CutStep, PartitionStep, SizedStep, OrderedStep, CountedStep, TrimStep,
     SoundStep, MergedStep DEF ExtractionInv
<1> QED
  BY <1>1, <1>2, PTL DEF Spec

\* Every variable has its type in every state of an analysis.
THEOREM TypeCorrect == Spec => []TypeOK
  BY ExtractionInvariant, PTL DEF ExtractionInv

\* Whatever the sizes and limits, the chunks cover the document without gap or overlap.
THEOREM ChunksPartition == Spec => []ChunksPartitionBlocks
  BY ExtractionInvariant, PTL DEF ExtractionInv

\* Whatever the sizes and limits, what is sent fits, has all the wanted context that
\* fits, and was closed no earlier than it had to be.
THEOREM SentChunksFit == Spec => []ChunksFit
<1>1. ASSUME ExtractionInv
     PROVE  ChunksFit
  <2> SUFFICES ASSUME pc = "call"
               PROVE  LET own == chunks[chunk]
                          wanted == {i \in 1..own.from :
                                        i >= own.from - OverlapBlocks
                                        /\ (chunk = 1 \/ i >= chunks[chunk - 1].from)}
                          fitting == {i \in wanted : Length(i, own.to) <= HardMaxChars}
                      IN  /\ start = Min(fitting)
                          /\ own.from = own.to \/ Length(own.from, own.to) <= TargetChars
                          /\ own.to < Len(blocks) => Length(own.from, own.to + 1) > TargetChars
    BY DEF ChunksFit
  <2> USE <1>1 DEF ExtractionInv
  <2> DEFINE own == chunks[chunk]
             wanted == {i \in 1..own.from : i >= own.from - OverlapBlocks
                                            /\ (chunk = 1 \/ i >= chunks[chunk - 1].from)}
             fitting == {i \in wanted : Length(i, own.to) <= HardMaxChars}
  <2>1. chunk \in 1..Len(chunks)
    BY DEF TypeOK, ChunksAreCounted
  <2>2. /\ own.from \in 1..own.to /\ own.to \in 1..Len(blocks) /\ Len(blocks) \in Nat
        /\ Bounded(own.from, own.to)
        /\ own.to < Len(blocks) => Length(own.from, own.to + 1) > TargetChars
    BY <2>1, SeqFacts DEF ChunksAreSized, TypeOK
  <2>3. /\ start \in ContextStart(chunk)..own.from
        /\ \A i \in ContextStart(chunk)..start - 1 : Length(i, own.to) > HardMaxChars
        /\ Length(start, own.to) <= HardMaxChars
    BY DEF ContextIsTrimmed
  <2>4. wanted = ContextStart(chunk)..own.from
    <3>1. /\ ContextStart(chunk) \in Nat \ {0} /\ ContextStart(chunk) <= own.from
          /\ chunk = 1 => ContextStart(chunk) = 1
          /\ chunk > 1 => ContextStart(chunk) = IF chunks[chunk - 1].from >= own.from - OverlapBlocks
                                                THEN chunks[chunk - 1].from
                                                ELSE own.from - OverlapBlocks
      BY <2>1, ContextStartType
    <3>2. CASE chunk = 1
      <4>1. own.from = 1
        BY <2>1, <3>2, ChunkType
      <4> HIDE DEF own
      <4> QED
        BY <3>1, <3>2, <4>1, ExtractionAssumption
    <3>3. CASE chunk > 1
      <4>1. chunk - 1 \in 1..Len(chunks)
        BY <2>1, <3>3, ChunkType
      <4>2. chunks[chunk - 1].from \in Nat \ {0} /\ own.from \in Nat \ {0}
        BY <2>1, <4>1, ChunkType
      <4> HIDE DEF own
      <4> QED
        BY <3>1, <3>3, <4>2, ExtractionAssumption
    <3> QED
      BY <2>1, <3>2, <3>3
  <2>5. \A i \in ContextStart(chunk)..own.from : Length(i, own.to) \in Int
    <3>1. ContextStart(chunk) \in Nat \ {0}
      BY <2>1, ContextStartType
    <3>2. ContextStart(chunk)..own.from \subseteq 1..Len(blocks)
      BY <2>2, <3>1
    <3> QED
      BY <2>2, <3>2, LengthType
  <2>6. start = Min(fitting)
    <3>1. ContextStart(chunk) \in Nat /\ own.from \in Nat /\ start \in Nat
      BY <2>1, <2>2, <2>3, ContextStartType
    <3> HIDE DEF own, wanted
    <3>2. start \in fitting /\ fitting \in SUBSET Int
      BY <2>3, <2>4, <3>1
    <3>3. \A i \in fitting : start <= i
      <4> SUFFICES ASSUME NEW i \in fitting, i < start
                   PROVE  FALSE
        BY <2>4, <3>1
      <4>1. i \in ContextStart(chunk)..own.from /\ Length(i, own.to) <= HardMaxChars
        BY <2>4
      <4>2. Length(i, own.to) > HardMaxChars
        BY <2>3, <3>1, <4>1
      <4> QED
        BY <2>5, <4>1, <4>2, ExtractionAssumption
    <3> QED
      BY <3>2, <3>3, MinIsLeast
  <2> HIDE DEF fitting, wanted
  <2> QED
    BY <2>2, <2>6 DEF Bounded, fitting, wanted
<1> QED
  BY <1>1, ExtractionInvariant, PTL

\* The requirements kept are those of the answers, each source once, whatever the model
\* has answered and however often.
THEOREM SourcesAreKept == Spec => []MergeKeepsSources
<1>1. ASSUME ExtractionInv
     PROVE  MergeKeepsSources
  <2> USE <1>1 DEF ExtractionInv
  <2> SUFFICES ASSUME pc = "done", NEW k \in Keys
               PROVE  LET cited == {i \in 1..Len(validated) :
                                      validated[i].key = k /\ validated[i].block \in 1..Len(blocks)}
                      IN  /\ {<<e.block, e.quote>> : e \in merged[k]} =
                                 {<<validated[i].block, validated[i].quote>> : i \in cited}
                          /\ \A e, f \in merged[k] : SameEvidence(e, f) => e = f
    BY DEF MergeKeepsSources
  <2>1. position - 1 = Len(validated) /\ Len(validated) \in Nat
    BY ValidatedType DEF MergedSoFar
  <2>2. ASSUME NEW e \in merged[k]
       PROVE  \E i \in 1..Len(validated) :
                  /\ validated[i].key = k /\ validated[i].block \in 1..Len(blocks)
                  /\ e.block = validated[i].block /\ e.quote = validated[i].quote
    <3>1. PICK i \in 1..Len(validated) : validated[i].key = k /\ SameEvidence(e, validated[i])
      BY <2>1 DEF MergedSoFar
    <3>2. e.block \in 1..Len(blocks)
      BY DEF MergedSoFar, Known
    <3> QED
      BY <3>1, <3>2 DEF SameEvidence
  <2>3. ASSUME NEW i \in 1..Len(validated),
               validated[i].key = k, validated[i].block \in 1..Len(blocks)
       PROVE  \E e \in merged[k] : e.block = validated[i].block /\ e.quote = validated[i].quote
    BY <2>1, <2>3 DEF MergedSoFar, Known, SameEvidence
  <2>4. \A e, f \in merged[k] : SameEvidence(e, f) => e = f
    BY DEF MergedSoFar
  <2> QED
    BY <2>2, <2>3, <2>4
<1> QED
  BY <1>1, ExtractionInvariant, PTL

\* What is stored as verified occurs in the block it cites.
THEOREM VerifiedAreQuoted == Spec => []VerifiedIsQuoted
<1>1. ExtractionInv => VerifiedIsQuoted
  BY DEF ExtractionInv, MergedSoFar, VerifiedIsQuoted
<1> QED
  BY <1>1, ExtractionInvariant, PTL

\* The outcome says of any document and any failures what the model has seen of it.
THEOREM OutcomeHonest == Spec => []OutcomeIsHonest
<1>1. ASSUME ExtractionInv
     PROVE  OutcomeIsHonest
  <2> USE <1>1 DEF ExtractionInv
  <2> DEFINE n == Len(chunks)
             seen == UNION {chunks[c].from..chunks[c].to : c \in answered}
             missed == (1..n) \ answered
  <2> SUFFICES ASSUME pc = "done"
               PROVE  /\ Outcome = "SUCCEEDED" <=> seen = 1..Len(blocks) /\ blocks # <<>>
                      /\ Outcome = "PARTIAL" <=> seen # {} /\ seen # 1..Len(blocks)
                      /\ Outcome = "FAILED" => \A k \in Keys : merged[k] = {}
    BY DEF OutcomeIsHonest
  <2>1. /\ n \in Nat /\ Len(blocks) \in Nat /\ answered \subseteq 1..n
        /\ blocks = <<>> <=> Len(blocks) = 0
    BY SeqFacts DEF TypeOK
  <2>2. failed = Cardinality(missed)
    <3>1. chunk - 1 = n
      BY <2>1 DEF ChunksAreCounted
    <3> QED
      BY <3>1 DEF ChunksAreCounted
  <2>3. n = 0 <=> blocks = <<>>
    BY <2>1, SeqFacts DEF ChunksPartitionBlocks, TypeOK
  <2>4. IsFiniteSet(1..n) /\ Cardinality(1..n) = n /\ missed \in SUBSET (1..n)
    <3>1. n \in Int /\ (1 > n => n = 0) /\ n - 1 + 1 = n
      BY <2>1
    <3> HIDE DEF n
    <3>2. IsFiniteSet(1..n) /\ Cardinality(1..n) = IF 1 > n THEN 0 ELSE n - 1 + 1
      BY <3>1, FS_Interval
    <3> QED
      BY <3>1, <3>2 DEF missed
  <2>5. IsFiniteSet(missed) /\ failed \in Nat
    BY <2>2, <2>4, FS_Subset, FS_CardinalityType
  <2>6. failed = 0 <=> answered = 1..n
    BY <2>1, <2>2, <2>5, FS_EmptySet
  <2>7. failed = n <=> answered = {}
    <3>1. failed = n => missed = 1..n
      BY <2>2, <2>4, FS_Subset
    <3>2. missed = 1..n <=> answered = {}
      BY <2>1
    <3> QED
      BY <2>2, <2>4, <3>1, <3>2
  <2>8. \A c \in 1..n : /\ chunks[c].from \in 1..chunks[c].to
                        /\ chunks[c].to \in 1..Len(blocks)
    BY DEF ChunksAreSized
  <2>9. seen = {} <=> answered = {}
    BY <2>1, <2>8
  <2>10. answered = 1..n => seen = 1..Len(blocks)
    <3>1. \A b \in 1..Len(blocks) : \E c \in 1..n : b \in chunks[c].from..chunks[c].to
      BY DEF ChunksAreOrdered
    <3>2. \A c \in 1..n : chunks[c].from..chunks[c].to \subseteq 1..Len(blocks)
      BY <2>1, <2>8
    <3> QED
      BY <3>1, <3>2
  <2>11. seen = 1..Len(blocks) => answered = 1..n
    <3> SUFFICES ASSUME seen = 1..Len(blocks), NEW c \in 1..n, c \notin answered
                 PROVE  FALSE
      BY <2>1
    <3>1. chunks[c].from \in 1..Len(blocks)
      BY <2>1, <2>8
    <3>2. PICK d \in answered : chunks[c].from \in chunks[d].from..chunks[d].to
      BY <3>1
    <3>3. d \in 1..n /\ d # c
      BY <2>1, <3>2
    <3>4. CASE d < c
      <4>1. chunks[d].to < chunks[c].from
        BY <3>3, <3>4 DEF ChunksAreOrdered
      <4> QED
        BY <2>1, <2>8, <3>2, <3>3, <4>1
    <3>5. CASE c < d
      <4>1. chunks[c].to < chunks[d].from
        BY <3>3, <3>5 DEF ChunksAreOrdered
      <4> QED
        BY <2>1, <2>8, <3>2, <3>3, <4>1
    <3> QED
      BY <2>1, <3>3, <3>4, <3>5
  <2>12. answered = {} => \A k \in Keys : merged[k] = {}
    <3>1. answered = {} => Len(validated) = 0
      BY ValidatedType, SeqFacts DEF AnswersAreSound, TypeOK
    <3>2. answered = {} => position - 1 = 0
      BY <3>1 DEF MergedSoFar
    <3> QED
      BY <3>2 DEF MergedSoFar
  <2> HIDE DEF seen, missed
  <2>13. n = 0 => answered = {}
    BY <2>1
  <2>14. Outcome = IF n = 0 \/ failed = n THEN "FAILED"
                   ELSE IF failed > 0 THEN "PARTIAL" ELSE "SUCCEEDED"
    BY DEF Outcome
  <2> HIDE DEF n
  <2> QED
    BY <2>3, <2>5, <2>6, <2>7, <2>9, <2>10, <2>11, <2>12, <2>13, <2>14
<1> QED
  BY <1>1, ExtractionInvariant, PTL

===============================================================================
