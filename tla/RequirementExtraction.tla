----------------------- MODULE RequirementExtraction -----------------------
(***************************************************************************)
(* AnalysisService.analyze and what run_analysis stores of it: blocks are  *)
(* cut into overlapping chunks, each chunk is sent to the model up to      *)
(* max_attempts times, the quotes of its answer are looked up, duplicates  *)
(* are merged, and requirements are kept that cite a block of the document.*)
(*                                                                         *)
(* The loops of chunk_blocks and analyze are steps.  A chunk is an interval*)
(* of the ordered blocks, and a block's text is where it ends, counted in  *)
(* characters from the first block on, and the quotes that occur in it     *)
(* after normalisation.  Of an extracted requirement this keeps its merge  *)
(* key (category and text without punctuation and blanks), the block it    *)
(* cites and the quote; the order of what has been merged is left out.     *)
(***************************************************************************)
EXTENDS Integers, Sequences, FiniteSetsExt, SequencesExt, Functions

CONSTANTS
    Sizes,           \* possible lengths of a block
    MaxBlocks,       \* bound on the number of blocks
    Quotes, Keys,    \* quotes and merge keys the model may come up with
    MaxItems,        \* bound on the requirements that the model comes up with in all
    Providers,       \* the configured provider, "misconfigured" for none
    TargetChars, HardMaxChars, OverlapBlocks, MaxAttempts

ASSUME ExtractionAssumption ==
    /\ Sizes \subseteq Nat /\ MaxBlocks \in Nat /\ MaxItems \in Nat
    /\ Providers \subseteq {"openai", "local", "fake", "misconfigured"}
    /\ TargetChars \in Nat \ {0} /\ HardMaxChars \in Nat /\ HardMaxChars >= TargetChars
    /\ OverlapBlocks \in Nat
    /\ MaxAttempts \in Nat \ {0}

VARIABLES
    provider,    \* the provider of this analysis
    blocks,      \* the blocks of the document in order: length and quotes of each
    chunks,      \* the chunks cut so far, without context: intervals of blocks
    first,       \* the first block of the chunk being filled
    next,        \* the block the cutting loop looks at
    chunk,       \* the chunk being sent
    start,       \* its first block, context included
    attempt,     \* the attempt in progress
    validated,   \* the validated requirements of all answers so far
    answered,    \* history: the chunks the model has answered
    failed,      \* failed_chunks
    position,    \* the validated requirement that merge_duplicates looks at
    merged,      \* per key, the evidence of its requirement; a key without has none
    pc           \* where the analysis is

inputVars == <<provider, blocks>>
cutVars == <<chunks, first, next>>
callVars == <<chunk, start, attempt, validated, answered, failed>>
mergeVars == <<position, merged>>
vars == <<inputVars, cutVars, callVars, mergeVars, pc>>

Blocks == [end : 0..MaxBlocks * Max(Sizes), quotes : SUBSET Quotes]

Size(sequence, b) == sequence[b].end - (IF b = 1 THEN 0 ELSE sequence[b - 1].end)

\* A block id of 0 stands for one that the document does not have.
Items == [key : Keys, block : 0..MaxBlocks, quote : Quotes]

Init ==
    /\ provider \in Providers
    /\ blocks \in BoundedSeq(Blocks, MaxBlocks)
    /\ \A b \in 1..Len(blocks) : Size(blocks, b) \in Sizes
    /\ chunks = <<>> /\ first = 1 /\ next = 1
    /\ chunk = 1 /\ start = 1 /\ attempt = 1
    /\ validated = <<>> /\ answered = {} /\ failed = 0
    /\ position = 1 /\ merged = [k \in Keys |-> {}]
    /\ pc = "create"

\* The characters of blocks i to j.
Length(i, j) == blocks[j].end - (IF i = 1 THEN 0 ELSE blocks[i - 1].end)

\* create_requirement_provider: a fake provider outside of tests, no model, no key.
CreateProvider ==
    /\ pc = "create"
    /\ pc' = IF provider = "misconfigured" THEN "raised" ELSE "cut"
    /\ UNCHANGED <<inputVars, cutVars, callVars, mergeVars>>

----------------------------------------------------------------------------
(* chunk_blocks.                                                           *)

Full == first < next /\ Length(first, next) > TargetChars

\* One round of the loop: a chunk that the block would overfill is closed first.
TakeBlock ==
    /\ pc = "cut"
    /\ next <= Len(blocks)
    /\ Size(blocks, next) <= HardMaxChars
    /\ next' = next + 1
    /\ IF Full
       THEN first' = next /\ chunks' = Append(chunks, [from |-> first, to |-> next - 1])
       ELSE UNCHANGED <<first, chunks>>
    /\ UNCHANGED <<inputVars, callVars, mergeVars, pc>>

\* ValueError: the whole analysis fails on a block above the hard maximum.
RefuseBlock ==
    /\ pc = "cut"
    /\ next <= Len(blocks)
    /\ Size(blocks, next) > HardMaxChars
    /\ pc' = "raised"
    /\ UNCHANGED <<inputVars, cutVars, callVars, mergeVars>>

\* Mutant: the last chunk is forgotten.
EndCutEarly ==
    /\ pc = "cut"
    /\ next > Len(blocks)
    /\ pc' = "overlap"
    /\ UNCHANGED <<inputVars, cutVars, callVars, mergeVars>>

EndCut ==
    /\ pc = "cut"
    /\ next > Len(blocks)
    /\ chunks' = IF first < next
                 THEN Append(chunks, [from |-> first, to |-> next - 1])
                 ELSE chunks
    /\ pc' = "overlap"
    /\ UNCHANGED <<inputVars, first, next, callVars, mergeVars>>

\* The context is the end of the chunk before, without its own context.
ContextStart(c) ==
    IF c = 1 THEN chunks[c].from
    ELSE Max({chunks[c - 1].from, chunks[c].from - OverlapBlocks})

Overlap ==
    /\ pc = "overlap"
    /\ chunk <= Len(chunks)
    /\ start' = ContextStart(chunk)
    /\ attempt' = 1
    /\ pc' = "trim"
    /\ UNCHANGED <<inputVars, cutVars, chunk, validated, answered, failed, mergeVars>>

\* Mutant: a chunk that just fits is trimmed.
OverlongOrFull == Length(start, chunks[chunk].to) >= HardMaxChars

Overlong == Length(start, chunks[chunk].to) > HardMaxChars

TrimContext ==
    /\ pc = "trim"
    /\ start < chunks[chunk].from
    /\ Overlong
    /\ start' = start + 1
    /\ UNCHANGED <<inputVars, cutVars, chunk, attempt, validated, answered, failed, mergeVars, pc>>

EndTrim ==
    /\ pc = "trim"
    /\ start = chunks[chunk].from \/ ~Overlong
    /\ pc' = "call"
    /\ UNCHANGED <<inputVars, cutVars, callVars, mergeVars>>

----------------------------------------------------------------------------
(* The call of the model and validate_requirement.                         *)

\* Mutant: the quote may be in any block of the chunk.
VerifiedAnywhere(item) ==
    /\ item.block \in start..chunks[chunk].to
    /\ \E b \in start..chunks[chunk].to : item.quote \in blocks[b].quotes

\* Only the blocks of the chunk itself are looked up.
Verified(item) ==
    item.block \in start..chunks[chunk].to /\ item.quote \in blocks[item.block].quotes

Validate(item) ==
    [key |-> item.key, block |-> item.block, quote |-> item.quote, verified |-> Verified(item)]

\* Mutant: the chunk is tried for ever.
SameChunk == UNCHANGED chunk /\ pc' = "overlap"

NextChunk == chunk' = chunk + 1 /\ pc' = "overlap"

Answer(items) ==
    /\ validated' = validated \o [i \in 1..Len(items) |-> Validate(items[i])]
    /\ answered' = answered \cup {chunk}
    /\ NextChunk
    /\ UNCHANGED <<inputVars, cutVars, start, attempt, failed, mergeVars>>

\* The fake provider finds the phrases it knows, block by block, and has one
\* requirement for each of them.
FakeRequirement == CHOOSE f \in [Quotes -> Keys] : IsInjective(f)
Found == {item \in Items : Verified(item) /\ item.key = FakeRequirement[item.quote]}
FakeAnswers ==
    {items \in BoundedSeq(Found, Cardinality(Found)) :
        /\ ToSet(items) = Found
        /\ \A i, j \in 1..Len(items) : i < j => items[i].block <= items[j].block}

\* A reply of a local model as the text of its content or, if that is blank, of its
\* reasoning: usable when the outermost braces in it enclose a batch.
Texts == {"blank", "batch", "wrapped", "other"}
Usable(text) == text \in {"batch", "wrapped"}
LocalReply(content, reasoning) == IF content = "blank" THEN reasoning ELSE content

\* What a language model may answer.
Batches ==
    BoundedSeq({item \in Items : item.block <= Len(blocks)}, MaxItems - Len(validated))

Extract ==
    /\ pc = "call"
    /\ \/ provider = "fake" /\ \E items \in FakeAnswers : Answer(items)
       \/ provider = "openai" /\ \E items \in Batches : Answer(items)
       \/ /\ provider = "local"
          /\ \E content, reasoning \in Texts : Usable(LocalReply(content, reasoning))
          /\ \E items \in Batches : Answer(items)

\* The last attempt counts the chunk as failed, and the next chunk is tried.
AttemptFails ==
    /\ pc = "call"
    /\ IF attempt = MaxAttempts
       THEN failed' = failed + 1 /\ NextChunk /\ UNCHANGED attempt
       ELSE attempt' = attempt + 1 /\ UNCHANGED <<failed, chunk, pc>>
    /\ UNCHANGED <<inputVars, cutVars, start, validated, answered, mergeVars>>

\* The request fails or times out, or the reply is no batch.
ExtractFails ==
    \/ provider = "openai" /\ AttemptFails
    \/ /\ provider = "local"
       /\ \E content, reasoning \in Texts : ~Usable(LocalReply(content, reasoning))
       /\ AttemptFails

----------------------------------------------------------------------------
(* merge_duplicates and what run_analysis keeps.                           *)

Evidence(item) == [block |-> item.block, quote |-> item.quote, verified |-> item.verified]

SameEvidence(e, item) == e.block = item.block /\ e.quote = item.quote

\* Mutant: a duplicate is dropped with its source.
MergeOneDropped(item) ==
    IF merged[item.key] # {} THEN merged
    ELSE [merged EXCEPT ![item.key] = {Evidence(item)}]

MergeOne(item) ==
    [merged EXCEPT ![item.key] =
        IF \E e \in @ : SameEvidence(e, item) THEN @ ELSE @ \cup {Evidence(item)}]

\* One round of the loop of merge_duplicates, after that of analyze.
Merge ==
    /\ pc = "overlap"
    /\ chunk > Len(chunks)
    /\ position <= Len(validated)
    /\ merged' = MergeOne(validated[position])
    /\ position' = position + 1
    /\ UNCHANGED <<inputVars, cutVars, callVars, pc>>

\* run_analysis drops evidence that cites no block of the document, and requirements
\* that have no other.
Known(e) == e.block \in 1..Len(blocks)

Store ==
    /\ pc = "overlap"
    /\ chunk > Len(chunks)
    /\ position > Len(validated)
    /\ merged' = [k \in Keys |-> {e \in merged[k] : Known(e)}]
    /\ pc' = "done"
    /\ UNCHANGED <<inputVars, cutVars, callVars, position>>

\* Mutant: failed only when no requirement was found.
OutcomeByResult ==
    IF \A k \in Keys : merged[k] = {} THEN "FAILED" ELSE IF failed > 0 THEN "PARTIAL" ELSE "SUCCEEDED"

\* The state of the job: FAILED too when the analysis raised.
Outcome ==
    IF pc = "raised" \/ Len(chunks) = 0 \/ failed = Len(chunks) THEN "FAILED"
    ELSE IF failed > 0 THEN "PARTIAL" ELSE "SUCCEEDED"

----------------------------------------------------------------------------
Next ==
    \/ CreateProvider
    \/ TakeBlock \/ RefuseBlock \/ EndCut
    \/ Overlap \/ TrimContext \/ EndTrim
    \/ Extract \/ ExtractFails
    \/ Merge \/ Store

Spec == Init /\ [][Next]_vars
FairSpec == Spec /\ WF_vars(Next)

----------------------------------------------------------------------------
(* Properties.                                                             *)

\* Every variable has its type.
TypeOK ==
    /\ provider \in Providers
    /\ blocks \in Seq(Blocks) /\ Len(blocks) <= MaxBlocks
    /\ \A b \in 1..Len(blocks) : Size(blocks, b) \in Sizes
    /\ chunks \in Seq([from : Nat \ {0}, to : Nat \ {0}])
    /\ first \in Nat \ {0} /\ next \in Nat \ {0} /\ first <= next
    /\ next <= Len(blocks) + 1
    /\ chunk \in Nat \ {0} /\ start \in Nat
    /\ attempt \in 1..MaxAttempts
    /\ validated \in Seq([key : Keys, block : 0..MaxBlocks, quote : Quotes, verified : BOOLEAN])
    /\ answered \subseteq 1..Len(chunks) /\ failed \in Nat
    /\ position \in 1..Len(validated) + 1
    /\ merged \in [Keys -> SUBSET [block : 0..MaxBlocks, quote : Quotes, verified : BOOLEAN]]
    /\ pc \in {"create", "cut", "overlap", "trim", "call", "done", "raised"}

\* The chunks follow each other without gap or overlap of their own blocks, up to
\* the chunk being filled and, once cut, to the end of the document: no block is
\* left out, and none is analysed twice but as context.
ChunksPartitionBlocks ==
    /\ \A c \in DOMAIN chunks :
           /\ chunks[c].from <= chunks[c].to
           /\ chunks[c].from = IF c = 1 THEN 1 ELSE chunks[c - 1].to + 1
    /\ pc \in {"cut", "raised"} /\ chunks # <<>> => chunks[Len(chunks)].to = first - 1
    /\ pc \in {"overlap", "trim", "call", "done"} =>
           IF blocks = <<>> THEN chunks = <<>>
           ELSE chunks # <<>> /\ chunks[Len(chunks)].to = Len(blocks)

\* What is sent fits the hard maximum, with as much of the wanted context as fits;
\* its own blocks exceed the target only when there is just one, and could not
\* have taken in the block after them.
ChunksFit ==
    pc = "call" =>
        LET own == chunks[chunk]
            wanted == {i \in 1..own.from : i >= own.from - OverlapBlocks
                                           /\ (chunk = 1 \/ i >= chunks[chunk - 1].from)}
            fitting == {i \in wanted : Length(i, own.to) <= HardMaxChars}
        IN  /\ start = Min(fitting)
            /\ own.from = own.to \/ Length(own.from, own.to) <= TargetChars
            /\ own.to < Len(blocks) => Length(own.from, own.to + 1) > TargetChars

\* The requirements and their sources are those of the answers, each once, however
\* many chunks repeat them: merging attaches sources and discards none.
MergeKeepsSources ==
    pc = "done" =>
        \A k \in Keys :
            LET cited == {i \in 1..Len(validated) :
                             validated[i].key = k /\ validated[i].block \in 1..Len(blocks)}
            IN  /\ {<<e.block, e.quote>> : e \in merged[k]} =
                       {<<validated[i].block, validated[i].quote>> : i \in cited}
                /\ \A e, f \in merged[k] : SameEvidence(e, f) => e = f

\* Evidence shown as verified is a quote that occurs in the block it cites, through
\* the lookup in one chunk and the merging over chunks.
VerifiedIsQuoted ==
    \A k \in Keys : \A e \in merged[k] : e.verified => e.quote \in blocks[e.block].quotes

\* A document is ready for review as a whole only when the model has answered for
\* every block of it, and partial only when it has answered for some and not all.
OutcomeIsHonest ==
    pc = "done" =>
        LET seen == UNION {chunks[c].from..chunks[c].to : c \in answered}
        IN  /\ Outcome = "SUCCEEDED" <=> seen = 1..Len(blocks) /\ blocks # <<>>
            /\ Outcome = "PARTIAL" <=> seen # {} /\ seen # 1..Len(blocks)
            /\ Outcome = "FAILED" => \A k \in Keys : merged[k] = {}

\* Every analysis ends, whatever fails.
AnalysisEnds == <>(pc \in {"done", "raised"})

----------------------------------------------------------------------------
(* A claim of the documentation that the code does not keep.               *)

\* docs/architecture.md: verified says whether the quote is in the text of the block.
QuotedIsVerified ==
    pc = "done" =>
        \A k \in Keys : \A e \in merged[k] : e.quote \in blocks[e.block].quotes => e.verified
=============================================================================
