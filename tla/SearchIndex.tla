---------------------------- MODULE SearchIndex ----------------------------
(***************************************************************************)
(* The search index and the script that fills it with the runbooks         *)
(* (populate_search_index.py, runbook_indexer.py, chunker.py), while the   *)
(* runbooks are edited between and during its runs, the embedding service  *)
(* fails and is retried, and the search service refuses documents, fails   *)
(* or loses an answer.                                                     *)
(*                                                                         *)
(* A text is the sequence of its sections, without the blanks around them; *)
(* a character is known by its section and its place there, so that two    *)
(* texts have equal characters where one is an edit of the other.  The     *)
(* only blank is the one that joins what is carried to the next section,   *)
(* and it counts as one character.                                         *)
(***************************************************************************)
EXTENDS Naturals, Sequences, FiniteSets, FiniteSetsExt, SequencesExt

CONSTANTS
  Runbooks,     \* files of docs/runbooks
  Texts,        \* bound: what each runbook may say
  Samples,      \* bound: other texts to cut
  Gone,         \* a runbook that is not there
  MaxChars,     \* max_tokens * _CHARS_PER_TOKEN (2048)
  OverlapChars, \* overlap * _CHARS_PER_TOKEN (200)
  MinChars,     \* 100 * _CHARS_PER_TOKEN (400)
  BatchSize,    \* _BATCH_SIZE (50)
  MaxRetries,   \* _MAX_RETRIES (3)
  MaxRuns,      \* bound: invocations of the script
  MaxEdits      \* bound: edits of a runbook

\* A character: its section and its place there.
Char == Nat \X Nat

IsText(text) ==
  /\ text \in Seq(Seq(Char))
  /\ \A k \in DOMAIN text : \A i \in DOMAIN text[k] : text[k][i] = <<k, i>>

ASSUME SearchIndexAssumption ==
  /\ \A file \in Runbooks : (\A text \in Texts[file] : IsText(text)) /\ Gone \notin Texts[file]
  /\ \A text \in Samples : IsText(text)
  /\ OverlapChars \in Nat \ {0} /\ MinChars \in Nat /\ MaxChars \in Nat
  /\ OverlapChars < MinChars /\ MinChars < MaxChars
  /\ BatchSize \in Nat \ {0} /\ MaxRetries \in Nat \ {0}

VARIABLES
  runbook, \* what each runbook says
  edits,   \* edits made
  index,   \* the documents of the index, by id
  runs,    \* invocations so far
  run      \* the current or last invocation

vars == <<runbook, edits, index, runs, run>>
-----------------------------------------------------------------------------
(* chunker.py.                                                             *)

Blank == <<0, 0>>

\* The characters of a text whose sections have these lengths.
TextOf(lengths) ==
  [k \in DOMAIN lengths |-> [i \in 1 .. lengths[k] |-> <<k, i>>]]

Strip(s) ==
  LET kept == {k \in DOMAIN s : s[k] # Blank}
  IN IF kept = {} THEN <<>> ELSE SubSeq(s, Min(kept), Max(kept))

\* The overlap that goes on to the next chunk.
Carried(s) == SubSeq(s, IF Len(s) > OverlapChars THEN Len(s) - OverlapChars + 1 ELSE 1, Len(s))

\* Where the fragment that begins behind pos ends, and behind which place the next begins.
EndOf(block, pos) == IF pos + MaxChars < Len(block) THEN pos + MaxChars ELSE Len(block)

NextOf(block, pos) ==
  LET end == EndOf(block, pos)
  IN IF pos + OverlapChars < end THEN end - OverlapChars ELSE end

\* A block that is too long, cut with overlap; fragments that are too short are left out.
Fragments(block) ==
  LET from[pos \in 0 .. Len(block)] ==
        LET fragment == Strip(SubSeq(block, pos + 1, EndOf(block, pos)))
        IN IF pos = Len(block) THEN <<>>
           ELSE (IF Len(fragment) >= MinChars THEN <<fragment>> ELSE <<>>)
                  \o from[NextOf(block, pos)]
  IN from[0]

\* Variant: a block that is too short is left out.
AddBlockDiscard(done, block) ==
  IF Len(block) < MinChars THEN [done EXCEPT !.carry = <<>>]
  ELSE [chunks |-> Append(done.chunks, block), carry |-> Carried(block)]

\* A block that fits is a chunk, or is carried whole if it is too short.
AddBlock(done, block) ==
  IF Len(block) < MinChars THEN [done EXCEPT !.carry = block]
  ELSE [chunks |-> Append(done.chunks, block), carry |-> Carried(block)]

AddSection(done, section) ==
  LET block == IF done.carry = <<>> THEN section
               ELSE Strip(done.carry \o <<Blank>> \o section)
      fragments == Fragments(block)
  IN CASE section = <<>> -> done
       [] section # <<>> /\ Len(block) <= MaxChars -> AddBlock(done, block)
       [] section # <<>> /\ Len(block) > MaxChars ->
            [chunks |-> done.chunks \o fragments,
             carry |-> IF fragments = <<>> THEN done.carry ELSE Carried(Last(fragments))]

ChunkText(text) ==
  LET done == FoldLeft(AddSection, [chunks |-> <<>>, carry |-> <<>>], text)
  IN IF Len(done.carry) >= MinChars /\ (done.chunks = <<>> \/ Last(done.chunks) # done.carry)
     THEN Append(done.chunks, done.carry) ELSE done.chunks

Chunks == [text \in UNION {Texts[file] : file \in Runbooks} |-> ChunkText(text)]
-----------------------------------------------------------------------------
(* runbook_indexer.py.                                                     *)

NoVector == <<>>

\* Variant: the id does not depend on the file.
DocIdOfChunk(file, k) == <<"runbook", k>>

\* The hash of the file and the number of the chunk.
DocId(file, k) == <<file, k>>

Doc(file, k, chunk) ==
  [id |-> DocId(file, k), file |-> file, nr |-> k, content |-> chunk, vector |-> NoVector]

\* The documents of one runbook, in order.
DocsOf(file) ==
  LET chunks == Chunks[runbook[file]]
  IN [k \in DOMAIN chunks |-> Doc(file, k, chunks[k])]
-----------------------------------------------------------------------------
(* populate_search_index.py.                                               *)

Sources == {"runbooks", "source", "prior_fixes", "all"}

\* left: the runbooks that are listed and not read yet.  refused is a history
\* variable: the documents the service did not store.
NoRun == [pc |-> "failed", source |-> "all", embed |-> FALSE, left |-> {}, docs |-> <<>>,
          vectors |-> <<>>, attempt |-> 0, sent |-> 0, refused |-> {}]

Init ==
  /\ runbook \in [Runbooks -> DOMAIN Chunks \cup {Gone}]
  /\ \A file \in Runbooks : runbook[file] \in Texts[file] \cup {Gone}
  /\ edits = 0
  /\ index = <<>>
  /\ runs = 0
  /\ run = [NoRun EXCEPT !.pc = "done"]

\* A runbook is written, rewritten or removed.
EditRunbook ==
  /\ edits < MaxEdits
  /\ edits' = edits + 1
  /\ \E file \in Runbooks : \E text \in Texts[file] \cup {Gone} :
       text # runbook[file] /\ runbook' = [runbook EXCEPT ![file] = text]
  /\ UNCHANGED <<index, runs, run>>

Start ==
  /\ run.pc \in {"done", "failed"} /\ runs < MaxRuns
  /\ runs' = runs + 1
  /\ \E source \in Sources, embed \in BOOLEAN :
       run' = [NoRun EXCEPT !.pc = "ensure", !.source = source, !.embed = embed]
  /\ UNCHANGED <<runbook, edits, index>>

Becomes(s) == run' = s /\ UNCHANGED <<runbook, edits, index, runs>>

Fails == Becomes(NoRun)

\* The schema is created, or updated without touching the documents.
EnsureIndex ==
  /\ run.pc = "ensure"
  /\ \/ Becomes([run EXCEPT !.pc = IF run.source \in {"runbooks", "all"} THEN "scan" ELSE "raise"])
     \/ Fails

\* What follows the runbooks.
AfterRunbooks == IF run.source = "all" THEN "raise" ELSE "done"

\* The directory is listed once; what is written later is not in the list.
ListRunbooks ==
  /\ run.pc = "scan"
  /\ Becomes([run EXCEPT !.pc = "read",
                         !.left = {file \in Runbooks : runbook[file] # Gone}])

\* The first in the order of the names; which order that is makes no difference.
NextFile == CHOOSE file \in run.left : TRUE

\* The runbooks are read one by one, each as it is by then.
IndexRunbook ==
  /\ run.pc = "read" /\ run.left # {}
  /\ runbook[NextFile] # Gone
  /\ Becomes([run EXCEPT !.docs = @ \o DocsOf(NextFile), !.left = @ \ {NextFile}])

\* A file cannot be read, or is gone since it was listed.
ReadFails ==
  /\ run.pc = "read" /\ run.left # {}
  /\ Fails

RunRunbooks ==
  /\ run.pc = "read" /\ run.left = {}
  /\ Becomes([run EXCEPT !.pc = IF run.docs = <<>> THEN AfterRunbooks
                                ELSE IF run.embed THEN "embed" ELSE "upload"])

\* The items after the first n, one batch of them.
Batch(s, n) == SubSeq(s, n + 1, IF n + BatchSize < Len(s) THEN n + BatchSize ELSE Len(s))

\* The embedding of a text is known by the text.
Embedding(docs) == [k \in DOMAIN docs |-> docs[k].content]

\* Variant: the batches come in the order in which they are finished.
ExtendedFirst(vectors, batch) == batch \o vectors

Extended(vectors, batch) == vectors \o batch

\* Every batch is embedded before any document is uploaded.
EmbedBatch ==
  /\ run.pc = "embed" /\ Len(run.vectors) < Len(run.docs)
  /\ Becomes([run EXCEPT !.attempt = 0,
        !.vectors = Extended(@, Embedding(Batch(run.docs, Len(@))))])

\* A failure is retried; the last one ends the run.
EmbedFails ==
  /\ run.pc = "embed" /\ Len(run.vectors) < Len(run.docs)
  /\ IF run.attempt = MaxRetries - 1 THEN Fails
     ELSE Becomes([run EXCEPT !.attempt = @ + 1])

\* One vector for each document, in order.
ZipVectors ==
  /\ run.pc = "embed" /\ Len(run.vectors) = Len(run.docs)
  /\ Becomes([run EXCEPT !.pc = "upload", !.vectors = <<>>,
        !.docs = [k \in DOMAIN @ |-> [@[k] EXCEPT !.vector = run.vectors[k]]]])

\* Each document replaces the one with its id, its vector too if it has none.
Stored(docs) ==
  [id \in DOMAIN index \cup {doc.id : doc \in docs} |->
     IF \E doc \in docs : doc.id = id THEN CHOOSE doc \in docs : doc.id = id ELSE index[id]]

BatchesLeft == run.sent < Len(run.docs)

\* The service may refuse documents one by one; the answer that says so is not read.
UploadBatch ==
  /\ run.pc = "upload" /\ BatchesLeft
  /\ LET batch == Batch(run.docs, run.sent) IN
     \E stored \in SUBSET ToSet(batch) :
       /\ index' = Stored(stored)
       /\ run' = [run EXCEPT !.sent = @ + Len(batch),
                             !.refused = @ \cup (ToSet(batch) \ stored)]
  /\ UNCHANGED <<runbook, edits, runs>>

\* The call raises, before or after the service took the batch.
UploadFails ==
  /\ run.pc = "upload" /\ BatchesLeft
  /\ \E stored \in {{}, ToSet(Batch(run.docs, run.sent))} : index' = Stored(stored)
  /\ run' = NoRun
  /\ UNCHANGED <<runbook, edits, runs>>

UploadComplete ==
  /\ run.pc = "upload" /\ ~ BatchesLeft
  /\ Becomes([run EXCEPT !.pc = AfterRunbooks])

\* Source code: the client has no list_files.  Prior fixes: there is no module
\* apps.api.core.database.  Both raise before they read anything.
RunOther ==
  /\ run.pc = "raise"
  /\ Fails

Next ==
  \/ EditRunbook \/ Start \/ EnsureIndex \/ ListRunbooks \/ IndexRunbook \/ ReadFails
  \/ RunRunbooks \/ EmbedBatch \/ EmbedFails \/ ZipVectors
  \/ UploadBatch \/ UploadFails \/ UploadComplete \/ RunOther

Spec == Init /\ [][Next]_vars
-----------------------------------------------------------------------------
CharsOf(s) == {s[i] : i \in DOMAIN s}

\* Cutting this text loses less than a smallest chunk at the end of a section and nothing
\* before it, loses whole sections only at the end of the text, and lets every chunk
\* begin inside the one before it.
IsKept(text) ==
  LET chunks == ChunkText(text)
      kept == UNION {CharsOf(chunks[k]) : k \in DOMAIN chunks}
      lost == [k \in DOMAIN text |-> CharsOf(text[k]) \ kept]
      whole == {k \in DOMAIN text : text[k] # <<>> /\ lost[k] = CharsOf(text[k])}
  IN /\ \A k \in DOMAIN text :
          /\ Cardinality(lost[k]) < MinChars
          /\ \A i, j \in DOMAIN text[k] : i < j /\ text[k][i] \in lost[k] => text[k][j] \in lost[k]
     /\ \A k \in whole : \A l \in k .. Len(text) : l \in whole \/ text[l] = <<>>
     /\ Cardinality(UNION {lost[k] : k \in whole}) < MinChars
     /\ \A k \in 2 .. Len(chunks) : chunks[k][1] \in CharsOf(chunks[k - 1])

SamplesAreKept == \A text \in Samples : IsKept(text)

\* What the chunker makes of a runbook: a sequence of texts that are not short.
ChunksAreLong ==
  \A text \in DOMAIN Chunks :
    /\ Chunks[text] \in Seq(Seq(Char))
    /\ \A k \in DOMAIN Chunks[text] : Len(Chunks[text][k]) >= MinChars

\* No runbook loses text to the chunker but short ends, which it leaves out on purpose, and
\* no other text does whose sections are of any lengths around its three limits; and no
\* chunk is short.
ChunksKeepText ==
  /\ SamplesAreKept /\ ChunksAreLong
  /\ \A file \in Runbooks : runbook[file] = Gone \/ IsKept(runbook[file])

\* Whatever failed, was refused or was run again without vectors, a document is the chunk
\* its id says, of some version of its runbook, and its vector is that of its own content.
IndexHoldsChunks ==
  \A id \in DOMAIN index :
    LET doc == index[id] IN
    /\ \E text \in Texts[doc.file] :
         id[2] \in DOMAIN Chunks[text] /\ Chunks[text][id[2]] = doc.content
    /\ doc.vector \in {NoVector, doc.content}

\* After a run that ended well every chunk of every runbook it read is in the index as
\* this run made it, with its vector if it embeds, unless the service refused it: what is
\* left of an older version is behind the last chunk of the new one.
CompletedRunIsIndexed ==
  run.pc = "done" /\ runs > 0 =>
    \A k \in DOMAIN run.docs : run.docs[k] \notin run.refused =>
      LET id == run.docs[k].id IN
      /\ id \in DOMAIN index /\ index[id] = run.docs[k]
      /\ run.embed => index[id].vector # NoVector
=============================================================================
