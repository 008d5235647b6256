----------------------------- MODULE Retrieval -----------------------------
(***************************************************************************)
(* Searching a knowledge base, and refreshing the local index it is ranked *)
(* by.  Chunks are written by ingestion and by a refresh, each with the    *)
(* embedding of its text; a search ranks the chunks of the documents that  *)
(* are ready, lexically and, where the stored embedding can be read, by    *)
(* relatedness.  Scores are left out: a query and a text match or do not.  *)
(***************************************************************************)
EXTENDS Naturals, Sequences, SequencesExt, FiniteSets, Ordering

CONSTANTS MaxDocs,       \* documents, numbered in the order of their creation
          MaxChunks,     \* chunks of one document
          MaxIngests,    \* ingestions of all documents
          MaxRequests,   \* searches and refreshes
          Texts, Queries,
          Matches,       \* the queries and texts that share a concept
          Related,       \* the queries and texts whose embeddings are near
          DefaultLimit, MaxLimit, MaxOffset, MaxCandidates, RefreshLimit

VARIABLES active,   \* whether the base is active
          ready,    \* the documents that are ready, the last updated first
          chunks,   \* the stored chunks
          ingests,
          requests  \* the searches and refreshes, in the order of their arrival

retrievalVars == <<active, ready, chunks, ingests, requests>>

-----------------------------------------------------------------------------
Docs == 1..MaxDocs

\* An embedding as Postgres holds it: a JSON object or a string, of this version or another,
\* computed from a text.
Embedding == [shape : {"object", "string"}, version : {"current", "older"}, of : Texts]

Chunk == [doc : Docs, ingest : 1..MaxIngests, index : 1..MaxChunks, text : Texts, embedding : Embedding]

\* scanned: the chunks a refresh read; results: a page of a search.  read: all the chunks a
\* search read, total: how many it ranked (history).
Request == [op : {"search", "refresh"}, step : {"found", "read", "over"},
            query : Queries, limit : Nat, offset : Nat,
            scanned : Seq(Chunk), all : BOOLEAN, more : BOOLEAN, updated : Nat, skipped : Nat,
            read : Seq(Chunk), results : Seq(Chunk), truncated : BOOLEAN, total : Nat]

RetrievalTypeOK ==
  /\ active \in BOOLEAN
  /\ ready \in Seq(Docs) /\ IsInjective(ready)
  /\ chunks \subseteq Chunk
  /\ ingests \in 0..MaxIngests
  /\ requests \in Seq(Request) /\ Len(requests) <= MaxRequests
  /\ \A k \in DOMAIN requests :
       LET r == requests[k] IN
       /\ r.limit \in 1..MaxLimit /\ r.offset \in 0..MaxOffset
       /\ r.updated + r.skipped <= Len(r.scanned)

RetrievalInit ==
  /\ active = TRUE
  /\ ready = <<>>
  /\ chunks = {}
  /\ ingests = 0
  /\ requests = <<>>

-----------------------------------------------------------------------------
(* Embeddings.                                                             *)

\* What the driver stores for JSON.stringify(...)::jsonb, as decryptJsonSecret describes.
Stringified(version, text) == [shape |-> "string", version |-> version, of |-> text]

\* parseLocalEmbedding.
Parse(e) ==
  IF e.shape # "object" THEN "invalid" ELSE IF e.version # "current" THEN "outdated" ELSE "current"

\* The condition of the refresh's query.
NeedsRefresh(e) == e.shape # "object" \/ e.version # "current"

\* embedding ->> 'version': null for a JSON string.
VersionIsCurrent(e) == e.shape = "object" /\ e.version = "current"

-----------------------------------------------------------------------------
(* Sequences that are sorted, and what is left of one.                     *)

Without(s, x) == Picked(s, {i \in DOMAIN s : s[i] # x})

-----------------------------------------------------------------------------
(* Ingestion and the base.                                                 *)

OfDoc(d) == {c \in chunks : c.doc = d}

\* The worker replaces the chunks of a document, and the document is ready.
Ingested(d) ==
  /\ ingests < MaxIngests
  /\ ingests' = ingests + 1
  /\ \E texts \in UNION {[1..n -> Texts] : n \in 1..MaxChunks} :
       chunks' = (chunks \ OfDoc(d)) \cup
                 {[doc |-> d, ingest |-> ingests + 1, index |-> i, text |-> texts[i],
                   embedding |-> Stringified("current", texts[i])] : i \in DOMAIN texts}
  /\ ready' = <<d>> \o Without(ready, d)
  /\ UNCHANGED <<active, requests>>

\* The demo data: a ready document with embeddings of the version before.
Seeded(d) ==
  /\ ingests < MaxIngests /\ OfDoc(d) = {}
  /\ ingests' = ingests + 1
  /\ \E text \in Texts :
       chunks' = chunks \cup {[doc |-> d, ingest |-> ingests + 1, index |-> 1, text |-> text,
                               embedding |-> Stringified("older", text)]}
  /\ ready' = <<d>> \o ready
  /\ UNCHANGED <<active, requests>>

\* A document is uploaded once more, or its ingestion fails: its chunks stay.
Unready(d) ==
  /\ d \in ToSet(ready)
  /\ ready' = Without(ready, d)
  /\ UNCHANGED <<active, chunks, ingests, requests>>

DeleteDocument(d) ==
  /\ OfDoc(d) # {}
  /\ chunks' = chunks \ OfDoc(d)
  /\ ready' = Without(ready, d)
  /\ UNCHANGED <<active, ingests, requests>>

ArchiveBase ==
  /\ active
  /\ active' = FALSE
  /\ UNCHANGED <<ready, chunks, ingests, requests>>

-----------------------------------------------------------------------------
(* Searches.                                                               *)

Smaller(a, b) == IF a < b THEN a ELSE b

Larger(a, b) == IF a > b THEN a ELSE b

\* The value asked for, or the default in place of none and of zero, between the bounds.
Clamp(asked, default, low, high) == Smaller(Larger(IF asked = 0 THEN default ELSE asked, low), high)

NewRequest(op, query, limit, offset, all) ==
  [op |-> op, step |-> "found", query |-> query, limit |-> limit, offset |-> offset,
   scanned |-> <<>>, all |-> all, more |-> FALSE, updated |-> 0, skipped |-> 0,
   read |-> <<>>, results |-> <<>>, truncated |-> FALSE, total |-> 0]

\* A request of an active base.
Arrive(request) ==
  /\ Len(requests) < MaxRequests
  /\ active
  /\ requests' = Append(requests, request)
  /\ UNCHANGED <<active, ready, chunks, ingests>>

SearchArrives(query, limit, offset) ==
  Arrive(NewRequest("search", query, Clamp(limit, DefaultLimit, 1, MaxLimit), Clamp(offset, 0, 0, MaxOffset), FALSE))

PlaceOf(d) == CHOOSE i \in DOMAIN ready : ready[i] = d

\* The chunks of the documents that are ready, the last updated document first.
Candidates ==
  LET found == {c \in chunks : c.doc \in ToSet(ready)}
  IN  InOrder(found, [c \in found |-> PlaceOf(c.doc) * MaxChunks + c.index])

\* A score above zero, or a relatedness of a tenth, which only an embedding that can be read has.
Found(query, c) ==
  <<query, c.text>> \in Matches \/ (Parse(c.embedding) = "current" /\ <<query, c.embedding.of>> \in Related)

\* The order of the scores is the same whenever the candidates are: the given one stands for it.
Ranked(query, candidates) == Picked(candidates, {i \in DOMAIN candidates : Found(query, candidates[i])})

Page(s, offset, limit) == SubSeq(s, offset + 1, Smaller(offset + limit, Len(s)))

\* For a request that does not give one.
CandidateLimit(limit, offset) == Clamp(0, MaxCandidates, limit + offset, MaxCandidates)

\* Mutant of SearchReads: a page is the last when it is not full.
SearchReadsFull(k) ==
  LET r      == requests[k]
      bound  == CandidateLimit(r.limit, r.offset)
      ranked == Ranked(r.query, SubSeq(Candidates, 1, Smaller(bound, Len(Candidates))))
  IN  /\ r.op = "search" /\ r.step = "found"
      /\ requests' = [requests EXCEPT ![k].step = "over", ![k].read = Candidates,
                                      ![k].truncated = Len(Candidates) > bound,
                                      ![k].results = Page(ranked, r.offset, r.limit),
                                      ![k].total = Len(ranked),
                                      ![k].more = Len(Page(ranked, r.offset, r.limit)) = r.limit]
      /\ UNCHANGED <<active, ready, chunks, ingests>>

SearchReads(k) ==
  LET r      == requests[k]
      bound  == CandidateLimit(r.limit, r.offset)
      ranked == Ranked(r.query, SubSeq(Candidates, 1, Smaller(bound, Len(Candidates))))
  IN  /\ r.op = "search" /\ r.step = "found"
      /\ requests' = [requests EXCEPT ![k].step = "over", ![k].read = Candidates,
                                      ![k].truncated = Len(Candidates) > bound,
                                      ![k].results = Page(ranked, r.offset, r.limit),
                                      ![k].total = Len(ranked),
                                      ![k].more = r.offset + r.limit < Len(ranked)]
      /\ UNCHANGED <<active, ready, chunks, ingests>>

-----------------------------------------------------------------------------
(* Refreshes.                                                              *)

RefreshArrives(all) == \E q \in Queries : Arrive(NewRequest("refresh", q, Smaller(RefreshLimit, MaxLimit), 0, all))

\* The chunks that need it, or all, the oldest document first; one more than the limit tells
\* whether there are more.
ReadIndex(k) ==
  LET r    == requests[k]
      need == {c \in chunks : c.doc \in ToSet(ready) /\ (r.all \/ NeedsRefresh(c.embedding))}
      list == InOrder(need, [c \in need |-> c.doc * MaxChunks + c.index])
  IN  /\ r.op = "refresh" /\ r.step = "found"
      /\ requests' = [requests EXCEPT ![k].step = "read", ![k].more = Len(list) > r.limit,
                                      ![k].scanned = SubSeq(list, 1, Smaller(r.limit, Len(list)))]
      /\ UNCHANGED <<active, ready, chunks, ingests>>

\* Those whose embedding can be read, as it was then, are left alone.
ToUpdate(r) == {c \in ToSet(r.scanned) : r.all \/ Parse(c.embedding) # "current"}

SameRow(a, b) == a.doc = b.doc /\ a.ingest = b.ingest /\ a.index = b.index

\* Mutant of Rewritten: by document and index, whichever ingestion wrote the chunk.
RewrittenInPlace(c, r) ==
  IF \E u \in ToUpdate(r) : u.doc = c.doc /\ u.index = c.index
  THEN [c EXCEPT !.embedding =
               Stringified("current", (CHOOSE u \in ToUpdate(r) : u.doc = c.doc /\ u.index = c.index).text)]
  ELSE c

\* The embedding of the text that was read, if the row is still there.
Rewritten(c, r) ==
  IF \E u \in ToUpdate(r) : SameRow(u, c)
  THEN [c EXCEPT !.embedding = Stringified("current", (CHOOSE u \in ToUpdate(r) : SameRow(u, c)).text)]
  ELSE c

\* The transaction.  A document is touched when no chunk of it has another version.
WriteIndex(k) ==
  LET r       == requests[k]
      docs    == {c.doc : c \in ToUpdate(r)}
      touched == {d \in docs : \A c \in chunks' : c.doc = d => VersionIsCurrent(c.embedding)}
  IN  /\ r.op = "refresh" /\ r.step = "read"
      /\ chunks' = {Rewritten(c, r) : c \in chunks}
      /\ ready' = Picked(ready, {i \in DOMAIN ready : ready[i] \in touched})
                    \o Picked(ready, {i \in DOMAIN ready : ready[i] \notin touched})
      /\ requests' = [requests EXCEPT ![k].step = "over", ![k].updated = Cardinality(ToUpdate(r)),
                                      ![k].skipped = Len(r.scanned) - Cardinality(ToUpdate(r))]
      /\ UNCHANGED <<active, ingests>>

-----------------------------------------------------------------------------
RetrievalNext ==
  \/ \E d \in Docs : Ingested(d) \/ Seeded(d) \/ Unready(d) \/ DeleteDocument(d)
  \/ ArchiveBase
  \/ \E q \in Queries, limit, offset \in 0..MaxLimit : SearchArrives(q, limit, offset)
  \/ \E all \in BOOLEAN : RefreshArrives(all)
  \/ \E k \in DOMAIN requests : SearchReads(k) \/ ReadIndex(k) \/ WriteIndex(k)

RetrievalSpec == RetrievalInit /\ [][RetrievalNext]_retrievalVars

-----------------------------------------------------------------------------
(* Properties.                                                             *)

Answered(op) == {k \in DOMAIN requests : requests[k].op = op /\ requests[k].step = "over"}

\* The pages of one query over the same chunks fit together: a page that follows another
\* starts with the result after its last, and there is such a page if and only if the first
\* says so; and no page is cut from fewer chunks than were read without saying so
\* (search/route.ts:34-36, 188-206).
PagesFit ==
  \A j, k \in Answered("search") :
    LET a == requests[j] b == requests[k] IN
    /\ ~a.truncated => a.total = Cardinality({i \in DOMAIN a.read : Found(a.query, a.read[i])})
    /\ a.query = b.query /\ a.read = b.read /\ b.offset = a.offset + a.limit =>
         /\ a.more <=> b.results # <<>>
         /\ ToSet(a.results) \cap ToSet(b.results) = {}
         /\ a.offset + Len(a.results) < b.offset => b.results = <<>>

\* A refresh computes embeddings from the text it read, before its transaction: a chunk that
\* an ingestion has put in the place of one it read keeps that of its own text
\* (reembed/route.ts:34-73, 82-103; worker index.ts:229-244).
EmbeddingIsOfText == \A c \in chunks : c.embedding.of = c.text

-----------------------------------------------------------------------------
(* What the repository says, and the code does not do.                     *)

\* docs/demo-seed.md:34: retrieval ranks outdated chunks lexically "until you re-embed the
\* knowledge base".
RefreshRestoresStep ==
  \A k \in DOMAIN requests :
    requests[k].op = "refresh" /\ requests[k].step = "read" /\ requests'[k].step = "over" =>
      \A c \in chunks' : (\E u \in ToUpdate(requests[k]) : SameRow(u, c)) => Parse(c.embedding) = "current"

RefreshRestores == [][RefreshRestoresStep]_retrievalVars
=============================================================================
