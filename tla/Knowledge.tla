----------------------------- MODULE Knowledge -----------------------------
(* pg_llm_add_knowledge, and the search of pg_llm_search_knowledge and of  *)
(* the context of pg_llm_chat_json (src/pg_llm.cpp): documents are cut     *)
(* into chunks that are inserted one by one, in the transaction of the     *)
(* caller, while other backends search.                                    *)
EXTENDS Integers, Sequences, FiniteSets, FiniteSetsExt

CONSTANTS
  Backends,
  Bytes,
  Leads, Trails,     \* the bytes that make a character in pairs
  Lower,             \* lower() of a byte
  VerifiesText,      \* lower() refuses halves of characters: UTF-8, lc_ctype not C, not ICU
  Contents,          \* documents, as sequences of bytes
  Queries,           \* what is searched for, sequences of bytes too
  ChunkSizes,        \* option chunk_size
  SmallestChunk,     \* 32
  Limits,            \* option limit, or knowledge_limit
  Distance(_, _),    \* between the embeddings of two texts
  MaxDocuments, MaxSearches  \* bounds on calls

(* Characters are whole: the server verifies it of what clients send, not  *)
(* of what functions make of it.                                           *)
IsText(bytes) ==
  \A i \in 1..Len(bytes) :
    /\ bytes[i] \in Leads => i < Len(bytes) /\ bytes[i + 1] \in Trails
    /\ bytes[i] \in Trails => i > 1 /\ bytes[i - 1] \in Leads

(* Bytes that mean something in a LIKE pattern.                            *)
Specials == {"percent", "underscore", "backslash"}

ASSUME KnowledgeAssumption ==
  /\ Contents \subseteq Seq(Bytes) /\ Queries \subseteq Seq(Bytes)
  /\ Leads \subseteq Bytes /\ Trails \subseteq Bytes \ Leads
  /\ \A t \in Contents \cup Queries : IsText(t)
  /\ Lower \in [Bytes -> Bytes]
  /\ Specials \subseteq Bytes \ (Leads \cup Trails)
  /\ \A b \in Bytes : b \in Specials \/ Lower[b] \in Specials => Lower[b] = b
  /\ VerifiesText \in BOOLEAN
  /\ ChunkSizes \subseteq Int /\ Limits \subseteq Int
  /\ SmallestChunk \in Nat \ {0}
  /\ MaxDocuments \in Nat /\ MaxSearches \in Nat

VARIABLES
  documents,  \* rows of pg_llm_knowledge_documents, uncommitted ones included
  chunks,     \* rows of pg_llm_knowledge_chunks, likewise
  committed,  \* documents whose transaction has committed
  pc,         \* where each backend is
  adding,     \* the document it is adding, 0 for none
  serial,     \* the sequence of document ids
  searches    \* history: searches and what they saw

vars == <<documents, chunks, committed, pc, adding, serial, searches>>

DocumentIds == 1..MaxDocuments
Chunk == [document : DocumentIds, index : Nat, content : Seq(Bytes)]

TypeOK ==
  /\ documents \subseteq [id : DocumentIds, by : Backends, content : Contents, size : Nat \ {0}]
  /\ chunks \subseteq Chunk
  /\ committed \subseteq {d.id : d \in documents}
  /\ pc \in [Backends -> {"idle", "open", "chunks"}]
  /\ adding \in [Backends -> 0..MaxDocuments]
  /\ serial \in 0..MaxDocuments
  /\ \A s \in searches : s.query \in Queries /\ s.rows \subseteq s.seen /\ s.seen \subseteq Chunk

Init ==
  /\ documents = {} /\ chunks = {} /\ committed = {}
  /\ pc = [b \in Backends |-> "idle"]
  /\ adding = [b \in Backends |-> 0]
  /\ serial = 0 /\ searches = {}

-----------------------------------------------------------------------------
UncheckedSize(chunk_size) == chunk_size
ChunkSize(chunk_size) == Max({chunk_size, SmallestChunk})

(* Chunks of size bytes, the last one of what is left; nothing is one      *)
(* empty chunk.                                                            *)
WholeChunks(content, size) == Max({1, Len(content) \div size})
ChunkCount(content, size) == Max({1, (Len(content) + size - 1) \div size})
split_content(content, size) ==
  [i \in 1..ChunkCount(content, size) |->
     SubSeq(content, (i - 1) * size + 1, Min({i * size, Len(content)}))]

-----------------------------------------------------------------------------
(* Transactions.                                                           *)

Open(b) == {d \in documents : d.by = b /\ d.id \notin committed}

Commit(b) ==
  /\ pc[b] = "open"
  /\ committed' = committed \cup {d.id : d \in Open(b)}
  /\ pc' = [pc EXCEPT ![b] = "idle"]
  /\ UNCHANGED <<documents, chunks, adding, serial, searches>>

(* A ROLLBACK, or an ERROR.                                                *)
Abort(b) ==
  /\ documents' = documents \ Open(b)
  /\ chunks' = {c \in chunks : \A d \in Open(b) : c.document # d.id}
  /\ pc' = [pc EXCEPT ![b] = "idle"]
  /\ adding' = [adding EXCEPT ![b] = 0]
  /\ UNCHANGED <<committed, serial>>

Rollback(b) == pc[b] = "open" /\ Abort(b) /\ UNCHANGED searches

-----------------------------------------------------------------------------
(* pg_llm_add_knowledge                                                    *)

insert_knowledge_document(b, content, chunk_size) ==
  /\ pc[b] # "chunks" /\ serial < MaxDocuments
  /\ serial' = serial + 1
  /\ documents' = documents \cup
       {[id |-> serial + 1, by |-> b, content |-> content,
         size |-> ChunkSize(chunk_size)]}
  /\ adding' = [adding EXCEPT ![b] = serial + 1]
  /\ pc' = [pc EXCEPT ![b] = "chunks"]
  /\ UNCHANGED <<chunks, committed, searches>>

ChunksOf(id) == {c \in chunks : c.document = id}
Document(id) == CHOOSE d \in documents : d.id = id
Cut(d) == split_content(d.content, d.size)

insert_knowledge_chunk(b) ==
  LET d == Document(adding[b])
      i == Cardinality(ChunksOf(d.id)) IN
  /\ pc[b] = "chunks"
  /\ chunks' = chunks \cup {[document |-> d.id, index |-> i, content |-> Cut(d)[i + 1]]}
  /\ IF i + 1 = Len(Cut(d))
     THEN pc' = [pc EXCEPT ![b] = "open"] /\ adding' = [adding EXCEPT ![b] = 0]
     ELSE UNCHANGED <<pc, adding>>
  /\ UNCHANGED <<documents, committed, serial, searches>>

InsertFails(b) == pc[b] = "chunks" /\ Abort(b) /\ UNCHANGED searches

-----------------------------------------------------------------------------
(* search_knowledge_internal                                               *)

(* The query goes into the pattern as it is: its percents, underscores and *)
(* backslashes are not escaped.                                            *)
Pattern(query) == <<"percent">> \o query \o <<"percent">>

(* A byte after a backslash that is not itself escaped stands for itself.  *)
Escaped(pattern, i) ==
  Cardinality({j \in 1..(i - 1) : \A k \in j..(i - 1) : pattern[k] = "backslash"}) % 2 = 1
Means(pattern, i, special) == pattern[i] = special /\ ~Escaped(pattern, i)

SameByte(a, b) == Lower[a] = Lower[b]

(* Item i of a pattern takes bytes from + 1 to to of a text.  A percent    *)
(* may stop within a character only if an underscore takes the rest of it. *)
Takes(pattern, i, text, from, to) ==
  \/ Means(pattern, i, "backslash") /\ to = from
  \/ Means(pattern, i, "percent") /\ from <= to
  \/ /\ Means(pattern, i, "underscore") /\ from < to
     /\ \A k \in (from + 2)..to : text[k] \in Trails
     /\ to < Len(text) => text[to + 1] \notin Trails
  \/ /\ pattern[i] \notin Specials \/ Escaped(pattern, i)
     /\ to = from + 1 /\ SameByte(text[to], pattern[i])

ILike(text, pattern) ==
  \E cut \in [1..(Len(pattern) - 1) -> 0..Len(text)] :
    LET At(i) == IF i = 0 THEN 0 ELSE IF i = Len(pattern) THEN Len(text) ELSE cut[i]
    IN \A i \in 1..Len(pattern) : Takes(pattern, i, text, At(i - 1), At(i))

Hit(query, text) == ILike(text, Pattern(query))

AlsoUncommitted(b) == chunks
Visible(b) ==
  {c \in chunks : c.document \in committed \/ \E d \in Open(b) : d.id = c.document}

(* ORDER BY lexical hit, distance.                                         *)
DistanceBefore(query, c, d) == Distance(query, c.content) < Distance(query, d.content)
Before(query, c, d) ==
  \/ Hit(query, c.content) /\ ~Hit(query, d.content)
  \/ /\ Hit(query, c.content) <=> Hit(query, d.content)
     /\ Distance(query, c.content) < Distance(query, d.content)

Searched(b, query, limit, rows, answered) ==
  searches' = searches \cup
    {[by |-> b, query |-> query, limit |-> limit, seen |-> Visible(b), rows |-> rows,
      of |-> {d \in documents : d.id \in committed \/ d \in Open(b)}, answered |-> answered]}

(* ILIKE lowers every chunk to rank them, unless LIMIT 0 asks for none.    *)
Ranks(b, limit) ==
  limit > 0 /\ VerifiesText => \A c \in Visible(b) : IsText(c.content)

search_knowledge_internal(b, query, limit) ==
  /\ pc[b] # "chunks" /\ limit >= 0 /\ Ranks(b, limit)
  /\ Cardinality(searches) < MaxSearches
  /\ \E rows \in SUBSET Visible(b) :
       /\ Cardinality(rows) = Min({limit, Cardinality(Visible(b))})
       /\ \A c \in rows, d \in Visible(b) \ rows : ~Before(query, d, c)
       /\ Searched(b, query, limit, rows, TRUE)
  /\ UNCHANGED <<documents, chunks, committed, pc, adding, serial>>

(* "LIMIT must not be negative", "invalid byte sequence for encoding"      *)
SearchFails(b, query, limit) ==
  /\ pc[b] # "chunks" /\ (limit < 0 \/ ~Ranks(b, limit))
  /\ Cardinality(searches) < MaxSearches
  /\ Searched(b, query, limit, {}, FALSE)
  /\ Abort(b)

-----------------------------------------------------------------------------
Next ==
  \E b \in Backends :
    \/ \E content \in Contents, size \in ChunkSizes : insert_knowledge_document(b, content, size)
    \/ insert_knowledge_chunk(b)
    \/ InsertFails(b)
    \/ \E query \in Queries, limit \in Limits :
         search_knowledge_internal(b, query, limit) \/ SearchFails(b, query, limit)
    \/ Commit(b)
    \/ Rollback(b)

Spec == Init /\ [][Next]_vars

-----------------------------------------------------------------------------
(* What the knowledge base owes its callers.                               *)

(* A search sees of each document either nothing or chunks that, joined by *)
(* chunk_index, are its content to the last byte: never a document another *)
(* backend is still adding, nor what an error left of one.                 *)
SearchesSeeWholeDocuments ==
  \A s \in searches :
    /\ \A c \in s.seen : \E d \in s.of : d.id = c.document
    /\ \A d \in s.of :
         LET At(k) == {c \in s.seen : c.document = d.id /\ c.index = k \div d.size}
         IN \A k \in 0..(Len(d.content) - 1) :
              \E c \in At(k) :
                /\ At(k) = {c}
                /\ c.content[(k % d.size) + 1] = d.content[k + 1]

Plain(query) == \A i \in 1..Len(query) : query[i] \notin Specials
Stands(query, text, i) ==
  /\ i + Len(query) - 1 <= Len(text)
  /\ \A j \in 1..Len(query) : SameByte(text[i + j - 1], query[j])

(* Words without percent, underscore or backslash that stand in a document *)
(* up to case, with no border of chunks through them, are found: a search  *)
(* for at least one row returns the chunk they stand in, unless words that *)
(* stand in every chunk it returns have used up its limit.  Neither nearer *)
(* embeddings nor chunks without the words come before it.                 *)
WordsAreFound ==
  \A s \in searches : \A d \in s.of : \A i \in 1..Len(d.content) :
    /\ s.answered /\ s.limit > 0 /\ Plain(s.query)
    /\ Stands(s.query, d.content, i)
    /\ (i - 1) \div d.size = (i + Len(s.query) - 2) \div d.size
    => \/ \E c \in s.rows : c.document = d.id /\ c.index = (i - 1) \div d.size
       \/ /\ Cardinality(s.rows) = s.limit
          /\ \A c \in s.rows : \E k \in 1..(Len(c.content) + 1) : Stands(s.query, c.content, k)

(* A search for rows is only refused for the sake of the searcher's own    *)
(* transaction or of committed documents: one of them has a character that *)
(* a border of its chunks runs through.                                    *)
RefusedForSplitCharacters ==
  \A s \in searches : ~s.answered /\ s.limit >= 0 =>
    \E d \in s.of : \E i \in 1..(Len(d.content) - 1) :
      d.content[i] \in Leads /\ i % d.size = 0

(* A search for any number of rows answers.                                *)
SearchesAnswer == \A s \in searches : s.limit >= 0 => s.answered
=============================================================================
