-------------------------- MODULE KnowledgeProofs --------------------------
(***************************************************************************)
(* Proofs about Knowledge: what searches see of documents that are added   *)
(* chunk by chunk, and which rows they return.                             *)
(***************************************************************************)
EXTENDS Knowledge, FiniteSetTheorems, SequenceTheorems, WellFoundedInduction, TLAPS

-----------------------------------------------------------------------------
(* Quotients and remainders.                                               *)

LEMMA Division ==
  ASSUME NEW n \in Nat, NEW s \in Nat \ {0}
  PROVE  /\ n \div s \in Nat /\ n % s \in 0..(s - 1)
         /\ n = (n \div s) * s + (n % s)
OBVIOUS

LEMMA Multiples ==
  ASSUME NEW j \in Nat, NEW k \in Nat, NEW s \in Nat \ {0}, j < k
  PROVE  j * s + s <= k * s
<1>1. PICK m \in Nat : k = j + 1 + m
  <2> k - j - 1 \in Nat /\ k = j + 1 + (k - j - 1)
    OBVIOUS
  <2> QED OBVIOUS
<1>2. k * s = j * s + s + m * s /\ m * s \in Nat /\ j * s \in Nat
  BY <1>1
<1> QED BY <1>2

LEMMA QuotientIs ==
  ASSUME NEW s \in Nat \ {0}, NEW k \in Nat, NEW n \in Nat, k * s <= n, n < k * s + s
  PROVE  n \div s = k /\ n % s = n - k * s
<1> DEFINE j == n \div s
<1>1. j \in Nat /\ n % s \in 0..(s - 1) /\ n = j * s + (n % s) /\ j * s \in Nat /\ k * s \in Nat
  <2>1. j \in Nat /\ n % s \in 0..(s - 1) /\ n = j * s + (n % s)
    BY Division
  <2> HIDE DEF j
  <2> QED BY <2>1
<1> HIDE DEF j
<1>2. ~(j < k)
  <2>1. j < k => j * s + s <= k * s
    BY <1>1, Multiples
  <2> QED BY <1>1, <2>1
<1>3. ~(k < j)
  <2>1. k < j => k * s + s <= j * s
    BY <1>1, Multiples
  <2> QED BY <1>1, <2>1
<1>4. j = k
  BY <1>1, <1>2, <1>3
<1> QED BY <1>1, <1>4 DEF j

LEMMA MaxOfTwo ==
  ASSUME NEW a \in Int, NEW b \in Int
  PROVE  Max({a, b}) = IF a >= b THEN a ELSE b
<1> DEFINE m == IF a >= b THEN a ELSE b
<1>1. m \in {a, b} /\ \A y \in {a, b} : m >= y
  OBVIOUS
<1>2. \A x \in {a, b} : (\A y \in {a, b} : x >= y) => x = m
  OBVIOUS
<1> HIDE DEF m
<1>3. Max({a, b}) = m
  BY <1>1, <1>2 DEF Max
<1> QED BY <1>3 DEF m

LEMMA MinOfTwo ==
  ASSUME NEW a \in Int, NEW b \in Int
  PROVE  Min({a, b}) = IF a <= b THEN a ELSE b
<1> DEFINE m == IF a <= b THEN a ELSE b
<1>1. m \in {a, b} /\ \A y \in {a, b} : m <= y
  OBVIOUS
<1>2. \A x \in {a, b} : (\A y \in {a, b} : x <= y) => x = m
  OBVIOUS
<1> HIDE DEF m
<1>3. Min({a, b}) = m
  BY <1>1, <1>2 DEF Min
<1> QED BY <1>3 DEF m

-----------------------------------------------------------------------------
(* What split_content makes of a document.                                 *)

(* There are as many chunks as multiples of size below the length, and one *)
(* for the empty document.                                                 *)
LEMMA CountOfChunks ==
  ASSUME NEW content \in Seq(Bytes), NEW size \in Nat \ {0}
  PROVE  LET n == ChunkCount(content, size) IN
         /\ n \in Nat \ {0}
         /\ (n - 1) * size < Len(content) \/ n = 1
         /\ Len(content) <= n * size
<1> DEFINE l == Len(content)
           q == (l + size - 1) \div size
           n == ChunkCount(content, size)
<1>1. l \in Nat /\ l + size - 1 \in Nat
  OBVIOUS
<1>2. q \in Nat /\ q * size \in Nat
      /\ q * size <= l + size - 1 /\ l + size - 1 < q * size + size
  <2>1. (l + size - 1) % size \in 0..(size - 1)
        /\ l + size - 1 = q * size + ((l + size - 1) % size) /\ q \in Nat
    BY <1>1, Division
  <2> DEFINE m == q * size
             r == (l + size - 1) % size
  <2>2. m \in Nat
    BY <2>1
  <2> HIDE DEF q, l
  <2> HIDE DEF m, r
  <2>3. r \in 0..(size - 1) /\ l + size - 1 = m + r /\ q \in Nat /\ l \in Nat
    BY <1>1, <2>1 DEF m, r
  <2>4. m <= l + size - 1 /\ l + size - 1 < m + size
    BY <2>2, <2>3
  <2> QED BY <2>2, <2>3, <2>4 DEF m
<1>3. n = IF 1 >= q THEN 1 ELSE q
  BY <1>2, MaxOfTwo DEF ChunkCount
<1> HIDE DEF l, q, n
<1>4. CASE 1 >= q
  <2>1. n = 1 /\ q * size <= size
    <3>1. q = 0 \/ q = 1
      BY <1>2, <1>4
    <3> QED BY <1>3, <1>4, <3>1
  <2>2. l <= size /\ n * size = size
    BY <1>1, <1>2, <2>1
  <2> QED BY <1>1, <2>1, <2>2 DEF l, n
<1>5. CASE ~(1 >= q)
  <2>1. n = q /\ (n - 1) * size = q * size - size
    BY <1>2, <1>3, <1>5
  <2>2. n \in Nat \ {0} /\ (n - 1) * size < l /\ l <= n * size
    BY <1>1, <1>2, <1>5, <2>1
  <2> QED BY <2>2 DEF l, n
<1> QED BY <1>4, <1>5

(* The chunk number k, from 0 as chunk_index is, holds what stands from    *)
(* byte k * size on.                                                       *)
PieceLength(content, size, k) ==
  IF k * size + size <= Len(content) THEN size ELSE Len(content) - k * size

LEMMA PiecesOfContent ==
  ASSUME NEW content \in Seq(Bytes), NEW size \in Nat \ {0}
  PROVE  LET n == ChunkCount(content, size)
             cut == split_content(content, size) IN
         /\ n \in Nat \ {0} /\ cut \in Seq(Seq(Bytes)) /\ Len(cut) = n
         /\ \A k \in 0..(n - 1) :
              /\ k * size \in Nat /\ k * size <= Len(content)
              /\ cut[k + 1] \in Seq(Bytes)
              /\ Len(cut[k + 1]) = PieceLength(content, size, k)
              /\ \A i \in 1..Len(cut[k + 1]) :
                   k * size + i \in 1..Len(content) /\ cut[k + 1][i] = content[k * size + i]
<1> DEFINE l == Len(content)
           n == ChunkCount(content, size)
           cut == split_content(content, size)
<1>1. n \in Nat \ {0} /\ ((n - 1) * size < l \/ n = 1) /\ l \in Nat
  BY CountOfChunks
<1> HIDE DEF n
<1>2. ASSUME NEW k \in 0..(n - 1)
      PROVE  /\ k * size \in Nat /\ k * size <= l
             /\ ((k + 1) - 1) * size + 1 = k * size + 1
             /\ Min({(k + 1) * size, l}) = k * size + PieceLength(content, size, k)
             /\ PieceLength(content, size, k) \in Nat
             /\ k * size + PieceLength(content, size, k) <= l
  <2>1. k * size \in Nat /\ (k + 1) * size = k * size + size
    BY <1>1
  <2>2. k * size <= l
    <3>1. CASE k = n - 1
      BY <1>1, <2>1, <3>1
    <3>2. CASE k < n - 1
      <4>1. k * size + size <= (n - 1) * size
        BY <1>1, <3>2, Multiples
      <4>2. (n - 1) * size < l
        BY <1>1, <3>2
      <4>3. (n - 1) * size \in Nat
        BY <1>1
      <4> QED BY <1>1, <2>1, <4>1, <4>2, <4>3
    <3> QED BY <1>1, <3>1, <3>2
  <2>3. Min({(k + 1) * size, l}) = IF (k + 1) * size <= l THEN (k + 1) * size ELSE l
    BY <1>1, <2>1, MinOfTwo
  <2>4. ((k + 1) - 1) * size + 1 = k * size + 1
    BY <1>1, <2>1
  <2> DEFINE m == k * size
             p == PieceLength(content, size, k)
  <2>5. p = IF m + size <= l THEN size ELSE l - m
    BY DEF PieceLength
  <2> HIDE DEF l, m, p
  <2>6. m \in Nat /\ (k + 1) * size = m + size /\ m <= l
    BY <2>1, <2>2 DEF m
  <2>7. Min({(k + 1) * size, l}) = IF m + size <= l THEN m + size ELSE l
    BY <2>3, <2>6
  <2>8. p \in Nat /\ m + p <= l /\ Min({(k + 1) * size, l}) = m + p
    BY <1>1, <2>5, <2>6, <2>7
  <2> QED BY <2>4, <2>6, <2>8 DEF m, p
<1>3. cut = [i \in 1..n |-> SubSeq(content, (i - 1) * size + 1, Min({i * size, l}))]
  BY DEF split_content, n
<1> HIDE DEF cut
<1>4. ASSUME NEW k \in 0..(n - 1)
      PROVE  /\ cut[k + 1] \in Seq(Bytes)
             /\ Len(cut[k + 1]) = PieceLength(content, size, k)
             /\ \A i \in 1..Len(cut[k + 1]) :
                  k * size + i \in 1..l /\ cut[k + 1][i] = content[k * size + i]
  <2> DEFINE m == k * size
             p == PieceLength(content, size, k)
  <2>1. m \in Nat /\ p \in Nat /\ m + p <= l
    BY <1>2
  <2>2. cut[k + 1] = SubSeq(content, m + 1, m + p)
    <3>1. k + 1 \in 1..n
      BY <1>1
    <3>2. \A i \in 1..n : cut[i] = SubSeq(content, (i - 1) * size + 1, Min({i * size, l}))
      BY <1>3, Zenon
    <3>3. cut[k + 1] = SubSeq(content, ((k + 1) - 1) * size + 1, Min({(k + 1) * size, l}))
      BY <3>1, <3>2, Zenon
    <3> QED BY <1>2, <3>3
  <2> HIDE DEF m, p
  <2>3. \A i \in (m + 1)..(m + p) : content[i] \in Bytes
    BY <1>1, <2>1
  <2>4. /\ SubSeq(content, m + 1, m + p) \in Seq(Bytes)
        /\ Len(SubSeq(content, m + 1, m + p)) = IF m + 1 <= m + p THEN (m + p) - (m + 1) + 1 ELSE 0
        /\ \A i \in 1..((m + p) - (m + 1) + 1) :
             SubSeq(content, m + 1, m + p)[i] = content[(m + 1) + i - 1]
    <3>1. m + 1 \in Int /\ m + p \in Int
      BY <2>1
    <3> QED BY <2>3, <3>1, SubSeqProperties
  <2>5. Len(cut[k + 1]) = p
    BY <2>1, <2>2, <2>4
  <2>6. \A i \in 1..p : m + i \in 1..l /\ cut[k + 1][i] = content[m + i]
    BY <1>1, <2>1, <2>2, <2>4
  <2> QED BY <2>2, <2>4, <2>5, <2>6 DEF m, p
<1>5. cut \in Seq(Seq(Bytes)) /\ Len(cut) = n
  <2>1. \A i \in 1..n : cut[i] \in Seq(Bytes)
    <3> SUFFICES ASSUME NEW i \in 1..n PROVE cut[i] \in Seq(Bytes)
      OBVIOUS
    <3>1. i - 1 \in 0..(n - 1) /\ (i - 1) + 1 = i
      BY <1>1
    <3> QED BY <1>4, <3>1
  <2>2. cut \in [1..n -> Seq(Bytes)]
    BY <1>3, <2>1, Zenon
  <2> QED BY <1>1, <2>2
<1> QED BY <1>1, <1>2, <1>4, <1>5 DEF n, cut

-----------------------------------------------------------------------------
(* The inductive invariant.                                                *)

DocumentType == [id : DocumentIds, by : Backends, content : Contents, size : Nat \ {0}]

Piece(d, k) == [document |-> d.id, index |-> k, content |-> Cut(d)[k + 1]]
Pieces(d, n) == {Piece(d, k) : k \in 0..(n - 1)}
AllPieces(d) == Pieces(d, Len(Cut(d)))

(* What is found is documents to their last chunk, and nothing else.       *)
Whole(found, docs) ==
  /\ docs \subseteq DocumentType /\ IsFiniteSet(found)
  /\ \A d, e \in docs : d.id = e.id => d = e
  /\ \A c \in found : \E d \in docs : d.id = c.document
  /\ \A d \in docs : {c \in found : c.document = d.id} = AllPieces(d)

IsSearch(s) ==
  /\ s.query \in Queries
  /\ Whole(s.seen, s.of) /\ s.rows \subseteq s.seen
  /\ s.answered =>
       /\ s.limit \in Nat /\ Cardinality(s.rows) = Min({s.limit, Cardinality(s.seen)})
       /\ \A c \in s.rows, d \in s.seen \ s.rows : ~Before(s.query, d, c)
  /\ ~s.answered /\ s.limit >= 0 => \E c \in s.seen : ~IsText(c.content)

Identified ==
  /\ \A d, e \in documents : d.id = e.id => d = e
  /\ \A d \in documents : d.id <= serial
  /\ \A c \in chunks : \E d \in documents : d.id = c.document
  /\ IsFiniteSet(chunks)

BeingAdded(d) == pc[d.by] = "chunks" /\ adding[d.by] = d.id

Adders ==
  \A b \in Backends : pc[b] = "chunks" =>
    \E d \in documents :
      /\ d.id = adding[b] /\ d.by = b /\ d.id \notin committed
      /\ \E n \in 0..(Len(Cut(d)) - 1) : ChunksOf(d.id) = Pieces(d, n)

Added == \A d \in documents : ~BeingAdded(d) => ChunksOf(d.id) = AllPieces(d)

Searches == \A s \in searches : IsSearch(s)

KnowledgeInv == TypeOK /\ Identified /\ Adders /\ Added /\ Searches

-----------------------------------------------------------------------------
(* What whole documents are good for.                                      *)

LEMMA PieceFacts ==
  ASSUME NEW d \in DocumentType
  PROVE  /\ d.content \in Contents /\ d.content \in Seq(Bytes) /\ d.size \in Nat \ {0}
         /\ d.id \in DocumentIds /\ d.by \in Backends
         /\ Len(Cut(d)) \in Nat \ {0} /\ Len(Cut(d)) = ChunkCount(d.content, d.size)
         /\ \A k \in 0..(Len(Cut(d)) - 1) :
              /\ k * d.size \in Nat /\ k * d.size <= Len(d.content)
              /\ Piece(d, k) \in Chunk
              /\ Piece(d, k).document = d.id /\ Piece(d, k).index = k
              /\ Piece(d, k).content \in Seq(Bytes)
              /\ Len(Piece(d, k).content) = PieceLength(d.content, d.size, k)
              /\ \A i \in 1..Len(Piece(d, k).content) :
                   /\ k * d.size + i \in 1..Len(d.content)
                   /\ Piece(d, k).content[i] = d.content[k * d.size + i]
<1>1. /\ d.content \in Contents /\ d.content \in Seq(Bytes) /\ d.size \in Nat \ {0}
      /\ d.id \in DocumentIds /\ d.by \in Backends
  BY KnowledgeAssumption DEF DocumentType
<1>2. Cut(d) = split_content(d.content, d.size)
  BY DEF Cut
<1> DEFINE n == ChunkCount(d.content, d.size)
           cut == split_content(d.content, d.size)
<1>3. /\ n \in Nat \ {0} /\ cut \in Seq(Seq(Bytes)) /\ Len(cut) = n
      /\ \A k \in 0..(n - 1) :
           /\ k * d.size \in Nat /\ k * d.size <= Len(d.content)
           /\ cut[k + 1] \in Seq(Bytes)
           /\ Len(cut[k + 1]) = PieceLength(d.content, d.size, k)
           /\ \A i \in 1..Len(cut[k + 1]) :
                k * d.size + i \in 1..Len(d.content) /\ cut[k + 1][i] = d.content[k * d.size + i]
  BY <1>1, PiecesOfContent, Zenon
<1> HIDE DEF n, cut
<1>4. ASSUME NEW k \in 0..(n - 1)
      PROVE  /\ Piece(d, k) = [document |-> d.id, index |-> k, content |-> cut[k + 1]]
             /\ Piece(d, k).document = d.id /\ Piece(d, k).index = k
             /\ Piece(d, k).content = cut[k + 1]
             /\ Piece(d, k) \in Chunk
  <2>1. Piece(d, k) = [document |-> d.id, index |-> k, content |-> cut[k + 1]]
    BY <1>2 DEF Piece, cut
  <2>2. k \in Nat /\ cut[k + 1] \in Seq(Bytes)
    BY <1>3
  <2> QED BY <1>1, <2>1, <2>2 DEF Chunk
<1>5. Len(Cut(d)) = n
  BY <1>2, <1>3 DEF cut
<1>6. ASSUME NEW k \in 0..(n - 1)
      PROVE  /\ k * d.size \in Nat /\ k * d.size <= Len(d.content)
             /\ Piece(d, k) \in Chunk
             /\ Piece(d, k).document = d.id /\ Piece(d, k).index = k
             /\ Piece(d, k).content \in Seq(Bytes)
             /\ Len(Piece(d, k).content) = PieceLength(d.content, d.size, k)
             /\ \A i \in 1..Len(Piece(d, k).content) :
                  /\ k * d.size + i \in 1..Len(d.content)
                  /\ Piece(d, k).content[i] = d.content[k * d.size + i]
  <2>1. Piece(d, k).content = cut[k + 1]
    BY <1>4
  <2>2. /\ k * d.size \in Nat /\ k * d.size <= Len(d.content)
        /\ cut[k + 1] \in Seq(Bytes)
        /\ Len(cut[k + 1]) = PieceLength(d.content, d.size, k)
        /\ \A i \in 1..Len(cut[k + 1]) :
             k * d.size + i \in 1..Len(d.content) /\ cut[k + 1][i] = d.content[k * d.size + i]
    BY <1>3, Zenon
  <2> QED BY <1>4, <2>1, <2>2, Zenon
<1>7. n \in Nat \ {0}
  BY <1>3
<1> QED BY <1>1, <1>5, <1>6, <1>7, Zenon DEF n

(* Byte k + 1 of a document stands in the chunk number k \div size.        *)
LEMMA ByteInPiece ==
  ASSUME NEW d \in DocumentType, NEW k \in Nat, k < Len(d.content)
  PROVE  LET q == k \div d.size
             r == k % d.size IN
         /\ q \in 0..(Len(Cut(d)) - 1) /\ r \in 0..(d.size - 1) /\ k = q * d.size + r
         /\ r + 1 \in 1..Len(Piece(d, q).content)
         /\ Piece(d, q).content[r + 1] = d.content[k + 1]
<1> DEFINE q == k \div d.size
           r == k % d.size
           n == Len(Cut(d))
           l == Len(d.content)
           z == d.size
           m == q * z
<1>1. z \in Nat \ {0} /\ d.content \in Seq(Bytes) /\ n \in Nat \ {0} /\ l \in Nat
  BY PieceFacts
<1>2. q \in Nat /\ r \in 0..(z - 1) /\ k = m + r
  BY <1>1, Division
<1>3. m \in Nat
  <2> HIDE DEF q, z
  <2> QED BY <1>1, <1>2
<1>4. l <= n * z
  BY <1>1, CountOfChunks, PieceFacts
<1> HIDE DEF q, r, l, z
<1>5. q < n
  <2>1. CASE q = n
    <3>1. l <= m
      BY <1>4, <2>1
    <3> HIDE DEF m
    <3> QED BY <1>1, <1>2, <1>3, <3>1 DEF l
  <2>2. CASE n < q
    <3>1. n * z + z <= m
      BY <1>1, <1>2, <2>2, Multiples
    <3>2. n * z \in Nat
      BY <1>1
    <3>3. l <= m
      <4> HIDE DEF n, m
      <4> DEFINE nz == n * z
      <4>1. nz \in Nat /\ nz + z <= m /\ l <= nz
        BY <1>4, <3>1, <3>2
      <4> HIDE DEF nz
      <4> QED BY <1>1, <1>3, <4>1
    <3> HIDE DEF m
    <3> QED BY <1>1, <1>2, <1>3, <3>3 DEF l
  <2> QED BY <1>1, <1>2, <2>1, <2>2
<1>6. q \in 0..(n - 1)
  BY <1>1, <1>2, <1>5
<1>7. /\ Len(Piece(d, q).content) = PieceLength(d.content, z, q)
      /\ \A i \in 1..Len(Piece(d, q).content) : Piece(d, q).content[i] = d.content[m + i]
  BY <1>6, PieceFacts DEF z
<1>8. PieceLength(d.content, z, q) = IF m + z <= l THEN z ELSE l - m
  BY DEF PieceLength, l
<1> HIDE DEF n, m
<1>9. r + 1 \in 1..Len(Piece(d, q).content)
  <2> DEFINE p == Len(Piece(d, q).content)
  <2>1. p = IF m + z <= l THEN z ELSE l - m
    BY <1>7, <1>8
  <2>2. m + r < l
    BY <1>2 DEF l
  <2> HIDE DEF p
  <2>3. r + 1 \in 1..p
    BY <1>1, <1>2, <1>3, <2>1, <2>2
  <2> QED BY <2>3 DEF p
<1>10. Piece(d, q).content[r + 1] = d.content[k + 1]
  <2>1. m + (r + 1) = k + 1
    BY <1>1, <1>2, <1>3
  <2> QED BY <1>7, <1>9, <2>1
<1> QED BY <1>2, <1>6, <1>9, <1>10 DEF q, r, n, z, m

LEMMA WholeHasPieces ==
  ASSUME NEW found, NEW docs, Whole(found, docs), NEW d \in docs
  PROVE  /\ d \in DocumentType
         /\ \A k \in 0..(Len(Cut(d)) - 1) : Piece(d, k) \in found
         /\ \A c \in found : c.document = d.id =>
              \E k \in 0..(Len(Cut(d)) - 1) : c = Piece(d, k)
<1>1. d \in DocumentType /\ {c \in found : c.document = d.id} = AllPieces(d)
  BY DEF Whole
<1>2. AllPieces(d) = {Piece(d, k) : k \in 0..(Len(Cut(d)) - 1)}
  BY DEF AllPieces, Pieces
<1> QED BY <1>1, <1>2, Zenon

(* A search sees of each document either nothing or the chunks that make   *)
(* its content.                                                            *)
MakesByte(c, seen, d, k) ==
  /\ c.document = d.id /\ c.index = k \div d.size
  /\ \A x \in seen : x.document = d.id /\ x.index = k \div d.size => x = c
  /\ c.content[(k % d.size) + 1] = d.content[k + 1]

LEMMA WholeMakesContent ==
  ASSUME NEW s, Whole(s.seen, s.of), NEW d \in s.of,
         NEW k \in 0..(Len(d.content) - 1)
  PROVE  \E c \in s.seen : MakesByte(c, s.seen, d, k)
<1> DEFINE q == k \div d.size
<1>1. d \in DocumentType
  BY WholeHasPieces
<1>2. k \in Nat /\ k < Len(d.content)
  BY <1>1, PieceFacts
<1>3. q \in 0..(Len(Cut(d)) - 1) /\ Piece(d, q).content[(k % d.size) + 1] = d.content[k + 1]
  BY <1>1, <1>2, ByteInPiece
<1> HIDE DEF q
<1>4. Piece(d, q) \in s.seen /\ Piece(d, q).document = d.id /\ Piece(d, q).index = q
  BY <1>1, <1>3, PieceFacts, WholeHasPieces
<1>5. ASSUME NEW c \in s.seen, c.document = d.id, c.index = q
      PROVE  c = Piece(d, q)
  <2>1. PICK j \in 0..(Len(Cut(d)) - 1) : c = Piece(d, j)
    BY <1>5, WholeHasPieces
  <2>2. c.index = j
    BY <1>1, <2>1, PieceFacts
  <2> QED BY <1>5, <2>1, <2>2
<1>6. MakesByte(Piece(d, q), s.seen, d, k)
  BY <1>3, <1>4, <1>5, Zenon DEF q, MakesByte
<1> QED BY <1>4, <1>6

(* Where the bytes of a word are.                                          *)
LEMMA BytesOf ==
  \A text \in Seq(Bytes) : \A t \in 1..Len(text) : text[t] \in Bytes
OBVIOUS

LEMMA WithinBytes ==
  \A i, w, l \in Nat : i >= 1 /\ i + w - 1 <= l => i..(i + w - 1) \subseteq 1..l
OBVIOUS

LEMMA LastByte ==
  \A i, w, l \in Nat : i >= 1 /\ w # 0 /\ i + w - 1 <= l =>
    i + w - 2 \in Nat /\ i + w - 2 < l /\ i + w - 2 = i + w - 1 - 1
OBVIOUS

LEMMA LastOffset ==
  \A i, w, m, r, s \in Int : i - 1 = m + r /\ i + w - 2 = m + s => s + 1 = r + w
OBVIOUS

(* Words that no border of chunks runs through stand in a chunk.           *)
LEMMA WordsInPiece ==
  ASSUME NEW d \in DocumentType, NEW query \in Seq(Bytes),
         NEW i \in 1..Len(d.content), Stands(query, d.content, i),
         (i - 1) \div d.size = (i + Len(query) - 2) \div d.size
  PROVE  LET k == (i - 1) \div d.size IN
         /\ k \in 0..(Len(Cut(d)) - 1)
         /\ \E j \in 1..Len(Piece(d, k).content) : Stands(query, Piece(d, k).content, j)
<1> DEFINE l == Len(d.content)
           w == Len(query)
           q == (i - 1) \div d.size
           r == (i - 1) % d.size
           p == Piece(d, q).content
           m == q * d.size
<1>1. l \in Nat /\ w \in Nat /\ d.content \in Seq(Bytes) /\ d.size \in Nat \ {0}
  BY PieceFacts
<1>2. /\ q \in 0..(Len(Cut(d)) - 1) /\ r \in Nat /\ i - 1 = m + r
      /\ r + 1 \in 1..Len(p)
  <2>1. i - 1 \in Nat /\ i - 1 < l
    BY <1>1
  <2>2. r \in 0..(d.size - 1)
    BY <1>1, <2>1, Division
  <2> QED BY <1>1, <2>1, <2>2, ByteInPiece
<1>3. /\ p \in Seq(Bytes) /\ m \in Nat
      /\ \A j \in 1..Len(p) : p[j] = d.content[m + j]
  <2> HIDE DEF q
  <2> QED BY <1>2, PieceFacts
<1> HIDE DEF q, r, p, m
<1>8. i \in Nat /\ w \in Nat /\ l \in Nat /\ i >= 1 /\ i + w - 1 <= l
  <2>1. i + w - 1 <= l /\ i \in 1..l
    BY Zenon DEF Stands
  <2>2. w \in Nat /\ l \in Nat
    BY <1>1, Zenon
  <2> HIDE DEF w, l
  <2>3. i \in Nat /\ i >= 1
    BY <2>1, <2>2
  <2> QED BY <2>1, <2>2, <2>3, Zenon
<1>4. r + w <= Len(p)
  <2>1. CASE w = 0
    BY <1>1, <1>2, <1>3, <2>1
  <2>2. CASE w # 0
    <3> DEFINE e == i + w - 2
               r2 == e % d.size
    <3>0. e \in Nat /\ e < l
      <4> HIDE DEF w, l
      <4> QED BY <1>8, <2>2, LastByte, Zenon
    <3>1. (e \div d.size) = q
      <4>1. (i - 1) \div d.size = (i + w - 2) \div d.size
        OBVIOUS
      <4> HIDE DEF e, w
      <4> QED BY <4>1, Zenon DEF q, e
    <3> HIDE DEF e
    <3>2. r2 \in Nat
      <4>1. r2 \in 0..(d.size - 1)
        BY <1>1, <3>0, Division
      <4> QED BY <1>1, <4>1
    <3>3. e = m + r2 /\ r2 + 1 \in 1..Len(p)
      BY <1>1, <3>0, <3>1, ByteInPiece DEF m, p
    <3> HIDE DEF r2
    <3>4. e = i + w - 2
      BY DEF e
    <3>5. r2 + 1 = r + w
      <4>1. i \in Int /\ i - 1 = m + r
        BY <1>1, <1>2
      <4>2. i + w - 2 = m + r2
        BY <3>3, <3>4, Zenon
      <4>3. m \in Int /\ r \in Int /\ r2 \in Int /\ w \in Int
        BY <1>1, <1>2, <1>3, <3>2
      <4> HIDE DEF w
      <4> QED BY <4>1, <4>2, <4>3, LastOffset
    <3> QED BY <1>3, <3>3, <3>5
  <2> QED BY <2>1, <2>2
<1>5. \A t \in 1..w : SameByte(d.content[i + t - 1], query[t])
  BY DEF Stands
<1>6. ASSUME NEW t \in 1..w PROVE SameByte(p[(r + 1) + t - 1], query[t])
  <2>1. r + t \in 1..Len(p) /\ m + (r + t) = i + t - 1 /\ (r + 1) + t - 1 = r + t
    BY <1>1, <1>2, <1>3, <1>4
  <2> QED BY <1>3, <1>5, <2>1
<1>7. Stands(query, p, r + 1)
  <2>1. (r + 1) + w - 1 <= Len(p)
    BY <1>1, <1>2, <1>3, <1>4
  <2> QED BY <1>6, <2>1 DEF Stands
<1> QED BY <1>2, <1>7 DEF p, q

-----------------------------------------------------------------------------
(* What ILIKE finds of words without special bytes.                        *)

LEMMA SmallestOf ==
  ASSUME NEW T, T \subseteq Nat, T # {}
  PROVE  \E x \in T : \A y \in T : x <= y
<1> DEFINE R == OpToRel(<, Nat)
<1>1. IsWellFoundedOn(R, Nat)
  BY NatLessThanWellFounded, Zenon
<1>2. \A x, y \in T : y < x => <<y, x>> \in R
  <2> SUFFICES ASSUME NEW x \in T, NEW y \in T, y < x PROVE <<y, x>> \in R
    OBVIOUS
  <2>1. <<y, x>> \in Nat \X Nat /\ <<y, x>>[1] < <<y, x>>[2]
    OBVIOUS
  <2> QED BY <2>1, Zenon DEF OpToRel
<1> HIDE DEF R
<1>3. PICK x \in T : \A y \in T : <<y, x>> \notin R
  BY <1>1, WFMin, Zenon
<1>4. \A y \in T : ~(y < x)
  BY <1>2, <1>3, Zenon
<1> QED BY <1>4

(* A cut that advances by one with every item counts them.                 *)
LEMMA Advances ==
  ASSUME NEW n \in Nat, NEW c \in [1..(n + 1) -> Nat],
         \A k \in 1..n : c[k + 1] = c[k] + 1
  PROVE  \A k \in 0..n : c[k + 1] = c[1] + k
<1> DEFINE T == {k \in 0..n : c[k + 1] # c[1] + k}
<1>1. CASE T = {}
  BY <1>1
<1>2. CASE T # {}
  <2>1. PICK k \in T : \A y \in T : k <= y
    <3>1. T \subseteq Nat
      OBVIOUS
    <3> HIDE DEF T
    <3> QED BY <1>2, <3>1, SmallestOf
  <2>2. k \in 0..n /\ c[k + 1] # c[1] + k
    OBVIOUS
  <2>3. k # 0
    <3>1. c[1] \in Nat
      OBVIOUS
    <3> QED BY <2>2, <3>1
  <2>4. k - 1 \in 0..n /\ k - 1 \notin T
    BY <2>1, <2>2, <2>3
  <2>5. c[(k - 1) + 1] = c[1] + (k - 1)
    BY <2>4
  <2>6. k \in 1..n /\ (k - 1) + 1 = k
    BY <2>2, <2>3
  <2>7. c[k + 1] = c[k] + 1
    BY <2>6
  <2>8. c[1] \in Nat
    OBVIOUS
  <2> QED BY <2>2, <2>5, <2>6, <2>7, <2>8
<1> QED BY <1>1, <1>2

(* The pattern of a plain query is a percent, its bytes, and a percent.    *)
LEMMA PlainPattern ==
  ASSUME NEW query \in Seq(Bytes), Plain(query)
  PROVE  LET n == Len(query)
             pattern == Pattern(query) IN
         /\ n \in Nat /\ Len(pattern) = n + 2
         /\ pattern[1] = "percent" /\ pattern[n + 2] = "percent"
         /\ \A j \in 1..n : pattern[j + 1] = query[j] /\ pattern[j + 1] \notin Specials
         /\ \A i \in 1..(n + 2) : ~Escaped(pattern, i)
<1> DEFINE n == Len(query)
           pattern == Pattern(query)
<1>1. /\ n \in Nat /\ Len(pattern) = n + 2
      /\ pattern[1] = "percent" /\ pattern[n + 2] = "percent"
      /\ \A j \in 1..n : pattern[j + 1] = query[j]
  BY DEF Pattern
<1> HIDE DEF pattern, n
<1>2. \A j \in 1..n : pattern[j + 1] \notin Specials
  BY <1>1 DEF Plain, n
<1>3. \A k \in 1..(n + 2) : pattern[k] # "backslash"
  <2> SUFFICES ASSUME NEW k \in 1..(n + 2) PROVE pattern[k] # "backslash"
    OBVIOUS
  <2>1. CASE k = 1 \/ k = n + 2
    BY <1>1, <2>1
  <2>2. CASE k # 1 /\ k # n + 2
    <3>1. k - 1 \in 1..n /\ (k - 1) + 1 = k
      BY <1>1, <2>2
    <3> QED BY <1>2, <3>1 DEF Specials
  <2> QED BY <2>1, <2>2
<1>4. ASSUME NEW i \in 1..(n + 2) PROVE ~Escaped(pattern, i)
  <2> DEFINE B == {j \in 1..(i - 1) : \A k \in j..(i - 1) : pattern[k] = "backslash"}
  <2>1. B = {}
    <3> SUFFICES ASSUME NEW j \in 1..(i - 1), \A k \in j..(i - 1) : pattern[k] = "backslash"
                 PROVE  FALSE
      OBVIOUS
    <3>1. i - 1 \in j..(i - 1) /\ i - 1 \in 1..(n + 2)
      BY <1>1
    <3> QED BY <1>3, <3>1
  <2>2. Cardinality(B) = 0
    BY <2>1, FS_EmptySet
  <2> HIDE DEF B
  <2>3. Cardinality(B) % 2 # 1
    BY <2>2
  <2> QED BY <2>3 DEF Escaped, B
<1> QED BY <1>1, <1>2, <1>4 DEF pattern, n

(* What its items take.                                                    *)
LEMMA PlainTakes ==
  ASSUME NEW query \in Seq(Bytes), Plain(query), NEW text, NEW from, NEW to
  PROVE  /\ from <= to => Takes(Pattern(query), 1, text, from, to)
         /\ from <= to => Takes(Pattern(query), Len(query) + 2, text, from, to)
         /\ \A j \in 1..Len(query) :
              /\ Takes(Pattern(query), j + 1, text, from, to) =>
                   to = from + 1 /\ SameByte(text[to], query[j])
              /\ to = from + 1 /\ SameByte(text[to], query[j]) =>
                   Takes(Pattern(query), j + 1, text, from, to)
<1> DEFINE n == Len(query)
           pattern == Pattern(query)
<1>1. /\ n \in Nat
      /\ pattern[1] = "percent" /\ pattern[n + 2] = "percent"
      /\ \A j \in 1..n : pattern[j + 1] = query[j] /\ pattern[j + 1] \notin Specials
      /\ \A i \in 1..(n + 2) : ~Escaped(pattern, i)
  BY PlainPattern
<1> HIDE DEF pattern, n
<1>2. 1 \in 1..(n + 2) /\ n + 2 \in 1..(n + 2) /\ \A j \in 1..n : j + 1 \in 1..(n + 2)
  BY <1>1
<1>3. "percent" \in Specials
  BY DEF Specials
<1>4. \A i : pattern[i] = "percent" /\ ~Escaped(pattern, i) =>
        (from <= to => Takes(pattern, i, text, from, to))
  BY <1>3 DEF Takes, Means
<1>5. \A i : pattern[i] \notin Specials /\ ~Escaped(pattern, i) =>
        (Takes(pattern, i, text, from, to) <=>
           (to = from + 1 /\ SameByte(text[to], pattern[i])))
  BY DEF Takes, Means, Specials
<1>6. from <= to => Takes(pattern, 1, text, from, to)
  BY <1>1, <1>2, <1>4
<1>7. from <= to => Takes(pattern, n + 2, text, from, to)
  BY <1>1, <1>2, <1>4
<1>8. \A j \in 1..n : Takes(pattern, j + 1, text, from, to) <=>
                        (to = from + 1 /\ SameByte(text[to], query[j]))
  BY <1>1, <1>2, <1>5
<1> QED BY <1>6, <1>7, <1>8, Zenon DEF pattern, n

LEMMA EndsTake ==
  ASSUME NEW query \in Seq(Bytes), Plain(query), NEW text, NEW from, NEW to, from <= to,
         NEW i, i = 1 \/ i = Len(query) + 2
  PROVE  Takes(Pattern(query), i, text, from, to)
<1>1. /\ Takes(Pattern(query), 1, text, from, to)
      /\ Takes(Pattern(query), Len(query) + 2, text, from, to)
  BY PlainTakes
<1>2. CASE i = 1
  BY <1>1, <1>2
<1>3. CASE i = Len(query) + 2
  BY <1>1, <1>3
<1> QED BY <1>2, <1>3

(* ILIKE finds words without special bytes where they stand, and nowhere   *)
(* else.                                                                   *)
LEMMA HitStands ==
  ASSUME NEW query \in Seq(Bytes), Plain(query), NEW text \in Seq(Bytes), Hit(query, text)
  PROVE  \E k \in 1..(Len(text) + 1) : Stands(query, text, k)
<1> DEFINE n == Len(query)
           l == Len(text)
           pattern == Pattern(query)
<1>1. n \in Nat /\ l \in Nat /\ Len(pattern) = n + 2
  BY PlainPattern
<1>2. PICK cut \in [1..(n + 1) -> 0..l] :
        LET At(i) == IF i = 0 THEN 0 ELSE IF i = n + 2 THEN l ELSE cut[i]
        IN \A i \in 1..(n + 2) : Takes(pattern, i, text, At(i - 1), At(i))
  <2>1. Len(pattern) - 1 = n + 1
    BY <1>1
  <2> QED BY <1>1, <2>1, Zenon DEF Hit, ILike
<1> HIDE DEF pattern, n, l
<1>3. ASSUME NEW j \in 1..n
      PROVE  cut[j + 1] = cut[j] + 1 /\ SameByte(text[cut[j + 1]], query[j])
  <2>1. /\ j + 1 \in 1..(n + 2) /\ (j + 1) - 1 = j
        /\ j # 0 /\ j # n + 2 /\ j + 1 # 0 /\ j + 1 # n + 2
    BY <1>1
  <2>2. Takes(pattern, j + 1, text, cut[j], cut[j + 1])
    BY <1>2, <2>1
  <2> DEFINE from == cut[j]
             to == cut[j + 1]
  <2>3. Takes(Pattern(query), j + 1, text, from, to) /\ j \in 1..Len(query)
    BY <2>2 DEF pattern, n
  <2> HIDE DEF from, to
  <2>4. to = from + 1 /\ SameByte(text[to], query[j])
    BY <2>3, PlainTakes, Zenon
  <2> QED BY <2>4 DEF from, to
<1>4. cut \in [1..(n + 1) -> Nat]
  BY <1>1
<1>5. \A k \in 1..n : cut[k + 1] = cut[k] + 1
  BY <1>3
<1>6. \A k \in 0..n : cut[k + 1] = cut[1] + k
  BY <1>1, <1>4, <1>5, Advances
<1>7. cut[1] \in 0..l /\ cut[n + 1] \in 0..l /\ cut[n + 1] = cut[1] + n
  BY <1>1, <1>6
<1>8. (cut[1] + 1) + n - 1 <= l /\ cut[1] + 1 \in 1..(l + 1)
  <2>1. PICK x \in 0..l : x = cut[1] /\ x + n \in 0..l
    BY <1>7
  <2>2. (x + 1) + n - 1 = x + n /\ x + n <= l /\ x + 1 \in 1..(l + 1)
    BY <1>1, <2>1, SMT
  <2> QED BY <2>1, <2>2
<1>9. \A j \in 1..n : SameByte(text[(cut[1] + 1) + j - 1], query[j])
  <2> SUFFICES ASSUME NEW j \in 1..n PROVE SameByte(text[(cut[1] + 1) + j - 1], query[j])
    OBVIOUS
  <2>1. (cut[1] + 1) + j - 1 = cut[1] + j /\ j \in 0..n
    BY <1>1, <1>7
  <2> QED BY <1>3, <1>6, <2>1
<1>10. Stands(query, text, cut[1] + 1)
  BY <1>8, <1>9 DEF Stands, n, l
<1> QED BY <1>8, <1>10 DEF l

LEMMA StandsHit ==
  ASSUME NEW query \in Seq(Bytes), Plain(query), NEW text \in Seq(Bytes),
         NEW k \in 1..(Len(text) + 1), Stands(query, text, k)
  PROVE  Hit(query, text)
<1> DEFINE n == Len(query)
           l == Len(text)
           pattern == Pattern(query)
           cut == [m \in 1..(n + 1) |-> k + m - 2]
           At(i) == IF i = 0 THEN 0 ELSE IF i = n + 2 THEN l ELSE cut[i]
<1>1. /\ n \in Nat /\ l \in Nat /\ k \in 1..(l + 1) /\ k + n - 1 <= l
      /\ Len(pattern) = n + 2 /\ Len(pattern) - 1 = n + 1
      /\ \A j \in 1..n : SameByte(text[k + j - 1], query[j])
  BY PlainPattern DEF Stands
<1> HIDE DEF pattern, n, l
<1>2. cut \in [1..(n + 1) -> 0..l]
  BY <1>1
<1>3. At(0) = 0 /\ At(n + 2) = l /\ \A i \in 1..(n + 1) : At(i) = k + i - 2
  BY <1>1
<1> HIDE DEF At
<1>4. ASSUME NEW i \in 1..(n + 2) PROVE Takes(pattern, i, text, At(i - 1), At(i))
  <2>1. CASE i = 1
    <3>1. At(i - 1) <= At(i)
      BY <1>1, <1>3, <2>1
    <3> DEFINE from == At(i - 1)
               to == At(i)
    <3>2. from <= to
      BY <3>1
    <3> HIDE DEF from, to
    <3>3. Takes(Pattern(query), i, text, from, to)
      BY <2>1, <3>2, EndsTake, Zenon
    <3> QED BY <3>3 DEF pattern, from, to
  <2>2. CASE i = n + 2
    <3>1. At(i - 1) <= At(i)
      <4>1. i - 1 = n + 1 /\ n + 1 \in 1..(n + 1)
        BY <1>1, <2>2
      <4> QED BY <1>1, <1>3, <2>2, <4>1
    <3> DEFINE from == At(i - 1)
               to == At(i)
    <3>2. from <= to /\ i = Len(query) + 2
      BY <2>2, <3>1 DEF n
    <3> HIDE DEF from, to
    <3>3. Takes(Pattern(query), i, text, from, to)
      BY <3>2, EndsTake, Zenon
    <3> QED BY <3>3 DEF pattern, from, to
  <2>3. CASE i # 1 /\ i # n + 2
    <3> DEFINE j == i - 1
    <3>1. j \in 1..n /\ i = j + 1 /\ j \in 1..(n + 1) /\ j + 1 \in 1..(n + 1)
      BY <1>1, <2>3
    <3> HIDE DEF j
    <3>2. At(j + 1) = At(j) + 1 /\ At(j + 1) = k + j - 1
      BY <1>1, <1>3, <3>1
    <3> DEFINE from == At(j)
               to == At(j + 1)
    <3>3. to = from + 1 /\ SameByte(text[to], query[j]) /\ j \in 1..Len(query)
      BY <1>1, <3>1, <3>2 DEF n
    <3> HIDE DEF from, to
    <3>4. Takes(Pattern(query), j + 1, text, from, to)
      BY <3>3, PlainTakes, Zenon
    <3>5. At(i - 1) = from /\ At(i) = to
      BY <3>1 DEF from, to, j
    <3> QED BY <3>1, <3>4, <3>5 DEF pattern
  <2> QED BY <2>1, <2>2, <2>3
<1> HIDE DEF cut
<1>5. \A i \in 1..(n + 2) :
        Takes(pattern, i, text,
              IF i - 1 = 0 THEN 0 ELSE IF i - 1 = n + 2 THEN l ELSE cut[i - 1],
              IF i = 0 THEN 0 ELSE IF i = n + 2 THEN l ELSE cut[i])
  BY <1>4, Zenon DEF At
<1>6. \A i \in 1..Len(pattern) :
        Takes(pattern, i, text,
              IF i - 1 = 0 THEN 0 ELSE IF i - 1 = Len(pattern) THEN Len(text) ELSE cut[i - 1],
              IF i = 0 THEN 0 ELSE IF i = Len(pattern) THEN Len(text) ELSE cut[i])
  BY <1>1, <1>5, Zenon DEF l
<1>7. cut \in [1..(Len(pattern) - 1) -> 0..Len(text)]
  BY <1>1, <1>2, Zenon DEF l
<1>8. ILike(text, pattern)
  BY <1>6, <1>7, Zenon DEF ILike
<1> QED BY <1>8 DEF Hit, pattern

(* The neighbours of a byte of a chunk.                                    *)
LEMMA NextInside ==
  \A n, m \in Int : \A i \in 1..n :
    i # n => i + 1 \in 1..n /\ m + (i + 1) = m + i + 1 /\ i < n
OBVIOUS

LEMMA PreviousInside ==
  \A n, m \in Int : \A i \in 1..n :
    i # 1 => i - 1 \in 1..n /\ m + (i - 1) = (m + i) - 1 /\ i > 1
OBVIOUS

(* A chunk of a text is text unless a border runs through a character.     *)
LEMMA PieceIsText ==
  ASSUME NEW d \in DocumentType, NEW k \in 0..(Len(Cut(d)) - 1),
         ~IsText(Piece(d, k).content)
  PROVE  \E i \in 1..(Len(d.content) - 1) : d.content[i] \in Leads /\ i % d.size = 0
<1> DEFINE l == Len(d.content)
           z == d.size
           text == d.content
           p == Piece(d, k).content
           m == k * d.size
<1>1. /\ l \in Nat /\ z \in Nat \ {0} /\ text \in Seq(Bytes)
      /\ m \in Nat /\ m <= l /\ k \in Nat
      /\ p \in Seq(Bytes) /\ Len(p) = PieceLength(text, z, k)
      /\ \A i \in 1..Len(p) : m + i \in 1..l /\ p[i] = text[m + i]
  BY PieceFacts
<1>2. \A i \in 1..l :
        /\ text[i] \in Leads => i < l /\ text[i + 1] \in Trails
        /\ text[i] \in Trails => i > 1 /\ text[i - 1] \in Leads
  <2>1. text \in Contents
    BY PieceFacts
  <2>2. IsText(text)
    BY <2>1, KnowledgeAssumption
  <2> HIDE DEF text
  <2>3. \A i \in 1..Len(text) :
        /\ text[i] \in Leads => i < Len(text) /\ text[i + 1] \in Trails
        /\ text[i] \in Trails => i > 1 /\ text[i - 1] \in Leads
    BY <2>2, Zenon DEF IsText
  <2> QED BY <2>3 DEF text
<1>3. PieceLength(text, z, k) = IF m + z <= l THEN z ELSE l - m
  BY DEF PieceLength
<1> HIDE DEF p
<1>4. PICK i \in 1..Len(p) :
        \/ p[i] \in Leads /\ ~(i < Len(p) /\ p[i + 1] \in Trails)
        \/ p[i] \in Trails /\ ~(i > 1 /\ p[i - 1] \in Leads)
  <2>1. ~IsText(p)
    BY DEF p
  <2> QED BY <2>1, Zenon DEF IsText
<1>5. m % z = 0 /\ (m + z) % z = 0
  <2>1. m % z = 0
    <3>1. k * z <= m /\ m < k * z + z
      <4> HIDE DEF z
      <4>1. m = k * z
        BY DEF z
      <4> HIDE DEF m
      <4> QED BY <1>1, <4>1
    <3>2. m % z = m - k * z
      <4>1. m \in Nat /\ z \in Nat \ {0} /\ k \in Nat
        BY <1>1
      <4> HIDE DEF m, z
      <4> QED BY <3>1, <4>1, QuotientIs
    <3>3. k * z = m
      OBVIOUS
    <3> HIDE DEF m, z
    <3> QED BY <1>1, <3>2, <3>3
  <2>2. (m + z) % z = 0
    <3>1. (k + 1) * z = m + z
      <4>1. z \in Nat /\ k \in Nat /\ m = k * z
        BY <1>1
      <4> HIDE DEF z, m
      <4> QED BY <4>1
    <3>2. (k + 1) \in Nat /\ m + z \in Nat /\ z \in Nat \ {0}
      BY <1>1
    <3> HIDE DEF m, z
    <3>3. (k + 1) * z <= m + z /\ m + z < (k + 1) * z + z
      <4> DEFINE x == (k + 1) * z
      <4>1. x = m + z
        BY <3>1
      <4> HIDE DEF x
      <4>2. x <= m + z /\ m + z < x + z
        BY <1>1, <3>2, <4>1
      <4> QED BY <4>2 DEF x
    <3>4. (m + z) % z = (m + z) - (k + 1) * z
      BY <3>2, <3>3, QuotientIs
    <3> QED BY <1>1, <3>1, <3>2, <3>4
  <2> QED BY <2>1, <2>2
<1>6. text[m + i] = p[i] /\ m + i \in 1..l /\ i \in Nat
  BY <1>1
<1> HIDE DEF m, l, z, text
<1>9. m \in Int /\ Len(p) \in Int /\ i \in 1..Len(p)
  BY <1>1
<1>7. CASE p[i] \in Leads /\ ~(i < Len(p) /\ p[i + 1] \in Trails)
  <2>1. m + i < l /\ text[m + i + 1] \in Trails
    BY <1>2, <1>6, <1>7
  <2>2. i = Len(p)
    <3> SUFFICES ASSUME i # Len(p) PROVE FALSE
      OBVIOUS
    <3>1. i + 1 \in 1..Len(p) /\ m + (i + 1) = m + i + 1 /\ i < Len(p)
      BY <1>9, NextInside
    <3>2. p[i + 1] = text[m + i + 1]
      BY <1>1, <3>1
    <3> QED BY <1>7, <2>1, <3>1, <3>2
  <2>3. m + i = m + z
    <3>1. Len(p) = IF m + z <= l THEN z ELSE l - m
      BY <1>1, <1>3
    <3>2. m \in Nat /\ z \in Nat /\ l \in Nat
      BY <1>1
    <3> QED BY <1>6, <2>1, <2>2, <3>1, <3>2
  <2>4. m + i \in 1..(l - 1) /\ text[m + i] \in Leads /\ (m + i) % z = 0
    BY <1>1, <1>5, <1>6, <1>7, <2>1, <2>3
  <2> QED BY <2>4 DEF l, text, z
<1>8. CASE p[i] \in Trails /\ ~(i > 1 /\ p[i - 1] \in Leads)
  <2>1. m + i > 1 /\ text[(m + i) - 1] \in Leads
    BY <1>2, <1>6, <1>8
  <2>2. i = 1
    <3> SUFFICES ASSUME i # 1 PROVE FALSE
      OBVIOUS
    <3>1. i - 1 \in 1..Len(p) /\ m + (i - 1) = (m + i) - 1 /\ i > 1
      BY <1>9, PreviousInside
    <3>2. p[i - 1] = text[(m + i) - 1]
      BY <1>1, <3>1
    <3> QED BY <1>8, <2>1, <3>1, <3>2
  <2>3. (m + i) - 1 = m
    BY <1>1, <2>2
  <2>4. m \in 1..(l - 1) /\ text[m] \in Leads /\ m % z = 0
    BY <1>1, <1>5, <1>6, <2>1, <2>2, <2>3
  <2> QED BY <2>4 DEF l, text, z
<1> QED BY <1>4, <1>7, <1>8

LEMMA NumberOfPieces ==
  ASSUME NEW d \in DocumentType, NEW n \in 0..Len(Cut(d))
  PROVE  IsFiniteSet(Pieces(d, n)) /\ Cardinality(Pieces(d, n)) = n
<1> DEFINE S == 0..(n - 1)
           f == [k \in S |-> Piece(d, k)]
<1>1. n \in Nat /\ S \subseteq 0..(Len(Cut(d)) - 1)
  BY PieceFacts
<1>2. \A k \in S : Piece(d, k).index = k
  BY <1>1, PieceFacts
<1>3. f \in Bijection(S, Pieces(d, n))
  <2>1. f \in [S -> Pieces(d, n)]
    BY DEF Pieces
  <2>2. ASSUME NEW j \in S, NEW k \in S, f[j] = f[k] PROVE j = k
    <3>1. Piece(d, j).index = Piece(d, k).index
      BY <2>2
    <3> QED BY <1>2, <3>1
  <2>3. \A c \in Pieces(d, n) : \E k \in S : f[k] = c
    BY DEF Pieces
  <2> HIDE DEF f, S
  <2>4. f \in Injection(S, Pieces(d, n))
    BY <2>1, <2>2 DEF Injection, IsInjective
  <2>5. f \in Surjection(S, Pieces(d, n))
    BY <2>1, <2>3 DEF Surjection
  <2> QED BY <2>4, <2>5 DEF Bijection
<1>4. ExistsBijection(S, Pieces(d, n))
  BY <1>3 DEF ExistsBijection
<1>5. IsFiniteSet(S) /\ Cardinality(S) = n
  <2>1. 0 \in Int /\ n - 1 \in Int
    BY <1>1
  <2> QED BY <1>1, <2>1, FS_Interval
<1> HIDE DEF S
<1> QED BY <1>4, <1>5, FS_Bijection

-----------------------------------------------------------------------------
(* What a search brings follows from what it has found.                    *)

(* A chunk in which the words stand is among the rows, unless there was no *)
(* room for it: then every row is a hit, as none comes after it.           *)
LEMMA SearchFindsWords ==
  ASSUME NEW s, IsSearch(s), NEW d \in s.of, s.answered, s.limit > 0, Plain(s.query),
         NEW i \in 1..Len(d.content), Stands(s.query, d.content, i),
         (i - 1) \div d.size = (i + Len(s.query) - 2) \div d.size
  PROVE  \/ \E c \in s.rows : c.document = d.id /\ c.index = (i - 1) \div d.size
         \/ /\ Cardinality(s.rows) = s.limit
            /\ \A c \in s.rows : \E k \in 1..(Len(c.content) + 1) : Stands(s.query, c.content, k)
<1> DEFINE k == (i - 1) \div d.size
           p == Piece(d, k)
<1>1. Whole(s.seen, s.of) /\ s.query \in Seq(Bytes) /\ s.rows \subseteq s.seen
  BY KnowledgeAssumption DEF IsSearch
<1>2. d \in DocumentType
  BY <1>1, WholeHasPieces
<1>3. k \in 0..(Len(Cut(d)) - 1) /\ \E j \in 1..Len(p.content) : Stands(s.query, p.content, j)
  BY <1>1, <1>2, WordsInPiece
<1> HIDE DEF k
<1>4. /\ p \in s.seen /\ p.document = d.id /\ p.index = k
      /\ p.content \in Seq(Bytes)
  BY <1>1, <1>2, <1>3, PieceFacts, WholeHasPieces
<1> HIDE DEF p
<1>5. Hit(s.query, p.content)
  <2>1. PICK j \in 1..Len(p.content) : Stands(s.query, p.content, j)
    BY <1>3
  <2>2. j \in 1..(Len(p.content) + 1)
    BY <1>4
  <2> QED BY <1>1, <1>4, <2>1, <2>2, StandsHit
<1>6. CASE p \in s.rows
  BY <1>4, <1>6 DEF k
<1>7. CASE p \notin s.rows
  <2>1. IsFiniteSet(s.seen)
    BY <1>1 DEF Whole
  <2>2. /\ Cardinality(s.seen) \in Nat /\ Cardinality(s.rows) \in Nat
        /\ Cardinality(s.rows) < Cardinality(s.seen)
    <3>1. s.rows # s.seen
      BY <1>4, <1>7
    <3> QED BY <1>1, <2>1, <3>1, FS_Subset, FS_CardinalityType
  <2>3. s.limit \in Nat /\ Cardinality(s.rows) = Min({s.limit, Cardinality(s.seen)})
    BY DEF IsSearch
  <2>4. Cardinality(s.rows) = s.limit
    <3>1. Min({s.limit, Cardinality(s.seen)}) =
            IF s.limit <= Cardinality(s.seen) THEN s.limit ELSE Cardinality(s.seen)
      BY <2>2, <2>3, MinOfTwo
    <3> QED BY <2>2, <2>3, <3>1
  <2>5. ASSUME NEW c \in s.rows
        PROVE  \E j \in 1..(Len(c.content) + 1) : Stands(s.query, c.content, j)
    <3>1. ~Before(s.query, p, c)
      <4>1. p \in s.seen \ s.rows
        BY <1>4, <1>7
      <4>2. \A x \in s.rows, y \in s.seen \ s.rows : ~Before(s.query, y, x)
        BY DEF IsSearch
      <4> QED BY <4>1, <4>2, Zenon
    <3>2. Hit(s.query, c.content)
      BY <1>5, <3>1, Zenon DEF Before
    <3>3. c.content \in Seq(Bytes)
      <4>1. PICK e \in s.of : e.id = c.document
        BY <1>1 DEF Whole
      <4>2. PICK j \in 0..(Len(Cut(e)) - 1) : c = Piece(e, j)
        BY <1>1, <4>1, WholeHasPieces
      <4>3. e \in DocumentType
        BY <1>1, WholeHasPieces
      <4> QED BY <4>2, <4>3, PieceFacts
    <3> QED BY <1>1, <3>2, <3>3, HitStands
  <2> QED BY <2>4, <2>5
<1> QED BY <1>6, <1>7

LEMMA SearchRefusedForSplit ==
  ASSUME NEW s, IsSearch(s), ~s.answered, s.limit >= 0
  PROVE  \E d \in s.of : \E i \in 1..(Len(d.content) - 1) :
           d.content[i] \in Leads /\ i % d.size = 0
<1>1. Whole(s.seen, s.of)
  BY DEF IsSearch
<1>2. PICK c \in s.seen : ~IsText(c.content)
  BY DEF IsSearch
<1>3. PICK d \in s.of : d.id = c.document
  BY <1>1 DEF Whole
<1>4. PICK k \in 0..(Len(Cut(d)) - 1) : c = Piece(d, k)
  BY <1>1, <1>3, WholeHasPieces
<1>5. d \in DocumentType /\ ~IsText(Piece(d, k).content)
  BY <1>1, <1>2, <1>4, WholeHasPieces
<1> QED BY <1>5, PieceIsText

-----------------------------------------------------------------------------
(* The steps.                                                              *)

LEMMA DocumentsTyped ==
  ASSUME TypeOK
  PROVE  documents \subseteq DocumentType
BY DEF TypeOK, DocumentType

LEMMA VisibleIsWhole ==
  ASSUME KnowledgeInv, NEW b \in Backends, pc[b] # "chunks"
  PROVE  Whole(Visible(b), {d \in documents : d.id \in committed \/ d \in Open(b)})
<1> DEFINE docs == {d \in documents : d.id \in committed \/ d \in Open(b)}
<1>1. docs \subseteq DocumentType
  BY DocumentsTyped DEF KnowledgeInv
<1>2. IsFiniteSet(Visible(b))
  <2>1. Visible(b) \in SUBSET chunks /\ IsFiniteSet(chunks)
    BY DEF Visible, KnowledgeInv, Identified
  <2> QED BY <2>1, FS_Subset
<1>3. \A d, e \in docs : d.id = e.id => d = e
  BY DEF KnowledgeInv, Identified
<1>4. \A c \in Visible(b) : \E d \in docs : d.id = c.document
  <2> SUFFICES ASSUME NEW c \in Visible(b) PROVE \E d \in docs : d.id = c.document
    OBVIOUS
  <2>1. c \in chunks /\ (c.document \in committed \/ \E d \in Open(b) : d.id = c.document)
    BY DEF Visible
  <2>2. PICK e \in documents : e.id = c.document
    BY <2>1 DEF KnowledgeInv, Identified
  <2>3. CASE c.document \in committed
    BY <2>2, <2>3
  <2>4. CASE \E d \in Open(b) : d.id = c.document
    BY <2>4 DEF Open
  <2> QED BY <2>1, <2>3, <2>4
<1>5. ASSUME NEW d \in docs PROVE {c \in Visible(b) : c.document = d.id} = AllPieces(d)
  <2>1. d \in documents /\ (d.id \in committed \/ d \in Open(b))
    OBVIOUS
  <2>2. {c \in Visible(b) : c.document = d.id} = ChunksOf(d.id)
    BY <2>1 DEF Visible, ChunksOf, Open
  <2>3. ~BeingAdded(d)
    <3> SUFFICES ASSUME BeingAdded(d) PROVE FALSE
      OBVIOUS
    <3>1. pc[d.by] = "chunks" /\ adding[d.by] = d.id /\ d.by \in Backends
      BY <2>1, DocumentsTyped, PieceFacts DEF BeingAdded, KnowledgeInv
    <3>2. PICK e \in documents : e.id = adding[d.by] /\ e.id \notin committed
      BY <3>1 DEF KnowledgeInv, Adders
    <3>3. d.by = b
      BY <2>1, <3>1, <3>2 DEF Open
    <3> QED BY <3>1, <3>3
  <2> QED BY <2>1, <2>2, <2>3 DEF KnowledgeInv, Added
<1> HIDE DEF docs
<1>6. Whole(Visible(b), docs)
  BY <1>1, <1>2, <1>3, <1>4, <1>5 DEF Whole
<1> QED BY <1>6 DEF docs

LEMMA SizeOfChunks ==
  ASSUME NEW n \in Int
  PROVE  ChunkSize(n) \in Nat \ {0}
<1>1. SmallestChunk \in Nat \ {0}
  BY KnowledgeAssumption
<1>2. Max({n, SmallestChunk}) = IF n >= SmallestChunk THEN n ELSE SmallestChunk
  BY <1>1, MaxOfTwo
<1> QED BY <1>1, <1>2 DEF ChunkSize

(* A backend finds the document it is adding, and has inserted its first   *)
(* chunks.                                                                 *)
LEMMA Adding ==
  ASSUME KnowledgeInv, NEW b \in Backends, pc[b] = "chunks"
  PROVE  LET d == Document(adding[b])
             i == Cardinality(ChunksOf(d.id)) IN
         /\ d \in documents /\ d \in DocumentType
         /\ d.id = adding[b] /\ d.by = b /\ d.id \notin committed
         /\ i \in 0..(Len(Cut(d)) - 1) /\ ChunksOf(d.id) = Pieces(d, i)
<1>1. PICK e \in documents :
        /\ e.id = adding[b] /\ e.by = b /\ e.id \notin committed
        /\ \E n \in 0..(Len(Cut(e)) - 1) : ChunksOf(e.id) = Pieces(e, n)
  BY DEF KnowledgeInv, Adders
<1>2. Document(adding[b]) = e
  BY <1>1 DEF KnowledgeInv, Identified, Document
<1>3. e \in DocumentType
  BY DocumentsTyped DEF KnowledgeInv
<1>4. PICK n \in 0..(Len(Cut(e)) - 1) : ChunksOf(e.id) = Pieces(e, n)
  BY <1>1
<1>5. Cardinality(ChunksOf(e.id)) = n
  <2>1. n \in 0..Len(Cut(e))
    BY <1>3, PieceFacts
  <2> QED BY <1>3, <1>4, <2>1, NumberOfPieces
<1> QED BY <1>1, <1>2, <1>3, <1>4, <1>5

LEMMA InsertDocumentKeeps ==
  ASSUME KnowledgeInv, NEW b \in Backends, NEW content \in Contents, NEW size \in ChunkSizes,
         insert_knowledge_document(b, content, size)
  PROVE  KnowledgeInv'
<1>0. PICK e : e = [id |-> serial + 1, by |-> b, content |-> content, size |-> ChunkSize(size)]
  OBVIOUS
<1>1. /\ pc[b] # "chunks" /\ serial < MaxDocuments /\ serial' = serial + 1
      /\ documents' = documents \cup {e}
      /\ adding' = [adding EXCEPT ![b] = serial + 1]
      /\ pc' = [pc EXCEPT ![b] = "chunks"]
      /\ chunks' = chunks /\ committed' = committed /\ searches' = searches
  BY <1>0 DEF insert_knowledge_document
<1>2. serial \in 0..MaxDocuments /\ MaxDocuments \in Nat
  BY KnowledgeAssumption DEF KnowledgeInv, TypeOK
<1>3. e \in DocumentType /\ e.id = serial + 1 /\ e.by = b
  <2>1. serial + 1 \in DocumentIds
    BY <1>1, <1>2 DEF DocumentIds
  <2>2. ChunkSize(size) \in Nat \ {0}
    BY KnowledgeAssumption, SizeOfChunks
  <2> QED BY <1>0, <2>1, <2>2 DEF DocumentType
<1>4. TypeOK'
  <2>1. documents' \subseteq [id : DocumentIds, by : Backends, content : Contents, size : Nat \ {0}]
    BY <1>1, <1>3 DEF KnowledgeInv, TypeOK, DocumentType
  <2>2. committed' \subseteq {d.id : d \in documents'}
    BY <1>1 DEF KnowledgeInv, TypeOK
  <2>3. serial' \in 0..MaxDocuments
    BY <1>1, <1>2
  <2>4. pc' \in [Backends -> {"idle", "open", "chunks"}] /\ adding' \in [Backends -> 0..MaxDocuments]
    BY <1>1, <1>2 DEF KnowledgeInv, TypeOK
  <2>5. chunks' \subseteq Chunk
    BY <1>1 DEF KnowledgeInv, TypeOK
  <2>6. \A s \in searches' : s.query \in Queries /\ s.rows \subseteq s.seen /\ s.seen \subseteq Chunk
    BY <1>1 DEF KnowledgeInv, TypeOK
  <2> QED BY <2>1, <2>2, <2>3, <2>4, <2>5, <2>6 DEF TypeOK
<1>5. \A d \in documents : d.id \in Nat /\ d.id <= serial
  BY DocumentsTyped, PieceFacts DEF KnowledgeInv, Identified, DocumentIds
<1>6. Identified'
  <2>1. \A d \in documents : d.id # e.id
    BY <1>2, <1>3, <1>5
  <2>2. \A d \in documents' : d.id <= serial'
    BY <1>1, <1>2, <1>3, <1>5
  <2>3. \A d, x \in documents' : d.id = x.id => d = x
    BY <1>1, <2>1 DEF KnowledgeInv, Identified
  <2> QED BY <1>1, <2>2, <2>3 DEF KnowledgeInv, Identified
<1>7. ChunksOf(e.id)' = Pieces(e, 0)
  <2>1. \A c \in chunks : c.document # serial + 1
    BY <1>2, <1>5 DEF KnowledgeInv, Identified
  <2>2. Pieces(e, 0) = {}
    BY DEF Pieces
  <2> QED BY <1>1, <1>3, <2>1, <2>2 DEF ChunksOf
<1>8. \A i : ChunksOf(i)' = ChunksOf(i)
  BY <1>1 DEF ChunksOf
<1>9. Adders'
  <2> SUFFICES ASSUME NEW a \in Backends, pc'[a] = "chunks"
               PROVE  \E d \in documents' :
                        /\ d.id = adding'[a] /\ d.by = a /\ d.id \notin committed'
                        /\ \E n \in 0..(Len(Cut(d)) - 1) : ChunksOf(d.id)' = Pieces(d, n)
    BY DEF Adders
  <2>1. CASE a = b
    <3>1. adding'[a] = serial + 1
      BY <1>1, <2>1 DEF KnowledgeInv, TypeOK
    <3>2. e.id \notin committed'
      BY <1>1, <1>2, <1>3, <1>5 DEF KnowledgeInv, TypeOK
    <3>3. 0 \in 0..(Len(Cut(e)) - 1)
      BY <1>3, PieceFacts
    <3> QED BY <1>1, <1>3, <1>7, <2>1, <3>1, <3>2, <3>3
  <2>2. CASE a # b
    <3>1. pc[a] = "chunks" /\ adding'[a] = adding[a]
      BY <1>1, <2>2 DEF KnowledgeInv, TypeOK
    <3>2. PICK d \in documents :
            /\ d.id = adding[a] /\ d.by = a /\ d.id \notin committed
            /\ \E n \in 0..(Len(Cut(d)) - 1) : ChunksOf(d.id) = Pieces(d, n)
      BY <3>1 DEF KnowledgeInv, Adders
    <3> QED BY <1>1, <1>8, <3>1, <3>2
  <2> QED BY <2>1, <2>2
<1>10. Added'
  <2> SUFFICES ASSUME NEW d \in documents', ~BeingAdded(d)'
               PROVE  ChunksOf(d.id)' = AllPieces(d)
    BY DEF Added
  <2>1. d # e
    BY <1>1, <1>3 DEF BeingAdded, KnowledgeInv, TypeOK
  <2>2. d \in documents /\ d.by \in Backends
    BY <1>1, <2>1, DocumentsTyped, PieceFacts DEF KnowledgeInv
  <2>3. ~BeingAdded(d)
    BY <1>1, <2>2 DEF BeingAdded, KnowledgeInv, TypeOK
  <2> QED BY <1>8, <2>2, <2>3 DEF KnowledgeInv, Added
<1>11. Searches'
  BY <1>1 DEF KnowledgeInv, Searches
<1> QED BY <1>4, <1>6, <1>9, <1>10, <1>11 DEF KnowledgeInv

LEMMA InsertChunkKeeps ==
  ASSUME KnowledgeInv, NEW b \in Backends, insert_knowledge_chunk(b)
  PROVE  KnowledgeInv'
<1>1. pc[b] = "chunks"
  BY DEF insert_knowledge_chunk
<1>2. PICK e : e = Document(adding[b])
  OBVIOUS
<1>3. PICK n : n = Cardinality(ChunksOf(e.id))
  OBVIOUS
<1>4. /\ e \in documents /\ e \in DocumentType
      /\ e.id = adding[b] /\ e.by = b /\ e.id \notin committed
      /\ n \in 0..(Len(Cut(e)) - 1) /\ ChunksOf(e.id) = Pieces(e, n)
  BY <1>1, <1>2, <1>3, Adding
<1>5. /\ Piece(e, n) \in Chunk /\ Piece(e, n).document = e.id
      /\ Len(Cut(e)) \in Nat \ {0} /\ n \in Nat
  BY <1>4, PieceFacts
<1>6. /\ chunks' = chunks \cup {Piece(e, n)}
      /\ IF n + 1 = Len(Cut(e))
         THEN pc' = [pc EXCEPT ![b] = "open"] /\ adding' = [adding EXCEPT ![b] = 0]
         ELSE UNCHANGED <<pc, adding>>
      /\ documents' = documents /\ committed' = committed
      /\ serial' = serial /\ searches' = searches
  BY <1>2, <1>3 DEF insert_knowledge_chunk, Piece
<1>7. ChunksOf(e.id)' = Pieces(e, n + 1)
  <2>1. ChunksOf(e.id)' = ChunksOf(e.id) \cup {Piece(e, n)}
    BY <1>5, <1>6 DEF ChunksOf
  <2>2. 0..((n + 1) - 1) = 0..(n - 1) \cup {n}
    BY <1>5
  <2>3. Pieces(e, n + 1) = Pieces(e, n) \cup {Piece(e, n)}
    BY <2>2 DEF Pieces
  <2> QED BY <1>4, <2>1, <2>3
<1>8. \A i : i # e.id => ChunksOf(i)' = ChunksOf(i)
  BY <1>5, <1>6 DEF ChunksOf
<1>9. pc' \in [Backends -> {"idle", "open", "chunks"}] /\ adding' \in [Backends -> 0..MaxDocuments]
  <2>1. 0 \in 0..MaxDocuments
    BY KnowledgeAssumption
  <2>2. CASE n + 1 = Len(Cut(e))
    BY <1>6, <2>1, <2>2 DEF KnowledgeInv, TypeOK
  <2>3. CASE n + 1 # Len(Cut(e))
    BY <1>6, <2>3 DEF KnowledgeInv, TypeOK
  <2> QED BY <2>2, <2>3
<1>10. TypeOK'
  BY <1>5, <1>6, <1>9 DEF KnowledgeInv, TypeOK
<1>11. Identified'
  <2>1. IsFiniteSet(chunks')
    BY <1>6, FS_AddElement DEF KnowledgeInv, Identified
  <2>2. \A c \in chunks' : \E d \in documents' : d.id = c.document
    BY <1>4, <1>5, <1>6 DEF KnowledgeInv, Identified
  <2> QED BY <1>6, <2>1, <2>2 DEF KnowledgeInv, Identified
<1>12. \A a \in Backends : a # b => pc'[a] = pc[a] /\ adding'[a] = adding[a]
  BY <1>6 DEF KnowledgeInv, TypeOK
<1>13. Adders'
  <2> SUFFICES ASSUME NEW a \in Backends, pc'[a] = "chunks"
               PROVE  \E d \in documents' :
                        /\ d.id = adding'[a] /\ d.by = a /\ d.id \notin committed'
                        /\ \E i \in 0..(Len(Cut(d)) - 1) : ChunksOf(d.id)' = Pieces(d, i)
    BY DEF Adders
  <2>1. CASE a = b
    <3>1. n + 1 # Len(Cut(e))
      BY <1>6, <2>1 DEF KnowledgeInv, TypeOK
    <3>2. adding'[a] = e.id
      BY <1>4, <1>6, <2>1, <3>1
    <3>3. n + 1 \in 0..(Len(Cut(e)) - 1)
      BY <1>4, <1>5, <3>1
    <3> QED BY <1>4, <1>6, <1>7, <2>1, <3>2, <3>3
  <2>2. CASE a # b
    <3>1. pc[a] = "chunks" /\ adding'[a] = adding[a]
      BY <1>12, <2>2
    <3>2. PICK d \in documents :
            /\ d.id = adding[a] /\ d.by = a /\ d.id \notin committed
            /\ \E i \in 0..(Len(Cut(d)) - 1) : ChunksOf(d.id) = Pieces(d, i)
      BY <3>1 DEF KnowledgeInv, Adders
    <3>3. d.id # e.id
      BY <1>4, <2>2, <3>2 DEF KnowledgeInv, Identified
    <3>4. ChunksOf(d.id)' = ChunksOf(d.id)
      BY <1>8, <3>3
    <3> QED BY <1>6, <3>1, <3>2, <3>4
  <2> QED BY <2>1, <2>2
<1>14. Added'
  <2> SUFFICES ASSUME NEW d \in documents', ~BeingAdded(d)'
               PROVE  ChunksOf(d.id)' = AllPieces(d)
    BY DEF Added
  <2>1. d \in documents /\ d.by \in Backends
    BY <1>6, DocumentsTyped, PieceFacts DEF KnowledgeInv
  <2>2. CASE d = e
    <3>1. n + 1 = Len(Cut(e))
      BY <1>1, <1>4, <1>6, <2>2 DEF BeingAdded
    <3> QED BY <1>7, <2>2, <3>1 DEF AllPieces
  <2>3. CASE d # e
    <3>1. d.id # e.id
      BY <1>4, <2>1, <2>3 DEF KnowledgeInv, Identified
    <3>2. ~BeingAdded(d)
      <4>1. CASE d.by = b
        BY <1>4, <3>1, <4>1 DEF BeingAdded
      <4>2. CASE d.by # b
        BY <1>12, <2>1, <4>2 DEF BeingAdded
      <4> QED BY <4>1, <4>2
    <3> QED BY <1>8, <2>1, <3>1, <3>2 DEF KnowledgeInv, Added
  <2> QED BY <2>2, <2>3
<1>15. Searches'
  BY <1>6 DEF KnowledgeInv, Searches
<1> QED BY <1>10, <1>11, <1>13, <1>14, <1>15 DEF KnowledgeInv

(* What goes with the transaction is of no other and of no search.         *)
LEMMA AbortKeeps ==
  ASSUME KnowledgeInv, NEW b \in Backends, Abort(b),
         \A s \in searches' : IsSearch(s) /\ s.seen \subseteq Chunk
  PROVE  KnowledgeInv'
<1>1. /\ documents' = documents \ Open(b)
      /\ chunks' = {c \in chunks : \A d \in Open(b) : c.document # d.id}
      /\ pc' = [pc EXCEPT ![b] = "idle"] /\ adding' = [adding EXCEPT ![b] = 0]
      /\ committed' = committed /\ serial' = serial
  BY DEF Abort
<1>2. /\ documents' \subseteq documents /\ chunks' \subseteq chunks
      /\ \A d \in documents : d.by # b \/ d.id \in committed => d \in documents'
      /\ \A d \in documents' : d.by # b \/ d.id \in committed
  BY <1>1 DEF Open
<1>3. \A d, e \in documents : d.id = e.id => d = e
  BY DEF KnowledgeInv, Identified
<1>4. \A d \in documents' : ChunksOf(d.id)' = ChunksOf(d.id)
  <2> SUFFICES ASSUME NEW d \in documents' PROVE ChunksOf(d.id)' = ChunksOf(d.id)
    OBVIOUS
  <2>1. \A e \in Open(b) : d.id # e.id
    BY <1>1, <1>2, <1>3 DEF Open
  <2>2. \A c \in chunks : c.document = d.id => c \in chunks'
    BY <1>1, <2>1
  <2> QED BY <1>2, <2>2 DEF ChunksOf
<1>5. TypeOK'
  <2>1. documents' \subseteq [id : DocumentIds, by : Backends, content : Contents, size : Nat \ {0}]
    BY <1>2 DEF KnowledgeInv, TypeOK
  <2>2. committed' \subseteq {d.id : d \in documents'}
    BY <1>1, <1>2 DEF KnowledgeInv, TypeOK
  <2>3. pc' \in [Backends -> {"idle", "open", "chunks"}] /\ adding' \in [Backends -> 0..MaxDocuments]
    <3>1. 0 \in 0..MaxDocuments
      BY KnowledgeAssumption
    <3> QED BY <1>1, <3>1 DEF KnowledgeInv, TypeOK
  <2>4. chunks' \subseteq Chunk /\ serial' \in 0..MaxDocuments
    BY <1>1, <1>2 DEF KnowledgeInv, TypeOK
  <2>5. \A s \in searches' : s.query \in Queries /\ s.rows \subseteq s.seen /\ s.seen \subseteq Chunk
    BY DEF IsSearch
  <2> QED BY <2>1, <2>2, <2>3, <2>4, <2>5 DEF TypeOK
<1>6. Identified'
  <2>1. IsFiniteSet(chunks')
    BY <1>2, FS_Subset DEF KnowledgeInv, Identified
  <2>2. \A c \in chunks' : \E d \in documents' : d.id = c.document
    <3> SUFFICES ASSUME NEW c \in chunks' PROVE \E d \in documents' : d.id = c.document
      OBVIOUS
    <3>1. PICK d \in documents : d.id = c.document
      BY <1>2 DEF KnowledgeInv, Identified
    <3>2. d \notin Open(b)
      BY <1>1, <3>1
    <3> QED BY <1>1, <3>1, <3>2
  <2>3. \A d \in documents' : d.id <= serial'
    BY <1>1, <1>2 DEF KnowledgeInv, Identified
  <2>4. \A d, e \in documents' : d.id = e.id => d = e
    BY <1>2, <1>3
  <2> QED BY <2>1, <2>2, <2>3, <2>4 DEF Identified
<1>7. \A a \in Backends : a # b => pc'[a] = pc[a] /\ adding'[a] = adding[a]
  BY <1>1 DEF KnowledgeInv, TypeOK
<1>8. Adders'
  <2> SUFFICES ASSUME NEW a \in Backends, pc'[a] = "chunks"
               PROVE  \E d \in documents' :
                        /\ d.id = adding'[a] /\ d.by = a /\ d.id \notin committed'
                        /\ \E i \in 0..(Len(Cut(d)) - 1) : ChunksOf(d.id)' = Pieces(d, i)
    BY DEF Adders
  <2>1. a # b
    BY <1>1 DEF KnowledgeInv, TypeOK
  <2>2. pc[a] = "chunks" /\ adding'[a] = adding[a]
    BY <1>7, <2>1
  <2>3. PICK d \in documents :
          /\ d.id = adding[a] /\ d.by = a /\ d.id \notin committed
          /\ \E i \in 0..(Len(Cut(d)) - 1) : ChunksOf(d.id) = Pieces(d, i)
    BY <2>2 DEF KnowledgeInv, Adders
  <2>4. d \in documents'
    BY <1>2, <2>1, <2>3
  <2>5. ChunksOf(d.id)' = ChunksOf(d.id)
    BY <1>4, <2>4
  <2> QED BY <1>1, <2>2, <2>3, <2>4, <2>5
<1>9. Added'
  <2> SUFFICES ASSUME NEW d \in documents', ~BeingAdded(d)'
               PROVE  ChunksOf(d.id)' = AllPieces(d)
    BY DEF Added
  <2>1. d \in documents /\ d.by \in Backends
    BY <1>2, DocumentsTyped, PieceFacts DEF KnowledgeInv
  <2>2. ~BeingAdded(d)
    <3>1. CASE d.by = b
      <4> SUFFICES ASSUME BeingAdded(d) PROVE FALSE
        OBVIOUS
      <4>1. pc[b] = "chunks" /\ adding[b] = d.id /\ d.id \in committed
        BY <1>2, <3>1 DEF BeingAdded
      <4>2. PICK e \in documents : e.id = adding[b] /\ e.id \notin committed
        BY <4>1 DEF KnowledgeInv, Adders
      <4> QED BY <4>1, <4>2
    <3>2. CASE d.by # b
      BY <1>7, <2>1, <3>2 DEF BeingAdded
    <3> QED BY <3>1, <3>2
  <2> QED BY <1>4, <2>1, <2>2 DEF KnowledgeInv, Added
<1>10. Searches'
  BY DEF Searches
<1> QED BY <1>5, <1>6, <1>8, <1>9, <1>10 DEF KnowledgeInv

LEMMA StoreKeeps ==
  ASSUME KnowledgeInv, NEW b \in Backends,
         UNCHANGED <<documents, chunks, committed, pc, adding, serial>>,
         \A s \in searches' : IsSearch(s) /\ s.seen \subseteq Chunk
  PROVE  KnowledgeInv'
<1>1. TypeOK'
  <2>1. \A s \in searches' : s.query \in Queries /\ s.rows \subseteq s.seen /\ s.seen \subseteq Chunk
    BY DEF IsSearch
  <2> QED BY <2>1 DEF KnowledgeInv, TypeOK
<1>2. Identified'
  BY DEF KnowledgeInv, Identified
<1>3. \A i : ChunksOf(i)' = ChunksOf(i)
  BY DEF ChunksOf
<1>4. Adders'
  BY <1>3 DEF KnowledgeInv, Adders
<1>5. Added'
  BY <1>3 DEF KnowledgeInv, Added, BeingAdded
<1>6. Searches'
  BY DEF Searches
<1> QED BY <1>1, <1>2, <1>4, <1>5, <1>6 DEF KnowledgeInv

LEMMA SearchedKeeps ==
  ASSUME KnowledgeInv, NEW b \in Backends, NEW query, NEW limit, NEW rows, NEW answered,
         Searched(b, query, limit, rows, answered),
         IsSearch([by |-> b, query |-> query, limit |-> limit, seen |-> Visible(b), rows |-> rows,
                   of |-> {d \in documents : d.id \in committed \/ d \in Open(b)},
                   answered |-> answered])
  PROVE  \A s \in searches' : IsSearch(s) /\ s.seen \subseteq Chunk
<1>1. PICK new : new = [by |-> b, query |-> query, limit |-> limit, seen |-> Visible(b), rows |-> rows,
                   of |-> {d \in documents : d.id \in committed \/ d \in Open(b)},
                   answered |-> answered]
  OBVIOUS
<1>2. searches' = searches \cup {new}
  BY <1>1 DEF Searched
<1>3. new.seen \subseteq Chunk
  BY <1>1 DEF Visible, KnowledgeInv, TypeOK
<1>4. IsSearch(new)
  BY <1>1, Zenon
<1>5. \A s \in searches : IsSearch(s) /\ s.seen \subseteq Chunk
  BY DEF KnowledgeInv, TypeOK, Searches
<1> QED BY <1>2, <1>3, <1>4, <1>5

LEMMA SearchKeeps ==
  ASSUME KnowledgeInv, NEW b \in Backends, NEW query \in Queries, NEW limit \in Limits,
         search_knowledge_internal(b, query, limit)
  PROVE  KnowledgeInv'
<1>1. PICK rows \in SUBSET Visible(b) :
        /\ Cardinality(rows) = Min({limit, Cardinality(Visible(b))})
        /\ \A c \in rows, d \in Visible(b) \ rows : ~Before(query, d, c)
        /\ Searched(b, query, limit, rows, TRUE)
  BY DEF search_knowledge_internal
<1>2. pc[b] # "chunks" /\ limit \in Nat
  BY KnowledgeAssumption DEF search_knowledge_internal
<1>3. UNCHANGED <<documents, chunks, committed, pc, adding, serial>>
  BY DEF search_knowledge_internal
<1>4. Whole(Visible(b), {d \in documents : d.id \in committed \/ d \in Open(b)})
  BY <1>2, VisibleIsWhole
<1>5. IsSearch([by |-> b, query |-> query, limit |-> limit, seen |-> Visible(b), rows |-> rows,
                of |-> {d \in documents : d.id \in committed \/ d \in Open(b)},
                answered |-> TRUE])
  BY <1>1, <1>2, <1>4 DEF IsSearch
<1>6. \A s \in searches' : IsSearch(s) /\ s.seen \subseteq Chunk
  BY <1>1, <1>5, SearchedKeeps
<1> QED BY <1>3, <1>6, StoreKeeps

LEMMA SearchFailsKeeps ==
  ASSUME KnowledgeInv, NEW b \in Backends, NEW query \in Queries, NEW limit \in Limits,
         SearchFails(b, query, limit)
  PROVE  KnowledgeInv'
<1>1. /\ pc[b] # "chunks" /\ (limit < 0 \/ ~Ranks(b, limit))
      /\ Searched(b, query, limit, {}, FALSE) /\ Abort(b)
  BY DEF SearchFails
<1>2. Whole(Visible(b), {d \in documents : d.id \in committed \/ d \in Open(b)})
  BY <1>1, VisibleIsWhole
<1>3. limit >= 0 => \E c \in Visible(b) : ~IsText(c.content)
  <2>1. limit \in Int
    BY KnowledgeAssumption
  <2>2. limit >= 0 => ~Ranks(b, limit)
    BY <1>1, <2>1
  <2> QED BY <2>2, Zenon DEF Ranks
<1>4. IsSearch([by |-> b, query |-> query, limit |-> limit, seen |-> Visible(b), rows |-> {},
                of |-> {d \in documents : d.id \in committed \/ d \in Open(b)},
                answered |-> FALSE])
  BY <1>2, <1>3 DEF IsSearch
<1>5. \A s \in searches' : IsSearch(s) /\ s.seen \subseteq Chunk
  BY <1>1, <1>4, SearchedKeeps
<1> QED BY <1>1, <1>5, AbortKeeps

LEMMA CommitKeeps ==
  ASSUME KnowledgeInv, NEW b \in Backends, Commit(b)
  PROVE  KnowledgeInv'
<1>1. /\ pc[b] = "open" /\ committed' = committed \cup {d.id : d \in Open(b)}
      /\ pc' = [pc EXCEPT ![b] = "idle"]
      /\ UNCHANGED <<documents, chunks, adding, serial, searches>>
  BY DEF Commit
<1>2. committed' \subseteq {d.id : d \in documents'}
  BY <1>1 DEF KnowledgeInv, TypeOK, Open
<1>3. TypeOK'
  BY <1>1, <1>2 DEF KnowledgeInv, TypeOK
<1>4. Identified'
  BY <1>1 DEF KnowledgeInv, Identified
<1>5. \A i : ChunksOf(i)' = ChunksOf(i)
  BY <1>1 DEF ChunksOf
<1>6. \A a \in Backends : pc'[a] = "chunks" <=> pc[a] = "chunks"
  BY <1>1 DEF KnowledgeInv, TypeOK
<1>7. Adders'
  <2> SUFFICES ASSUME NEW a \in Backends, pc'[a] = "chunks"
               PROVE  \E d \in documents' :
                        /\ d.id = adding'[a] /\ d.by = a /\ d.id \notin committed'
                        /\ \E i \in 0..(Len(Cut(d)) - 1) : ChunksOf(d.id)' = Pieces(d, i)
    BY DEF Adders
  <2>1. pc[a] = "chunks" /\ a # b
    BY <1>1, <1>6
  <2>2. PICK d \in documents :
          /\ d.id = adding[a] /\ d.by = a /\ d.id \notin committed
          /\ \E i \in 0..(Len(Cut(d)) - 1) : ChunksOf(d.id) = Pieces(d, i)
    BY <2>1 DEF KnowledgeInv, Adders
  <2>3. d.id \notin committed'
    BY <1>1, <2>1, <2>2 DEF Open, KnowledgeInv, Identified
  <2> QED BY <1>1, <1>5, <2>2, <2>3
<1>8. Added'
  <2> SUFFICES ASSUME NEW d \in documents', ~BeingAdded(d)'
               PROVE  ChunksOf(d.id)' = AllPieces(d)
    BY DEF Added
  <2>1. d \in documents /\ d.by \in Backends
    BY <1>1, DocumentsTyped, PieceFacts DEF KnowledgeInv
  <2>2. ~BeingAdded(d)
    BY <1>1, <1>6, <2>1 DEF BeingAdded
  <2> QED BY <1>5, <2>1, <2>2 DEF KnowledgeInv, Added
<1>9. Searches'
  BY <1>1 DEF KnowledgeInv, Searches
<1> QED BY <1>3, <1>4, <1>7, <1>8, <1>9 DEF KnowledgeInv

-----------------------------------------------------------------------------
(* The theorems.                                                           *)

LEMMA KnowledgeInitially ==
  ASSUME Init
  PROVE  KnowledgeInv
<1>1. TypeOK
  BY KnowledgeAssumption DEF Init, TypeOK
<1>2. Identified
  BY FS_EmptySet DEF Init, Identified
<1>3. Adders
  BY DEF Init, Adders
<1>4. Added /\ Searches
  BY DEF Init, Added, Searches
<1> QED BY <1>1, <1>2, <1>3, <1>4 DEF KnowledgeInv

LEMMA KnowledgeKept ==
  ASSUME KnowledgeInv, [Next]_vars
  PROVE  KnowledgeInv'
<1>1. \A s \in searches : IsSearch(s) /\ s.seen \subseteq Chunk
  BY DEF KnowledgeInv, TypeOK, Searches
<1>2. CASE UNCHANGED vars
  <2>1. \A i : ChunksOf(i)' = ChunksOf(i)
    BY <1>2 DEF vars, ChunksOf
  <2>2. TypeOK' /\ Identified' /\ Searches'
    BY <1>2 DEF vars, KnowledgeInv, TypeOK, Identified, Searches
  <2>3. Adders' /\ Added'
    BY <1>2, <2>1 DEF vars, KnowledgeInv, Adders, Added, BeingAdded
  <2> QED BY <2>2, <2>3 DEF KnowledgeInv
<1>3. CASE Next
  <2>1. PICK b \in Backends :
          \/ \E content \in Contents, size \in ChunkSizes : insert_knowledge_document(b, content, size)
          \/ insert_knowledge_chunk(b)
          \/ InsertFails(b)
          \/ \E query \in Queries, limit \in Limits :
               search_knowledge_internal(b, query, limit) \/ SearchFails(b, query, limit)
          \/ Commit(b)
          \/ Rollback(b)
    BY <1>3 DEF Next
  <2>2. ASSUME NEW content \in Contents, NEW size \in ChunkSizes,
               insert_knowledge_document(b, content, size)
        PROVE  KnowledgeInv'
    BY <2>2, InsertDocumentKeeps
  <2>3. CASE insert_knowledge_chunk(b)
    BY <2>3, InsertChunkKeeps
  <2>4. CASE InsertFails(b)
    BY <1>1, <2>4, AbortKeeps DEF InsertFails
  <2>5. ASSUME NEW query \in Queries, NEW limit \in Limits,
               search_knowledge_internal(b, query, limit)
        PROVE  KnowledgeInv'
    BY <2>5, SearchKeeps
  <2>6. ASSUME NEW query \in Queries, NEW limit \in Limits, SearchFails(b, query, limit)
        PROVE  KnowledgeInv'
    BY <2>6, SearchFailsKeeps
  <2>7. CASE Commit(b)
    BY <2>7, CommitKeeps
  <2>8. CASE Rollback(b)
    BY <1>1, <2>8, AbortKeeps DEF Rollback
  <2> QED BY <2>1, <2>2, <2>3, <2>4, <2>5, <2>6, <2>7, <2>8, Zenon
<1> QED BY <1>2, <1>3

LEMMA KnowledgeAlways == Spec => []KnowledgeInv
BY KnowledgeInitially, KnowledgeKept, PTL DEF Spec

(* Documents, their chunks and what searches saw of them stay well formed. *)
THEOREM KnowledgeTyped == Spec => []TypeOK
<1>1. KnowledgeInv => TypeOK
  BY DEF KnowledgeInv
<1> QED BY <1>1, KnowledgeAlways, PTL

(* However documents are being added, rolled back and committed around it, *)
(* a search_knowledge_internal sees each document it sees to the last byte, *)
(* whatever its length and the chunk size are.                             *)
THEOREM SearchesFindWholeDocuments == Spec => []SearchesSeeWholeDocuments
<1>1. KnowledgeInv => SearchesSeeWholeDocuments
  <2> SUFFICES ASSUME KnowledgeInv, NEW s \in searches
               PROVE  /\ \A c \in s.seen : \E d \in s.of : d.id = c.document
                      /\ \A d \in s.of : \A k \in 0..(Len(d.content) - 1) :
                           \E c \in {x \in s.seen : x.document = d.id /\ x.index = k \div d.size} :
                             /\ {x \in s.seen : x.document = d.id /\ x.index = k \div d.size} = {c}
                             /\ c.content[(k % d.size) + 1] = d.content[k + 1]
    BY DEF SearchesSeeWholeDocuments
  <2>1. Whole(s.seen, s.of)
    BY DEF KnowledgeInv, Searches, IsSearch
  <2>2. \A c \in s.seen : \E d \in s.of : d.id = c.document
    BY <2>1 DEF Whole
  <2>3. ASSUME NEW d \in s.of, NEW k \in 0..(Len(d.content) - 1)
        PROVE  \E c \in {x \in s.seen : x.document = d.id /\ x.index = k \div d.size} :
                 /\ {x \in s.seen : x.document = d.id /\ x.index = k \div d.size} = {c}
                 /\ c.content[(k % d.size) + 1] = d.content[k + 1]
    <3>1. PICK c \in s.seen : MakesByte(c, s.seen, d, k)
      BY <2>1, WholeMakesContent, Zenon
    <3> DEFINE At == {x \in s.seen : x.document = d.id /\ x.index = k \div d.size}
    <3>2. At = {c}
      BY <3>1, Zenon DEF MakesByte
    <3> QED BY <3>1, <3>2, Zenon DEF MakesByte
  <2> QED BY <2>2, <2>3
<1> QED BY <1>1, KnowledgeAlways, PTL

(* For every distance between embeddings, every limit and every chunk     *)
(* size: words without special bytes that stand in one chunk of a document *)
(* up to case bring this chunk, unless the rows are as many as the limit   *)
(* and each has the words.  ILIKE in the ORDER BY of                       *)
(* search_knowledge_internal finds them where they stand, nowhere else.    *)
THEOREM SearchesFindWords == Spec => []WordsAreFound
<1>1. KnowledgeInv => WordsAreFound
  <2> SUFFICES ASSUME KnowledgeInv, NEW s \in searches, NEW d \in s.of,
                      NEW i \in 1..Len(d.content),
                      s.answered, s.limit > 0, Plain(s.query), Stands(s.query, d.content, i),
                      (i - 1) \div d.size = (i + Len(s.query) - 2) \div d.size
               PROVE  \/ \E c \in s.rows : c.document = d.id /\ c.index = (i - 1) \div d.size
                      \/ /\ Cardinality(s.rows) = s.limit
                         /\ \A c \in s.rows : \E k \in 1..(Len(c.content) + 1) :
                              Stands(s.query, c.content, k)
    BY DEF WordsAreFound
  <2>1. IsSearch(s)
    BY DEF KnowledgeInv, Searches
  <2> QED BY <2>1, SearchFindsWords
<1> QED BY <1>1, KnowledgeAlways, PTL

(* Only a character that split_content has cut in two, in a document that  *)
(* the search sees, makes a search for rows fail.                          *)
THEOREM OnlySplitCharactersRefuse == Spec => []RefusedForSplitCharacters
<1>1. KnowledgeInv => RefusedForSplitCharacters
  <2> SUFFICES ASSUME KnowledgeInv, NEW s \in searches, ~s.answered, s.limit >= 0
               PROVE  \E d \in s.of : \E i \in 1..(Len(d.content) - 1) :
                        d.content[i] \in Leads /\ i % d.size = 0
    BY DEF RefusedForSplitCharacters
  <2>1. IsSearch(s)
    BY DEF KnowledgeInv, Searches
  <2> QED BY <2>1, SearchRefusedForSplit
<1> QED BY <1>1, KnowledgeAlways, PTL
=============================================================================
