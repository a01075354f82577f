--------------------------- MODULE ChunkedProofs ----------------------------
(***************************************************************************)
(* Proofs about Chunked: for data of any length, chunks of any size,       *)
(* compressed chunks of any lengths and a file cut at any byte.            *)
(***************************************************************************)
EXTENDS Chunked, SequenceTheorems, WellFoundedInduction, TLAPS

\* A nonempty set of naturals has a least element.
LEMMA LeastOf ==
  ASSUME NEW S, S \subseteq Nat, S # {}
  PROVE  \E m \in S : \A k \in S : m <= k
<1> DEFINE R == OpToRel(<, Nat)
<1>1. IsWellFoundedOn(R, Nat)
  BY NatLessThanWellFounded
<1>2. PICK m \in S : \A k \in S : <<k, m>> \notin R
  <2> HIDE DEF R
  <2> QED BY <1>1, WFMin
<1>3. \A k \in S : ~(k < m)
  BY <1>2 DEF OpToRel
<1> QED BY <1>3

(* Position as a function of the length of each chunk: pos[i] of Position(i). *)
IsPositions(pos, n, bs) ==
  pos = [k \in 0 .. n |-> IF k = 0 THEN HeaderLen ELSE pos[k - 1] + LenField + bs[k - 1].len]

\* Positions exist: the recursion of Position is well founded.
LEMMA PositionsExist ==
  ASSUME NEW n \in Nat, NEW bs
  PROVE  \E pos : IsPositions(pos, n, bs)
<1> DEFINE Bad == {m \in Nat : ~\E pos : IsPositions(pos, m, bs)}
<1> SUFFICES ASSUME Bad # {} PROVE FALSE
  OBVIOUS
<1>1. PICK m \in Bad : \A k \in Bad : m <= k
  <2>1. Bad \subseteq Nat
    OBVIOUS
  <2> HIDE DEF Bad
  <2> QED BY <2>1, LeastOf
<1>2. CASE m = 0
  <2>1. IsPositions([k \in 0 .. 0 |-> HeaderLen], m, bs)
    BY <1>2 DEF IsPositions
  <2> QED BY <1>1, <2>1
<1>3. CASE m # 0
  <2>1. m - 1 \in Nat /\ m - 1 \notin Bad
    BY <1>1, <1>3
  <2>2. PICK pos : IsPositions(pos, m - 1, bs)
    BY <2>1
  <2> DEFINE next == [k \in 0 .. m |-> IF k = m THEN pos[m - 1] + LenField + bs[m - 1].len ELSE pos[k]]
  <2>3. \A k \in 0 .. m - 1 : next[k] = pos[k]
    BY <1>1
  <2>4. \A k \in 0 .. m - 1 : pos[k] = IF k = 0 THEN HeaderLen ELSE pos[k - 1] + LenField + bs[k - 1].len
    BY <2>2 DEF IsPositions
  <2>5. ASSUME NEW k \in 0 .. m
        PROVE  next[k] = IF k = 0 THEN HeaderLen ELSE next[k - 1] + LenField + bs[k - 1].len
    <3>1. CASE k = m
      <4>1. next[k] = pos[m - 1] + LenField + bs[m - 1].len
        BY <3>1
      <4>2. next[m - 1] = pos[m - 1]
        BY <2>1, <2>3
      <4> QED BY <1>3, <3>1, <4>1, <4>2
    <3>2. CASE k # m /\ k # 0
      <4>1. k \in 0 .. m - 1 /\ k - 1 \in 0 .. m - 1
        BY <1>1, <3>2
      <4> QED BY <2>3, <2>4, <3>2, <4>1
    <3>3. CASE k # m /\ k = 0
      <4>1. k \in 0 .. m - 1
        BY <1>1, <3>3
      <4> QED BY <2>3, <2>4, <3>3, <4>1
    <3> QED BY <3>1, <3>2, <3>3
  <2>6. IsPositions(next, m, bs)
    <3>1. next = [k \in 0 .. m |-> next[k]]
      OBVIOUS
    <3> HIDE DEF next
    <3> QED BY <2>5, <3>1 DEF IsPositions
  <2> QED BY <1>1, <2>6
<1> QED BY <1>2, <1>3

\* Position is what the writer adds up, chunk after chunk.
LEMMA PositionUnfolds ==
  ASSUME NumChunks \in Nat
  PROVE  /\ Position(0) = HeaderLen
         /\ \A k \in 1 .. NumChunks : Position(k) = Position(k - 1) + LenField + blobs[k - 1].len
<1>1. IsPositions(Positions, NumChunks, blobs)
  <2>1. \E pos : IsPositions(pos, NumChunks, blobs)
    BY PositionsExist
  <2>2. Positions = CHOOSE pos : IsPositions(pos, NumChunks, blobs)
    BY DEF Positions, IsPositions
  <2> QED BY <2>1, <2>2
<1>2. \A k \in 0 .. NumChunks :
        Positions[k] = IF k = 0 THEN HeaderLen ELSE Positions[k - 1] + LenField + blobs[k - 1].len
  BY <1>1 DEF IsPositions
<1> QED BY <1>2 DEF Position

(* Every chunk has a compressed form of some length. *)
AllCompressed == \A i \in 0 .. NumChunks - 1 : blobs[i].len \in Nat

\* Positions are numbers.
LEMMA PositionType ==
  ASSUME NumChunks \in Nat, AllCompressed
  PROVE  \A k \in 0 .. NumChunks : Position(k) \in Nat
<1> DEFINE Bad == {k \in 0 .. NumChunks : Position(k) \notin Nat}
<1> SUFFICES ASSUME Bad # {} PROVE FALSE
  OBVIOUS
<1>1. PICK m \in Bad : \A k \in Bad : m <= k
  <2>1. Bad \subseteq Nat
    OBVIOUS
  <2> HIDE DEF Bad
  <2> QED BY <2>1, LeastOf
<1>2. m # 0
  BY PositionUnfolds DEF HeaderLen
<1>3. m \in 1 .. NumChunks /\ m - 1 \in 0 .. NumChunks - 1 /\ Position(m - 1) \in Nat
  BY <1>1, <1>2
<1>4. Position(m) = Position(m - 1) + LenField + blobs[m - 1].len
  BY <1>3, PositionUnfolds
<1> QED BY <1>1, <1>3, <1>4 DEF AllCompressed, LenField

\* A chunk ends where the next one starts or later chunks do, and never behind the file.
LEMMA PositionMonotone ==
  ASSUME NumChunks \in Nat, AllCompressed, NEW j \in 0 .. NumChunks
  PROVE  Position(j) <= Position(NumChunks)
<1> DEFINE Bad == {d \in 0 .. NumChunks : ~(Position(NumChunks - d) <= Position(NumChunks))}
<1>1. Bad = {}
  <2> SUFFICES ASSUME Bad # {} PROVE FALSE
    OBVIOUS
  <2>1. PICK m \in Bad : \A k \in Bad : m <= k
    <3>1. Bad \subseteq Nat
      OBVIOUS
    <3> HIDE DEF Bad
    <3> QED BY <3>1, LeastOf
  <2>2. m # 0
    <3>1. NumChunks - 0 = NumChunks /\ Position(NumChunks) \in Nat
      BY PositionType
    <3> QED BY <2>1, <3>1
  <2>3. m - 1 \in 0 .. NumChunks /\ m - 1 \notin Bad
    BY <2>1, <2>2
  <2>4. PICK k \in 1 .. NumChunks : k = NumChunks - (m - 1) /\ k - 1 = NumChunks - m
    BY <2>1, <2>2
  <2>5. Position(k) <= Position(NumChunks)
    BY <2>3, <2>4
  <2>6. Position(k) = Position(k - 1) + LenField + blobs[k - 1].len
    BY PositionUnfolds
  <2>7. /\ Position(k) \in Nat /\ Position(k - 1) \in Nat /\ Position(NumChunks) \in Nat
        /\ blobs[k - 1].len \in Nat
    BY PositionType DEF AllCompressed
  <2>8. Position(k - 1) <= Position(NumChunks)
    BY <2>5, <2>6, <2>7 DEF LenField
  <2> QED BY <2>1, <2>4, <2>8
<1>2. NumChunks - j \in 0 .. NumChunks /\ NumChunks - (NumChunks - j) = j
  OBVIOUS
<1> QED BY <1>1, <1>2

-----------------------------------------------------------------------------
(* Pieces of the data *)

\* The data is a sequence of numbers, and the chunks cover it.
LEMMA DataChunks ==
  ASSUME data \in Files, chunkSize \in ChunkSizes
  PROVE  /\ data \in Seq(Nat) /\ Len(data) \in Nat /\ chunkSize \in Nat \ {0}
         /\ NumChunks \in Nat
         /\ NumChunks * chunkSize >= Len(data)
         /\ \A i \in 0 .. NumChunks - 1 : i * chunkSize \in Nat /\ i * chunkSize < Len(data)
<1>1. PICK len \in Lengths : data = Data(len)
  BY DEF Files
<1>2. data \in Seq(Nat) /\ Len(data) = len /\ len \in Nat /\ chunkSize \in Nat \ {0}
  BY <1>1, ChunkedAssumption DEF Data
<1>3. PICK rows : rows = NumChunks
  OBVIOUS
<1>4. rows \in Nat /\ rows * chunkSize >= len /\ rows * chunkSize <= len + chunkSize - 1
  BY <1>2, <1>3 DEF NumChunks
<1>5. ASSUME NEW i \in 0 .. rows - 1
      PROVE  i * chunkSize \in Nat /\ i * chunkSize < len
  <2>1. PICK c \in Nat : c = chunkSize
    BY <1>2
  <2>2. (rows - 1) * c = rows * c - c /\ rows * c \in Nat
    BY <1>4, <2>1
  <2>3. i * c <= (rows - 1) * c /\ i * c \in Nat
    BY <1>4, <2>1
  <2>4. PICK p \in Nat, q \in Nat : p = rows * c /\ q = i * c
    BY <2>2, <2>3
  <2>5. q <= p - c /\ p <= len + c - 1
    BY <1>4, <2>1, <2>2, <2>3, <2>4
  <2>6. q < len
    BY <1>2, <2>1, <2>4, <2>5
  <2> QED BY <2>1, <2>4, <2>6
<1> QED BY <1>2, <1>3, <1>4, <1>5

(* What decode_chunked has after k chunks. *)
Prefix(k) == SubSeq(data, 1, Smaller(k * chunkSize, Len(data)))

\* One more chunk makes the next prefix.
LEMMA PrefixGrows ==
  ASSUME data \in Files, chunkSize \in ChunkSizes, NEW k \in 0 .. NumChunks - 1
  PROVE  Prefix(k) \o Piece(k) = Prefix(k + 1)
<1>1. PICK n \in Nat, c \in Nat, p \in Nat :
        n = Len(data) /\ c = chunkSize /\ p = k * chunkSize /\ p < n
  BY DataChunks
<1>2. (k + 1) * chunkSize = p + c
  BY <1>1
<1>3. PICK q : q = Smaller(p + c, n)
  OBVIOUS
<1>4. q \in p .. n /\ Smaller(p, n) = p
  BY <1>1, <1>3 DEF Smaller
<1>5. Prefix(k) = SubSeq(data, 1, p) /\ Piece(k) = SubSeq(data, p + 1, q)
      /\ Prefix(k + 1) = SubSeq(data, 1, q)
  BY <1>1, <1>2, <1>3, <1>4 DEF Prefix, Piece
<1>6. data \in Seq(Nat) /\ 1 \in 1 .. Len(data) + 1 /\ p \in 1 - 1 .. Len(data) /\ q \in p .. Len(data)
  BY <1>1, <1>4, DataChunks
<1>7. SubSeq(data, 1, p) \o SubSeq(data, p + 1, q) = SubSeq(data, 1, q)
  BY <1>6, ConcatAdjacentSubSeq
<1> QED BY <1>5, <1>7

\* The first prefix is empty and the last one is all the data.
LEMMA PrefixEnds ==
  ASSUME data \in Files, chunkSize \in ChunkSizes
  PROVE  Prefix(0) = <<>> /\ Prefix(NumChunks) = data
<1>1. PICK n \in Nat, c \in Nat : n = Len(data) /\ c = chunkSize
  BY DataChunks
<1>2. Smaller(0 * chunkSize, Len(data)) = 0
  BY <1>1 DEF Smaller
<1>3. Prefix(0) = <<>>
  BY <1>2, SubSeqEmpty DEF Prefix
<1>4. Smaller(NumChunks * chunkSize, Len(data)) = Len(data)
  <2>1. PICK p \in Int : p = NumChunks * chunkSize /\ p >= n
    BY <1>1, DataChunks
  <2> QED BY <1>1, <2>1 DEF Smaller
<1>5. Prefix(NumChunks) = data
  BY <1>4, DataChunks, SubSeqFull DEF Prefix
<1> QED BY <1>3, <1>5

-----------------------------------------------------------------------------
(* The inductive invariant *)

IsBlob(i) == \E len \in BlobLens : blobs[i] = [len |-> len, piece |-> Piece(i)]

(* The file the writer made, of which size bytes are there. *)
StoredInv ==
  /\ \A i \in 0 .. NumChunks - 1 : IsBlob(i)
  /\ header = [originalLen |-> Len(data) % U32, count |-> NumChunks % U16]
  /\ size \in 0 .. Position(NumChunks)

(* The decoder between two turns of its loop. *)
ReadInv ==
  /\ chunk \in 0 .. header.count
  /\ offset = Position(chunk) /\ offset <= size
  /\ out = Prefix(chunk) /\ result = None

(* The two answers, and when each is given. *)
AnswerInv ==
  /\ result.ok \in BOOLEAN /\ offset \in 0 .. size /\ chunk \in Nat
  /\ FitsHeader => \/ result = Ok(data) /\ size = Position(NumChunks)
                   \/ result = Err /\ size < Position(NumChunks)

NothingRead == offset = 0 /\ chunk = 0 /\ out = <<>> /\ result = None

IInv ==
  /\ data \in Files /\ chunkSize \in ChunkSizes
  /\ phase \in {"compress", "stored", "read", "done"}
  /\ DOMAIN blobs = 0 .. NumChunks - 1
  /\ \A i \in 0 .. NumChunks - 1 : blobs[i] = None \/ IsBlob(i)
  /\ phase \in {"compress", "stored"} => NothingRead
  /\ phase = "compress" => size = 0
  /\ phase # "compress" => StoredInv
  /\ phase = "read" => ReadInv
  /\ phase = "done" => AnswerInv

\* A compressed chunk has a length.
LEMMA BlobLength ==
  ASSUME NEW i, IsBlob(i)
  PROVE  blobs[i].len \in BlobLens /\ blobs[i].len \in Nat /\ blobs[i].piece = Piece(i)
<1>1. PICK len \in BlobLens : blobs[i] = [len |-> len, piece |-> Piece(i)]
  BY DEF IsBlob
<1>2. blobs[i].len = len /\ blobs[i].piece = Piece(i)
  BY <1>1
<1>3. len \in Nat
  BY ChunkedAssumption
<1> QED BY <1>2, <1>3

\* The facts about the stored file the steps of the decoder use.
LEMMA StoredFacts ==
  ASSUME IInv, phase # "compress"
  PROVE  /\ NumChunks \in Nat /\ AllCompressed
         /\ \A k \in 0 .. NumChunks : Position(k) \in Nat /\ Position(k) <= Position(NumChunks)
         /\ size \in Nat /\ size <= Position(NumChunks) /\ Position(0) = HeaderLen
         /\ header.count \in 0 .. NumChunks
         /\ FitsHeader => header.count = NumChunks /\ header.originalLen = Len(data)
<1>1. /\ NumChunks \in Nat /\ Len(data) \in Nat
      /\ U16 \in Nat \ {0} /\ U32 \in Nat \ {0}
  BY DataChunks, ChunkedAssumption DEF IInv
<1>2. AllCompressed
  BY BlobLength DEF IInv, StoredInv, AllCompressed
<1>3. \A k \in 0 .. NumChunks : Position(k) \in Nat /\ Position(k) <= Position(NumChunks)
  BY <1>1, <1>2, PositionType, PositionMonotone
<1>4. /\ header.count = NumChunks % U16 /\ header.originalLen = Len(data) % U32
      /\ size \in 0 .. Position(NumChunks)
  BY DEF IInv, StoredInv
<1>5. header.count \in 0 .. NumChunks
  <2>1. PICK n \in Nat, u \in Nat \ {0} : n = NumChunks /\ u = U16
    BY <1>1
  <2>2. n % u \in 0 .. u - 1 /\ n = (n \div u) * u + (n % u) /\ n \div u \in Nat
    BY <2>1
  <2>3. (n \div u) * u \in Nat
    BY <2>1, <2>2
  <2>4. n % u \in 0 .. n
    BY <2>1, <2>2, <2>3
  <2> QED BY <1>4, <2>1, <2>4
<1>6. FitsHeader => header.count = NumChunks /\ header.originalLen = Len(data)
  BY <1>1, <1>4 DEF FitsHeader
<1>7. Position(0) = HeaderLen
  BY <1>1, PositionUnfolds
<1> QED BY <1>1, <1>2, <1>3, <1>4, <1>5, <1>6, <1>7

\* No chunk is compressed and nothing is read yet.
LEMMA InitIInv == Init => IInv
BY DEF Init, IInv, NothingRead

\* A worker's chunk is made of its own piece.
LEMMA CompressIInv ==
  ASSUME IInv, NEW j \in DOMAIN blobs, Compress(j)
  PROVE  IInv'
<1>1. /\ phase = "compress" /\ phase' = phase
      /\ UNCHANGED <<data, chunkSize, size, offset, chunk, out, result>>
  BY DEF Compress
<1>2. PICK len \in BlobLens : blobs' = [blobs EXCEPT ![j] = [len |-> len, piece |-> Piece(j)]]
  BY DEF Compress
<1>3. NumChunks' = NumChunks /\ \A i : Piece(i)' = Piece(i)
  BY <1>1 DEF NumChunks, Piece
<1>4. DOMAIN blobs' = 0 .. NumChunks' - 1
  BY <1>2, <1>3 DEF IInv
<1>5. ASSUME NEW i \in 0 .. NumChunks - 1
      PROVE  blobs'[i] = None \/ IsBlob(i)'
  <2>1. CASE i = j
    <3>1. blobs'[i] = [len |-> len, piece |-> Piece(i)]
      BY <1>2, <2>1 DEF IInv
    <3> QED BY <1>3, <3>1 DEF IsBlob
  <2>2. CASE i # j
    <3>1. blobs'[i] = blobs[i]
      BY <1>2, <2>2 DEF IInv
    <3> QED BY <1>3, <3>1 DEF IsBlob, IInv
  <2> QED BY <2>1, <2>2
<1>6. NothingRead' /\ size' = 0
  BY <1>1 DEF IInv, NothingRead
<1> QED BY <1>1, <1>3, <1>4, <1>5, <1>6 DEF IInv

\* The blobs, and so the positions, stay what they are once the file is stored.
LEMMA SameFile ==
  ASSUME UNCHANGED <<data, chunkSize, blobs>>
  PROVE  /\ NumChunks' = NumChunks /\ FitsHeader' = FitsHeader
         /\ \A i : Position(i)' = Position(i) /\ Prefix(i)' = Prefix(i) /\ IsBlob(i)' = IsBlob(i)
         /\ \A i : Piece(i)' = Piece(i)
<1>1. NumChunks' = NumChunks
  BY DEF NumChunks
<1>2. \A i : Position(i)' = Position(i)
  BY <1>1 DEF Position, Positions
<1>3. \A i : Prefix(i)' = Prefix(i) /\ Piece(i)' = Piece(i)
  BY DEF Prefix, Piece
<1>4. \A i : IsBlob(i)' = IsBlob(i)
  BY <1>3 DEF IsBlob
<1>5. FitsHeader' = FitsHeader
  BY <1>1 DEF FitsHeader
<1> QED BY <1>1, <1>2, <1>3, <1>4, <1>5

\* Store: the whole file is there.
LEMMA StoreIInv ==
  ASSUME IInv, Store
  PROVE  IInv'
<1>1. /\ phase = "compress" /\ phase' = "stored" /\ \A i \in DOMAIN blobs : blobs[i] # None
      /\ UNCHANGED <<data, chunkSize, blobs, offset, chunk, out, result>>
      /\ header' = [originalLen |-> Len(data) % U32, count |-> NumChunks % U16]
      /\ size' = Position(NumChunks)
  BY DEF Store
<1>2. NumChunks \in Nat /\ \A i \in 0 .. NumChunks - 1 : IsBlob(i)
  BY <1>1, DataChunks DEF IInv
<1>3. AllCompressed
  BY <1>2, BlobLength DEF AllCompressed
<1>4. size' \in 0 .. Position(NumChunks)
  <2>1. Position(NumChunks) \in Nat
    BY <1>2, <1>3, PositionType
  <2> QED BY <1>1, <2>1
<1>5. StoredInv'
  BY <1>1, <1>2, <1>4, SameFile DEF StoredInv
<1>6. NothingRead'
  BY <1>1 DEF IInv, NothingRead
<1> QED BY <1>1, <1>5, <1>6, SameFile DEF IInv

\* CutShort: fewer bytes are there, the rest is as it was.
LEMMA CutShortIInv ==
  ASSUME IInv, CutShort
  PROVE  IInv'
<1>1. /\ phase = "stored" /\ phase' = phase /\ size = Position(NumChunks)
      /\ UNCHANGED <<data, chunkSize, blobs, header, offset, chunk, out, result>>
  BY DEF CutShort
<1>2. PICK left \in 0 .. size - 1 : size' = left
  BY DEF CutShort
<1>3. size' \in 0 .. Position(NumChunks)
  BY <1>1, <1>2, StoredFacts
<1>4. StoredInv'
  BY <1>1, <1>3, SameFile DEF IInv, StoredInv
<1>5. NothingRead'
  BY <1>1 DEF IInv, NothingRead
<1> QED BY <1>1, <1>4, <1>5, SameFile DEF IInv

\* What the steps of the decoder leave alone.
LEMMA DecodingKeepsFile ==
  ASSUME IInv, phase # "compress", UNCHANGED <<data, chunkSize, blobs, header, size>>,
         phase' \in {"read", "done"},
         phase' = "read" => ReadInv', phase' = "done" => AnswerInv'
  PROVE  IInv'
<1>1. StoredInv'
  BY SameFile DEF IInv, StoredInv
<1> QED BY <1>1, SameFile DEF IInv

\* ReadHeader: a file shorter than a header is a cut one.
LEMMA ReadHeaderIInv ==
  ASSUME IInv, ReadHeader
  PROVE  IInv'
<1>1. phase = "stored" /\ UNCHANGED <<data, chunkSize, blobs, header, size, chunk, out>>
  BY DEF ReadHeader
<1>2. NothingRead
  BY <1>1 DEF IInv
<1>3. /\ NumChunks \in Nat /\ Position(0) = HeaderLen /\ size \in Nat
      /\ Position(0) <= Position(NumChunks) /\ Position(NumChunks) \in Nat
      /\ header.count \in Nat
  BY <1>1, StoredFacts
<1>4. CASE size < HeaderLen
  <2>1. phase' = "done" /\ result' = Err /\ offset' = offset
    BY <1>4 DEF ReadHeader, Answer
  <2>2. size < Position(NumChunks)
    BY <1>3, <1>4 DEF HeaderLen
  <2>3. AnswerInv'
    BY <1>1, <1>2, <1>3, <2>1, <2>2, SameFile DEF AnswerInv, NothingRead, Err
  <2> QED BY <1>1, <2>1, <2>3, DecodingKeepsFile
<1>5. CASE ~(size < HeaderLen)
  <2>1. phase' = "read" /\ result' = None /\ offset' = HeaderLen /\ chunk' = 0 /\ out' = <<>>
    BY <1>1, <1>2, <1>5 DEF ReadHeader, NothingRead
  <2>2. offset' <= size'
    BY <1>1, <1>3, <1>5, <2>1 DEF HeaderLen
  <2>3. Prefix(0) = <<>>
    BY PrefixEnds DEF IInv
  <2>4. ReadInv'
    BY <1>1, <1>3, <2>1, <2>2, <2>3, SameFile DEF ReadInv
  <2> QED BY <1>1, <2>1, <2>4, DecodingKeepsFile
<1> QED BY <1>4, <1>5

\* ReadChunk: the bounds checks refuse exactly a chunk that is not all there.
LEMMA ReadChunkFacts ==
  ASSUME IInv, ReadChunk
  PROVE  /\ chunk \in 0 .. NumChunks - 1 /\ chunk + 1 \in 0 .. header.count
         /\ offset + LenField + blobs[chunk].len = Position(chunk + 1)
         /\ Position(chunk + 1) \in Nat /\ Position(chunk + 1) <= Position(NumChunks)
         /\ (offset + LenField > size \/ offset + LenField + blobs[chunk].len > size)
              <=> Position(chunk + 1) > size
         /\ blobs[chunk].piece = Piece(chunk)
<1>1. phase = "read" /\ chunk < header.count /\ ReadInv /\ StoredInv
  BY DEF IInv, ReadChunk
<1>2. header.count \in 0 .. NumChunks /\ NumChunks \in Nat /\ size \in Nat
  BY <1>1, StoredFacts
<1>3. chunk \in 0 .. NumChunks - 1 /\ chunk + 1 \in 0 .. header.count /\ chunk + 1 \in 1 .. NumChunks
  BY <1>1, <1>2 DEF ReadInv
<1>4. Position(chunk) \in Nat /\ Position(chunk + 1) \in Nat
      /\ Position(chunk + 1) <= Position(NumChunks)
  BY <1>1, <1>2, <1>3, StoredFacts
<1>5. blobs[chunk].len \in Nat /\ blobs[chunk].piece = Piece(chunk)
  BY <1>1, <1>3, BlobLength DEF StoredInv
<1>6. PICK k : k = chunk + 1 /\ k - 1 = chunk
  BY <1>3
<1>7. Position(k) = Position(k - 1) + LenField + blobs[k - 1].len
  BY <1>2, <1>3, <1>6, PositionUnfolds
<1>8. offset + LenField + blobs[chunk].len = Position(chunk + 1)
  BY <1>1, <1>6, <1>7 DEF ReadInv
<1>9. offset + LenField <= offset + LenField + blobs[chunk].len
  BY <1>1, <1>4, <1>5 DEF ReadInv, LenField
<1> QED BY <1>1, <1>2, <1>3, <1>4, <1>5, <1>8, <1>9 DEF ReadInv, LenField

\* ReadChunk keeps the decoder at a chunk boundary, or refuses a cut file.
LEMMA ReadChunkIInv ==
  ASSUME IInv, ReadChunk
  PROVE  IInv'
<1>1. phase = "read" /\ ReadInv /\ UNCHANGED <<data, chunkSize, blobs, header, size>>
  BY DEF IInv, ReadChunk
<1>2. /\ chunk \in 0 .. NumChunks - 1 /\ chunk + 1 \in 0 .. header.count
      /\ offset + LenField + blobs[chunk].len = Position(chunk + 1)
      /\ Position(chunk + 1) \in Nat /\ Position(chunk + 1) <= Position(NumChunks)
      /\ (offset + LenField > size \/ offset + LenField + blobs[chunk].len > size)
           <=> Position(chunk + 1) > size
      /\ blobs[chunk].piece = Piece(chunk)
  BY ReadChunkFacts
<1>3. size \in Nat /\ Position(NumChunks) \in Nat /\ NumChunks \in Nat
  BY <1>1, StoredFacts
<1>4. CASE Position(chunk + 1) > size
  <2>1. phase' = "done" /\ result' = Err /\ UNCHANGED <<offset, chunk, out>>
    BY <1>2, <1>4 DEF ReadChunk, Answer
  <2>2. size < Position(NumChunks)
    BY <1>2, <1>3, <1>4
  <2>3. offset \in 0 .. size /\ chunk \in Nat
    <3>1. Position(chunk) \in Nat
      BY <1>1, <1>2, StoredFacts
    <3> QED BY <1>1, <1>2, <1>3, <3>1 DEF ReadInv
  <2>4. AnswerInv'
    BY <1>1, <2>1, <2>2, <2>3, SameFile DEF AnswerInv, Err
  <2> QED BY <1>1, <2>1, <2>4, DecodingKeepsFile
<1>5. CASE ~(Position(chunk + 1) > size)
  <2>1. /\ out' = out \o Piece(chunk) /\ chunk' = chunk + 1
        /\ offset' = Position(chunk + 1) /\ phase' = "read" /\ result' = None
    BY <1>1, <1>2, <1>5 DEF ReadChunk, ReadInv
  <2>2. out' = Prefix(chunk + 1)
    BY <1>1, <1>2, <2>1, PrefixGrows DEF ReadInv, IInv
  <2>3. offset' <= size'
    BY <1>1, <1>2, <1>3, <1>5, <2>1
  <2>4. ReadInv'
    BY <1>1, <1>2, <2>1, <2>2, <2>3, SameFile DEF ReadInv
  <2> QED BY <1>1, <2>1, <2>4, DecodingKeepsFile
<1> QED BY <1>4, <1>5

\* Finish: if the header fits, all chunks were read, and the file is whole.
LEMMA FinishFacts ==
  ASSUME IInv, Finish
  PROVE  /\ phase' = "done" /\ result'.ok = TRUE
         /\ UNCHANGED <<data, chunkSize, blobs, header, size, offset, chunk, out>>
         /\ FitsHeader => result' = Ok(data) /\ size = Position(NumChunks)
<1>1. phase = "read" /\ chunk = header.count /\ ReadInv /\ phase' = "done"
      /\ UNCHANGED <<data, chunkSize, blobs, header, size, offset, chunk, out>>
      /\ result' = Ok(SubSeq(out, 1, Smaller(header.originalLen, Len(out))))
  BY DEF IInv, Finish, Answer
<1>2. result'.ok = TRUE
  BY <1>1 DEF Ok
<1>3. ASSUME FitsHeader
      PROVE  result' = Ok(data) /\ size = Position(NumChunks)
  <2>1. /\ chunk = NumChunks /\ header.originalLen = Len(data) /\ size \in Nat
        /\ size <= Position(NumChunks) /\ Position(NumChunks) \in Nat /\ NumChunks \in Nat
    BY <1>1, <1>3, StoredFacts
  <2>2. size = Position(NumChunks)
    BY <1>1, <2>1 DEF ReadInv
  <2>3. out = data /\ data \in Seq(Nat)
    BY <1>1, <2>1, PrefixEnds, DataChunks DEF ReadInv, IInv
  <2>4. Smaller(header.originalLen, Len(out)) = Len(data)
    BY <2>1, <2>3 DEF Smaller
  <2> QED BY <1>1, <2>2, <2>3, <2>4, SubSeqFull
<1> QED BY <1>1, <1>2, <1>3

\* Finish answers, and what it answers is right.
LEMMA FinishIInv ==
  ASSUME IInv, Finish
  PROVE  IInv'
<1>1. phase = "read" /\ ReadInv
  BY DEF IInv, Finish
<1>2. /\ phase' = "done" /\ result'.ok = TRUE
      /\ UNCHANGED <<data, chunkSize, blobs, header, size, offset, chunk, out>>
      /\ FitsHeader => result' = Ok(data) /\ size = Position(NumChunks)
  BY FinishFacts
<1>3. offset \in 0 .. size /\ chunk \in Nat
  <2>1. header.count \in 0 .. NumChunks /\ size \in Nat
        /\ \A k \in 0 .. NumChunks : Position(k) \in Nat
        /\ NumChunks \in Nat
    BY <1>1, StoredFacts
  <2>2. chunk \in 0 .. NumChunks
    BY <1>1, <2>1 DEF ReadInv
  <2> QED BY <1>1, <2>1, <2>2 DEF ReadInv
<1>4. AnswerInv'
  <2>1. FitsHeader' => result' = Ok(data)' /\ size' = Position(NumChunks)'
    BY <1>2, SameFile DEF Ok
  <2> QED BY <1>2, <1>3, <2>1 DEF AnswerInv
<1> QED BY <1>1, <1>2, <1>4, DecodingKeepsFile

\* Every step preserves the invariant.
LEMMA NextIInv == IInv /\ [Next]_vars => IInv'
<1> SUFFICES ASSUME IInv, [Next]_vars PROVE IInv'
  OBVIOUS
<1>1. CASE UNCHANGED vars
  <2>1. UNCHANGED <<data, chunkSize, phase, blobs, header, size, offset, chunk, out, result>>
    BY <1>1 DEF vars
  <2>2. NothingRead' = NothingRead /\ StoredInv' = StoredInv
    BY <2>1, SameFile DEF NothingRead, StoredInv
  <2>3. ReadInv' = ReadInv /\ AnswerInv' = AnswerInv
    BY <2>1, SameFile DEF ReadInv, AnswerInv
  <2> QED BY <2>1, <2>2, <2>3, SameFile DEF IInv
<1>2. ASSUME NEW i \in DOMAIN blobs, Compress(i) PROVE IInv'
  BY <1>2, CompressIInv
<1> QED BY <1>1, <1>2, StoreIInv, CutShortIInv, ReadHeaderIInv, ReadChunkIInv, FinishIInv
        DEF Next, Encoding, Decoding

\* The invariant holds throughout.
LEMMA Invariance == Spec => []IInv
BY InitIInv, NextIInv, PTL DEF Spec

-----------------------------------------------------------------------------
(* The theorems *)

\* Every variable keeps its type, and the decoder never reads behind the end of the file.
THEOREM TypeCorrect == Spec => []TypeOK
<1>1. IInv => TypeOK
  <2> SUFFICES ASSUME IInv PROVE TypeOK
    OBVIOUS
  <2>1. \A i \in DOMAIN blobs : blobs[i] # None => blobs[i].len \in BlobLens
    BY BlobLength DEF IInv
  <2>2. CASE phase = "compress"
    BY <2>1, <2>2 DEF IInv, NothingRead, TypeOK
  <2>3. CASE phase = "stored"
    BY <2>1, <2>3, StoredFacts DEF IInv, NothingRead, TypeOK
  <2>4. CASE phase = "read"
    <3>1. /\ size \in Nat /\ NumChunks \in Nat /\ header.count \in 0 .. NumChunks
          /\ \A k \in 0 .. NumChunks : Position(k) \in Nat
      BY <2>4, StoredFacts
    <3>2. ReadInv
      BY <2>4 DEF IInv
    <3>3. chunk \in 0 .. NumChunks
      BY <3>1, <3>2 DEF ReadInv
    <3>4. chunk \in Nat /\ offset \in 0 .. size /\ result = None
      BY <3>1, <3>2, <3>3 DEF ReadInv
    <3> QED BY <2>1, <2>4, <3>1, <3>4 DEF IInv, TypeOK
  <2>5. CASE phase = "done"
    BY <2>1, <2>5, StoredFacts DEF IInv, AnswerInv, TypeOK
  <2> QED BY <2>2, <2>3, <2>4, <2>5 DEF IInv
<1> QED BY <1>1, Invariance, PTL

(* The decoder stands where a chunk starts, whatever the lengths before it, and has the *)
(* bytes of the chunks before.                                                          *)
THEOREM AlwaysAtChunkBoundary == Spec => []AtChunkBoundary
<1>1. IInv => AtChunkBoundary
  BY DEF IInv, ReadInv, AtChunkBoundary, Prefix
<1> QED BY <1>1, Invariance, PTL

\* When the invariant answers, and what it answers if the header could say it.
LEMMA AnswerFacts ==
  ASSUME IInv, result # None, FitsHeader
  PROVE  \/ result = Ok(data) /\ size = Position(NumChunks)
         \/ result = Err /\ size < Position(NumChunks)
BY DEF IInv, NothingRead, ReadInv, AnswerInv

(* Whatever decode_chunked accepts is the data, if the header's fields could hold its   *)
(* count and its length.                                                                *)
THEOREM AlwaysAcceptsOnlyTheData == Spec => []AcceptsOnlyTheData
<1>1. IInv => AcceptsOnlyTheData
  <2> SUFFICES ASSUME IInv, result # None, result.ok, FitsHeader PROVE result.data = data
    BY DEF AcceptsOnlyTheData
  <2>1. result # Err
    BY DEF Err
  <2> QED BY <2>1, AnswerFacts DEF Ok
<1> QED BY <1>1, Invariance, PTL

(* A file cut at any byte, between two chunks too, is refused, and a whole one is not.  *)
THEOREM CutFileAlwaysRefused == Spec => []CutFileRefused
<1>1. IInv => CutFileRefused
  <2> SUFFICES ASSUME IInv, result # None, FitsHeader
               PROVE  result.ok <=> size = Position(NumChunks)
    BY DEF CutFileRefused
  <2>1. size \in Nat /\ Position(NumChunks) \in Nat
    <3>1. phase # "compress"
      BY DEF IInv, NothingRead
    <3> QED BY <3>1, StoredFacts
  <2>2. Ok(data).ok = TRUE /\ Err.ok = FALSE
    BY DEF Ok, Err
  <2> QED BY <2>1, <2>2, AnswerFacts
<1> QED BY <1>1, Invariance, PTL

(* The safety part of the refinement: as long as the header fits, every step of PLTS is *)
(* a step of the channel or leaves it alone.                                            *)
THEOREM ImplementsChannel ==
  Spec /\ []FitsHeader => Channel!Init /\ [][Channel!Next]_(Channel!vars)
<1> DEFINE intact == phase = "compress" \/ size = Position(NumChunks)
<1> DEFINE received == IF result = None THEN None ELSE IF result.ok THEN result.data ELSE Refused
<1>1. Init => Channel!Init
  BY DEF Init, Channel!Init
<1>2. ASSUME IInv, FitsHeader, [Next]_vars
      PROVE  [Channel!Next]_(Channel!vars)
  <2>1. CASE UNCHANGED vars
    <3>1. UNCHANGED <<data, chunkSize, blobs, phase, size, result>>
      BY <2>1 DEF vars
    <3>2. UNCHANGED <<data, intact, received>>
      BY <3>1, SameFile
    <3> QED BY <3>2 DEF Channel!vars
  <2>2. ASSUME NEW i \in DOMAIN blobs, Compress(i) PROVE [Channel!Next]_(Channel!vars)
    <3>1. phase = "compress" /\ UNCHANGED <<data, phase, result>>
      BY <2>2 DEF Compress
    <3> QED BY <3>1 DEF Channel!vars
  <2>3. CASE Store
    <3>1. /\ phase = "compress" /\ size' = Position(NumChunks)
          /\ UNCHANGED <<data, chunkSize, blobs, result>>
      BY <2>3 DEF Store
    <3>2. size' = Position(NumChunks)'
      BY <3>1, SameFile
    <3> QED BY <3>1, <3>2 DEF Channel!vars
  <2>4. CASE CutShort
    <3>1. /\ phase = "stored" /\ phase' = "stored" /\ size = Position(NumChunks)
          /\ UNCHANGED <<data, chunkSize, blobs, result>>
      BY <2>4 DEF CutShort
    <3>2. result = None
      BY <1>2, <3>1 DEF IInv, NothingRead
    <3>3. size' # Position(NumChunks)
      <4>1. PICK left \in 0 .. size - 1 : size' = left
        BY <2>4 DEF CutShort
      <4>2. Position(NumChunks) \in Nat
        BY <1>2, <3>1, StoredFacts
      <4> QED BY <3>1, <4>1, <4>2
    <3>4. Position(NumChunks)' = Position(NumChunks)
      BY <3>1, SameFile
    <3>5. Channel!Damage
      BY <3>1, <3>2, <3>3, <3>4 DEF Channel!Damage
    <3> QED BY <3>5 DEF Channel!Next
  <2>5. ASSUME phase # "compress", phase' # "compress", result = None,
               UNCHANGED <<data, chunkSize, blobs, size>>,
               result' = None \/ AnswerInv'
        PROVE  [Channel!Next]_(Channel!vars)
    <3>1. UNCHANGED <<data, intact>> /\ received = None
      BY <2>5, SameFile
    <3>2. CASE result' = None
      BY <3>1, <3>2 DEF Channel!vars
    <3>3. CASE result' # None
      <4>1. \/ result' = Ok(data) /\ size = Position(NumChunks)
            \/ result' = Err /\ size < Position(NumChunks)
        BY <1>2, <2>5, <3>3, SameFile DEF AnswerInv, Ok
      <4>2. received' = IF intact THEN data ELSE Refused
        <5>1. CASE result' = Ok(data) /\ size = Position(NumChunks)
          BY <3>3, <5>1 DEF Ok
        <5>2. CASE result' = Err /\ size < Position(NumChunks)
          <6>1. size \in Nat /\ Position(NumChunks) \in Nat
            BY <1>2, <2>5, StoredFacts
          <6> QED BY <2>5, <3>3, <5>2, <6>1 DEF Err
        <5> QED BY <4>1, <5>1, <5>2
      <4>3. Channel!Answer
        BY <3>1, <4>2 DEF Channel!Answer
      <4> QED BY <4>3 DEF Channel!Next
    <3> QED BY <3>2, <3>3
  <2>6. CASE Decoding
    <3>1. IInv'
      BY <1>2, NextIInv
    <3>2. phase \in {"stored", "read"} /\ phase' \in {"read", "done"} /\ result = None
      BY <1>2, <2>6 DEF Decoding, ReadHeader, ReadChunk, Finish, Answer, IInv, NothingRead, ReadInv
    <3>3. UNCHANGED <<data, chunkSize, blobs, size>>
      BY <2>6 DEF Decoding, ReadHeader, ReadChunk, Finish
    <3>4. result' = None \/ AnswerInv'
      BY <3>1, <3>2 DEF IInv, ReadInv
    <3> QED BY <2>5, <3>2, <3>3, <3>4
  <2> QED BY <1>2, <2>1, <2>2, <2>3, <2>4, <2>6 DEF Next, Encoding
<1>3. IInv /\ FitsHeader /\ [Next]_vars => [Channel!Next]_(Channel!vars)
  BY <1>2
<1> QED BY <1>1, <1>3, Invariance, PTL DEF Spec
=============================================================================
