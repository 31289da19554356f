----------------------------- MODULE PackProofs -----------------------------
(***************************************************************************)
(* Proofs about PackFile, for any chunks, sizes, bounds and faults.        *)
(***************************************************************************)
EXTENDS PackFile, WellFoundedInduction, SequenceTheorems, TLAPS

(* The least and the greatest of a set of numbers.                         *)
LEMMA LeastOf ==
  ASSUME NEW S \in SUBSET Nat, S # {}
  PROVE  \E m \in S : \A k \in S : m <= k
<1> DEFINE R == {ss \in Nat \X Nat : ss[1] < ss[2]}
<1>1. IsWellFoundedOn(R, Nat)
  BY NatLessThanWellFounded DEF OpToRel
<1>2. PICK x \in S : \A y \in S : ~ (<<y, x>> \in R)
  <2> HIDE DEF R
  <2> QED BY <1>1, WFMin
<1>3. ASSUME NEW y \in S, y < x PROVE FALSE
  <2>1. <<y, x>> \in R
    BY <1>3
  <2> QED BY <1>2, <2>1
<1>4. \A k \in S : k \in Nat /\ x \in Nat
  OBVIOUS
<1> QED BY <1>3, <1>4

LEMMA GreatestOf ==
  ASSUME NEW S \in SUBSET Nat, S # {}, NEW b \in Nat, \A s \in S : s <= b
  PROVE  \E m \in S : \A k \in S : k <= m
<1> DEFINE T == {x \in Nat : \E s \in S : x = b - s}
<1>1. T \in SUBSET Nat /\ T # {}
  <2>1. PICK s \in S : TRUE
    OBVIOUS
  <2>2. b - s \in T
    BY <2>1
  <2> QED BY <2>2
<1>2. PICK x \in T : \A k \in T : x <= k
  <2> HIDE DEF T
  <2> QED BY <1>1, LeastOf
<1>3. PICK m \in S : x = b - m
  OBVIOUS
<1>4. ASSUME NEW k \in S PROVE k <= m
  <2>1. b - k \in T
    OBVIOUS
  <2> QED BY <1>2, <1>3, <2>1
<1> QED BY <1>4

Records == [file : Seq(Cell), hashed : Seq(Cell), entries : SUBSET Entries, torn : BOOLEAN]

(* A header and a sealed blob, cell by cell.                               *)
LEMMA HeaderType ==
  ASSUME NEW c \in Chunk, NEW l \in Nat
  PROVE  /\ EntryHeader(c, l) \in Seq(Cell)
         /\ Len(EntryHeader(c, l)) = 2
         /\ EntryHeader(c, l)[1] = <<"id", c>>
         /\ EntryHeader(c, l)[2] = <<"len", l>>
<1>1. <<"id", c>> \in Cell /\ <<"len", l>> \in Cell
  BY DEF Cell
<1> QED BY <1>1 DEF EntryHeader

LEMMA SealedType ==
  ASSUME NEW c \in Chunk, NEW n \in Nat
  PROVE  /\ SealedBlob(c, n) \in Seq(Cell)
         /\ SealedLen(c) \in Nat \ {0}
         /\ Len(SealedBlob(c, n)) = SealedLen(c)
         /\ \A i \in 1..SealedLen(c) : SealedBlob(c, n)[i] = <<"blob", c, n, i>>
<1>1. SealedLen(c) \in Nat \ {0}
  BY SizesAssumption DEF SealedLen
<1>2. \A i \in 1..SealedLen(c) : <<"blob", c, n, i>> \in Cell
  BY <1>1 DEF Cell
<1>3. DEFINE b == SealedBlob(c, n)
<1>4. /\ b \in [1..SealedLen(c) -> Cell]
      /\ \A i \in 1..SealedLen(c) : b[i] = <<"blob", c, n, i>>
  BY <1>1, <1>2 DEF SealedBlob
<1> HIDE DEF b
<1>5. b \in Seq(Cell) /\ Len(b) = SealedLen(c)
  BY <1>1, <1>4
<1> QED BY <1>1, <1>4, <1>5 DEF b

(* The cells of two strings one after the other.                           *)
LEMMA ConcatIndex ==
  ASSUME NEW S, NEW s \in Seq(S), NEW t \in Seq(S)
  PROVE  /\ s \o t \in Seq(S)
         /\ Len(s \o t) = Len(s) + Len(t)
         /\ \A p \in 1..Len(s) : (s \o t)[p] = s[p]
         /\ \A i \in 1..Len(t) : (s \o t)[Len(s) + i] = t[i]
<1>1. /\ s \o t \in Seq(S)
      /\ Len(s \o t) = Len(s) + Len(t)
      /\ \A i \in 1..Len(s) + Len(t) :
           (s \o t)[i] = IF i <= Len(s) THEN s[i] ELSE t[i - Len(s)]
  BY ConcatProperties
<1>2. Len(s) \in Nat /\ Len(t) \in Nat
  BY LenProperties
<1> DEFINE u == s \o t
<1> HIDE DEF u
<1>3. ASSUME NEW i \in 1..Len(t) PROVE u[Len(s) + i] = t[i]
  <2>1. /\ Len(s) + i \in 1..Len(s) + Len(t) /\ ~(Len(s) + i <= Len(s))
        /\ (Len(s) + i) - Len(s) = i
    BY <1>2
  <2> QED BY <1>1, <2>1 DEF u
<1> QED BY <1>1, <1>2, <1>3 DEF u

(* The writer after an add: what it had, the header, the blob.             *)
LEMMA AddedType ==
  ASSUME NEW w \in Records, NEW c \in Chunk, NEW blob \in Seq(Cell)
  PROVE  LET v == Added(w, c, blob)
             l == Len(w.file)
             m == Len(w.hashed)
         IN /\ v \in Records
            /\ v.torn = w.torn
            /\ v.entries = w.entries \cup {Entry(c, l + 2, Len(blob))}
            /\ Len(v.file) = l + 2 + Len(blob)
            /\ \A p \in 1..l : v.file[p] = w.file[p]
            /\ v.file[l + 1] = <<"id", c>>
            /\ v.file[l + 2] = <<"len", Len(blob)>>
            /\ \A i \in 1..Len(blob) : v.file[l + 2 + i] = blob[i]
            /\ Len(v.hashed) = m + 2 + Len(blob)
            /\ \A p \in 1..m : v.hashed[p] = w.hashed[p]
            /\ v.hashed[m + 1] = <<"id", c>>
            /\ v.hashed[m + 2] = <<"len", Len(blob)>>
            /\ \A i \in 1..Len(blob) : v.hashed[m + 2 + i] = blob[i]
            /\ w.file = w.hashed => v.file = v.hashed
<1> DEFINE h == EntryHeader(c, Len(blob))
           v == Added(w, c, blob)
<1>1. Len(blob) \in Nat OBVIOUS
<1>2. /\ h \in Seq(Cell) /\ Len(h) = 2
      /\ h[1] = <<"id", c>> /\ h[2] = <<"len", Len(blob)>>
  BY <1>1, HeaderType
<1>3. /\ w.file \in Seq(Cell) /\ w.hashed \in Seq(Cell) /\ w.entries \in SUBSET Entries /\ w.torn \in BOOLEAN
  BY DEF Records
<1>4. /\ v.file = w.file \o h \o blob
      /\ v.hashed = w.hashed \o h \o blob
      /\ v.torn = w.torn
      /\ v.entries = w.entries \cup {Entry(c, Len(w.file) + 2, Len(blob))}
  BY DEF Added, Records, HeaderLen
<1>5. Entry(c, Len(w.file) + 2, Len(blob)) \in Entries
  BY <1>1, <1>3 DEF Entry, Entries
<1>6. v \in Records
  <2>1. v.file \in Seq(Cell) /\ v.hashed \in Seq(Cell)
    BY <1>2, <1>3, <1>4
  <2>2. v.entries \in SUBSET Entries
    BY <1>3, <1>4, <1>5
  <2> QED BY <2>1, <2>2, <1>3 DEF Records, Added
<1> HIDE DEF h, v
<1>7. ASSUME NEW s \in Seq(Cell), NEW t, t = s \o h \o blob
      PROVE  /\ Len(t) = Len(s) + 2 + Len(blob)
             /\ \A p \in 1..Len(s) : t[p] = s[p]
             /\ t[Len(s) + 1] = <<"id", c>>
             /\ t[Len(s) + 2] = <<"len", Len(blob)>>
             /\ \A i \in 1..Len(blob) : t[Len(s) + 2 + i] = blob[i]
  <2> DEFINE u == s \o h
  <2>1. s \in Seq(Cell) /\ h \in Seq(Cell) /\ blob \in Seq(Cell)
    BY <1>2, <1>7
  <2>2. u \in Seq(Cell) /\ Len(u) = Len(s) + Len(h)
    BY <2>1, ConcatIndex
  <2>3. \A p \in 1..Len(s) : u[p] = s[p]
    BY <2>1, ConcatIndex
  <2>4. \A i \in 1..Len(h) : u[Len(s) + i] = h[i]
    BY <2>1, ConcatIndex
  <2> HIDE DEF u
  <2>5. t = u \o blob
    BY <1>7 DEF u
  <2>6. Len(t) = Len(u) + Len(blob)
    BY <2>1, <2>2, <2>5, ConcatIndex
  <2>7. \A p \in 1..Len(u) : t[p] = u[p]
    BY <2>1, <2>2, <2>5, ConcatIndex
  <2>8. \A i \in 1..Len(blob) : t[Len(u) + i] = blob[i]
    BY <2>1, <2>2, <2>5, ConcatIndex
  <2>9. Len(s) \in Nat /\ Len(u) = Len(s) + 2
    BY <1>2, <2>1, <2>2, LenProperties
  <2>10. u[Len(s) + 1] = <<"id", c>> /\ u[Len(s) + 2] = <<"len", Len(blob)>>
    BY <1>2, <2>4
  <2> QED BY <2>3, <2>6, <2>7, <2>8, <2>9, <2>10
<1> QED BY <1>3, <1>4, <1>6, <1>7 DEF v

(* The writer after an add that failed: the hash lacks what the file has   *)
(* of the blob.                                                            *)
LEMMA HalfAddedType ==
  ASSUME NEW w \in Records, NEW c \in Chunk, NEW n \in Nat, NEW k \in 0..SealedLen(c) - 1
  PROVE  LET v == HalfAdded(w, c, SealedBlob(c, n), k)
             l == Len(w.file)
             m == Len(w.hashed)
         IN /\ v \in Records
            /\ v.torn
            /\ v.entries = w.entries
            /\ Len(v.file) = l + 2 + k
            /\ \A p \in 1..l : v.file[p] = w.file[p]
            /\ v.file[l + 1] = <<"id", c>>
            /\ v.file[l + 2] = <<"len", SealedLen(c)>>
            /\ \A i \in 1..k : v.file[l + 2 + i] = <<"blob", c, n, i>>
            /\ Len(v.hashed) = m + 2
            /\ \A p \in 1..m : v.hashed[p] = w.hashed[p]
            /\ v.hashed[m + 1] = <<"id", c>>
            /\ v.hashed[m + 2] = <<"len", SealedLen(c)>>
<1> DEFINE blob == SealedBlob(c, n)
           part == SubSeq(blob, 1, k)
           h == EntryHeader(c, Len(blob))
           v == HalfAdded(w, c, blob, k)
<1>1. /\ blob \in Seq(Cell) /\ Len(blob) = SealedLen(c) /\ SealedLen(c) \in Nat \ {0}
      /\ \A i \in 1..SealedLen(c) : blob[i] = <<"blob", c, n, i>>
  BY SealedType
<1>2. /\ h \in Seq(Cell) /\ Len(h) = 2
      /\ h[1] = <<"id", c>> /\ h[2] = <<"len", SealedLen(c)>>
  BY <1>1, HeaderType
<1>3. /\ w.file \in Seq(Cell) /\ w.hashed \in Seq(Cell) /\ w.entries \in SUBSET Entries /\ w.torn \in BOOLEAN
  BY DEF Records
<1>4. /\ v.file = w.file \o h \o part
      /\ v.hashed = w.hashed \o h
      /\ v.torn
      /\ v.entries = w.entries
  BY DEF HalfAdded, Records
<1>5. /\ part \in Seq(Cell) /\ Len(part) = k
      /\ \A i \in 1..k : part[i] = <<"blob", c, n, i>>
  <2> HIDE DEF blob
  <2>1. \A i \in 1..k : blob[i] \in Cell
    BY <1>1, ElementOfSeq
  <2>2. k \in Int /\ 1 \in Int
    BY <1>1
  <2>3. part \in Seq(Cell)
    BY <2>1, <2>2, SubSeqProperties
  <2>4. Len(part) = IF 1 <= k THEN k - 1 + 1 ELSE 0
    BY <2>1, <2>2, SubSeqProperties
  <2>5. \A i \in 1..k - 1 + 1 : part[i] = blob[1 + i - 1]
    BY <2>1, <2>2, SubSeqProperties
  <2> HIDE DEF part
  <2>6. \A i \in 1..k : part[i] = blob[i]
    BY <2>2, <2>5
  <2> QED BY <1>1, <2>2, <2>3, <2>4, <2>6
<1> HIDE DEF part, h, blob
<1>6. v \in Records
  <2>1. v.file \in Seq(Cell) /\ v.hashed \in Seq(Cell)
    BY <1>2, <1>3, <1>4, <1>5
  <2> QED BY <2>1, <1>3, <1>4 DEF Records, HalfAdded
<1> HIDE DEF v
<1>7. ASSUME NEW s \in Seq(Cell)
      PROVE  /\ s \o h \in Seq(Cell)
             /\ Len(s \o h) = Len(s) + 2
             /\ \A p \in 1..Len(s) : (s \o h)[p] = s[p]
             /\ (s \o h)[Len(s) + 1] = <<"id", c>>
             /\ (s \o h)[Len(s) + 2] = <<"len", SealedLen(c)>>
  <2>1. s \in Seq(Cell) /\ h \in Seq(Cell)
    BY <1>2, <1>7
  <2>2. s \o h \in Seq(Cell)
    BY <2>1, ConcatIndex
  <2>3. Len(s \o h) = Len(s) + Len(h)
    BY <2>1, ConcatIndex
  <2>4. \A p \in 1..Len(s) : (s \o h)[p] = s[p]
    BY <2>1, ConcatIndex
  <2>5. \A i \in 1..Len(h) : (s \o h)[Len(s) + i] = h[i]
    BY <2>1, ConcatIndex
  <2> QED BY <1>2, <2>2, <2>3, <2>4, <2>5
<1>8. /\ Len(v.file) = Len(w.file) + 2 + k
      /\ \A p \in 1..Len(w.file) + 2 : v.file[p] = (w.file \o h)[p]
      /\ \A i \in 1..k : v.file[Len(w.file) + 2 + i] = <<"blob", c, n, i>>
  <2> DEFINE u == w.file \o h
  <2>1. u \in Seq(Cell) /\ Len(u) = Len(w.file) + 2 /\ Len(w.file) \in Nat
    BY <1>3, <1>7, LenProperties
  <2>2. v.file = u \o part
    BY <1>4
  <2> HIDE DEF u
  <2>9. u \in Seq(Cell) /\ part \in Seq(Cell)
    BY <1>5, <2>1
  <2>3. Len(v.file) = Len(u) + Len(part)
    BY <2>9, <2>2, ConcatIndex
  <2>4. \A p \in 1..Len(u) : v.file[p] = u[p]
    BY <2>9, <2>2, ConcatIndex
  <2>5. \A i \in 1..Len(part) : v.file[Len(u) + i] = part[i]
    BY <2>9, <2>2, ConcatIndex
  <2> QED BY <1>5, <2>1, <2>3, <2>4, <2>5 DEF u
<1>9. /\ \A p \in 1..Len(w.file) : v.file[p] = w.file[p]
      /\ v.file[Len(w.file) + 1] = <<"id", c>>
      /\ v.file[Len(w.file) + 2] = <<"len", SealedLen(c)>>
  <2>1. Len(w.file) \in Nat
    BY <1>3, LenProperties
  <2>2. /\ \A p \in 1..Len(w.file) : (w.file \o h)[p] = w.file[p]
        /\ (w.file \o h)[Len(w.file) + 1] = <<"id", c>>
        /\ (w.file \o h)[Len(w.file) + 2] = <<"len", SealedLen(c)>>
    BY <1>3, <1>7
  <2>3. \A p \in 1..Len(w.file) + 2 : v.file[p] = (w.file \o h)[p]
    BY <1>8
  <2>4. /\ \A p \in 1..Len(w.file) : p \in 1..Len(w.file) + 2
        /\ Len(w.file) + 1 \in 1..Len(w.file) + 2
        /\ Len(w.file) + 2 \in 1..Len(w.file) + 2
    BY <2>1
  <2> QED BY <2>2, <2>3, <2>4
<1>10. /\ Len(v.hashed) = Len(w.hashed) + 2
       /\ \A p \in 1..Len(w.hashed) : v.hashed[p] = w.hashed[p]
       /\ v.hashed[Len(w.hashed) + 1] = <<"id", c>>
       /\ v.hashed[Len(w.hashed) + 2] = <<"len", SealedLen(c)>>
  BY <1>3, <1>4, <1>7
<1> QED BY <1>4, <1>6, <1>8, <1>9, <1>10 DEF v, blob

(* add_pack picks one of the entries for a chunk, and leaves what has      *)
(* none.                                                                   *)
LEMMA IndexingType ==
  ASSUME NEW name, NEW E \in SUBSET Entries, NEW b \in Nat,
         \A e \in E : e.offset <= b,
         NEW i, NEW c \in Chunk
  PROVE  LET l == Indexing(name, E, i)[c] IN
         (\E e \in E : e.chunk = c) =>
           l.pack = name /\ l.entry \in E /\ l.entry.chunk = c
<1> DEFINE mine == {e \in E : e.chunk = c}
           offsets == {o \in Nat : \E e \in mine : e.offset = o}
<1>1. Indexing(name, E, i)[c] =
        IF mine = {} THEN i[c]
        ELSE [pack |-> name,
              entry |-> CHOOSE e \in mine : \A f \in mine : f.offset <= e.offset]
  BY DEF Indexing
<1>2. ASSUME mine # {}
      PROVE  \E e \in mine : \A f \in mine : f.offset <= e.offset
  <2>1. \A e \in mine : e.offset \in offsets /\ e.offset \in Nat /\ e.offset <= b
    BY DEF Entries
  <2>2. offsets \in SUBSET Nat /\ offsets # {} /\ \A o \in offsets : o <= b
    BY <1>2, <2>1
  <2>3. PICK m \in offsets : \A o \in offsets : o <= m
    <3> HIDE DEF offsets
    <3> QED BY <2>2, GreatestOf
  <2>4. PICK e \in mine : e.offset = m
    BY <2>3
  <2> QED BY <2>1, <2>3, <2>4
<1>3. ASSUME mine # {}
      PROVE  (CHOOSE e \in mine : \A f \in mine : f.offset <= e.offset) \in mine
  <2> HIDE DEF mine
  <2> QED BY <1>2, <1>3
<1> QED BY <1>1, <1>3

-----------------------------------------------------------------------------
(* Types *)

PacksTyped == \A n \in DOMAIN packs : packs[n] \in Records /\ packs[n].hashed = n
IndexTyped == \A c \in Chunk : Indexed(c) => index[c].pack \in DOMAIN packs /\ index[c].entry \in Entries
WriterTyped ==
  /\ writer \in Records
  /\ \A e \in writer.entries : e.offset <= Len(writer.file)
JobTyped ==
  /\ mode \in {"store", "repack", "rebuild"}
  /\ source \in DOMAIN packs \cup {NoName}
  /\ mode = "store" => source = NoName
  /\ mode = "repack" => todo \subseteq ChunksIn(source) /\ Open
  /\ mode = "rebuild" => todo \subseteq DOMAIN packs /\ ~Open
ScanTyped ==
  /\ pos \in Nat /\ seals \in Nat
  /\ found \in SUBSET Entries /\ \A e \in found : e.offset <= pos
  /\ source = NoName => found = {}
  /\ mode = "rebuild" /\ source # NoName => pos \in 1..Len(packs[source].file)

PackTypes == PacksTyped /\ IndexTyped /\ WriterTyped /\ JobTyped /\ ScanTyped

LEMMA WriterTypes ==
  /\ NoWriter \in Records /\ NewWriter \in Records
  /\ NoWriter.entries = {} /\ NewWriter.entries = {}
  /\ ~NewWriter.torn /\ NewWriter.file = <<Magic>> /\ NewWriter.hashed = <<Magic>>
  /\ NewWriter # NoWriter
<1>1. Magic \in Cell
  BY DEF Cell
<1>2. <<Magic>> \in Seq(Cell) /\ <<>> \in Seq(Cell) /\ <<Magic>> # <<>>
  BY <1>1
<1> QED BY <1>2 DEF NoWriter, NewWriter, NoName, Records

LEMMA StagedTyped ==
  ASSUME WriterTyped
  PROVE  /\ Staged \in Records
         /\ \A e \in Staged.entries : e.offset <= Len(Staged.file)
BY WriterTypes DEF WriterTyped, Staged, Open

LEMMA AddedBounded ==
  ASSUME NEW w \in Records, NEW c \in Chunk, NEW blob \in Seq(Cell),
         \A e \in w.entries : e.offset <= Len(w.file)
  PROVE  \A e \in Added(w, c, blob).entries : e.offset <= Len(Added(w, c, blob).file)
<1> DEFINE v == Added(w, c, blob)
<1>1. /\ v.entries = w.entries \cup {Entry(c, Len(w.file) + 2, Len(blob))}
      /\ Len(v.file) = Len(w.file) + 2 + Len(blob)
  BY AddedType
<1>2. Len(w.file) \in Nat /\ Len(blob) \in Nat /\ \A e \in w.entries : e.offset \in Nat
  BY LenProperties DEF Records, Entries
<1> HIDE DEF v
<1>3. Entry(c, Len(w.file) + 2, Len(blob)).offset = Len(w.file) + 2
  BY DEF Entry
<1>4. ASSUME NEW e \in v.entries PROVE e.offset <= Len(v.file)
  <2>1. CASE e \in w.entries
    BY <1>1, <1>2, <2>1
  <2>2. CASE e = Entry(c, Len(w.file) + 2, Len(blob))
    BY <1>1, <1>2, <1>3, <2>2
  <2> QED BY <1>1, <2>1, <2>2
<1> QED BY <1>4 DEF v

LEMMA IndexingOther ==
  ASSUME NEW name, NEW E, NEW i, NEW c \in Chunk, \A e \in E : e.chunk # c
  PROVE  Indexing(name, E, i)[c] = i[c]
BY DEF Indexing

LEMMA IndexingTyped ==
  ASSUME NEW E \in SUBSET Entries, NEW b \in Nat, \A e \in E : e.offset <= b,
         NEW name \in DOMAIN packs', NEW i, index' = Indexing(name, E, i),
         \A c \in Chunk : i[c] # NoLocation =>
           i[c].pack \in DOMAIN packs' /\ i[c].entry \in Entries
  PROVE  IndexTyped'
<1> SUFFICES ASSUME NEW c \in Chunk, Indexed(c)'
             PROVE  (index[c].pack \in DOMAIN packs /\ index[c].entry \in Entries)'
  BY DEF IndexTyped
<1> DEFINE l == Indexing(name, E, i)[c]
<1>0. (\A e \in E : e.chunk # c) => l = i[c]
  BY IndexingOther
<1> HIDE DEF l
<1>1. CASE \E e \in E : e.chunk = c
  <2>1. index'[c].pack = name /\ index'[c].entry \in E
    BY <1>1, IndexingType
  <2> QED BY <2>1
<1>2. CASE \A e \in E : e.chunk # c
  <2>1. index'[c] = l
    BY DEF l
  <2>2. index'[c] = i[c] /\ i[c] # NoLocation
    BY <1>0, <1>2, <2>1 DEF Indexed
  <2> QED BY <2>2
<1> QED BY <1>1, <1>2

LEMMA UnindexTyped ==
  ASSUME NEW C, NEW c \in Chunk
  PROVE  Unindex(C)[c] = IF c \in C THEN NoLocation ELSE index[c]
BY DEF Unindex

LEMMA PackTypesInit == Init => PackTypes
<1> SUFFICES ASSUME Init PROVE PackTypes
  OBVIOUS
<1>1. \A c \in Chunk : ~Indexed(c)
  BY DEF Init, Indexed
<1> QED
  BY <1>1, WriterTypes
  DEF Init, PackTypes, PacksTyped, IndexTyped, WriterTyped, JobTyped, ScanTyped

(* Every step keeps the types; the steps that have more to show have a     *)
(* lemma of their own.                                                     *)
LEMMA PutTypes ==
  ASSUME PackTypes, NEW c \in Chunk, Put(c) PROVE PackTypes'
<1> DEFINE w == Added(Staged, c, SealedBlob(c, seals))
<1>1. /\ w \in Records
      /\ \A e \in w.entries : e.offset <= Len(w.file)
      /\ w.entries \in SUBSET Entries /\ Len(w.file) \in Nat
  <2>1. SealedBlob(c, seals) \in Seq(Cell)
    BY SealedType DEF PackTypes, ScanTyped
  <2>2. Staged \in Records /\ \A e \in Staged.entries : e.offset <= Len(Staged.file)
    BY StagedTyped DEF PackTypes
  <2>3. w \in Records
    BY <2>1, <2>2, AddedType
  <2>4. \A e \in w.entries : e.offset <= Len(w.file)
    BY <2>1, <2>2, AddedBounded
  <2> HIDE DEF w
  <2> QED BY <2>3, <2>4, LenProperties DEF Records
<1>2. /\ mode = "store" /\ seals' = seals + 1
      /\ UNCHANGED jobVars
      /\ \/ /\ packs' = Publish(w)
            /\ index' = Indexing(w.hashed, w.entries, index)
            /\ writer' = NoWriter
         \/ writer' = w /\ UNCHANGED <<packs, index>>
  BY DEF Put, Sealing
<1> HIDE DEF w
<1>3. JobTyped' /\ ScanTyped' /\ DOMAIN packs \subseteq DOMAIN packs'
  BY <1>2 DEF PackTypes, JobTyped, ScanTyped, jobVars, Publish
<1>4. CASE writer' = w /\ UNCHANGED <<packs, index>>
  BY <1>1, <1>3, <1>4
  DEF PackTypes, PacksTyped, IndexTyped, WriterTyped, Indexed
<1>5. CASE /\ packs' = Publish(w)
           /\ index' = Indexing(w.hashed, w.entries, index)
           /\ writer' = NoWriter
  <2>1. PacksTyped' /\ w.hashed \in DOMAIN packs'
    BY <1>1, <1>5 DEF PackTypes, PacksTyped, Publish
  <2>2. \A d \in Chunk : index[d] # NoLocation =>
           index[d].pack \in DOMAIN packs' /\ index[d].entry \in Entries
    <3> SUFFICES ASSUME NEW d \in Chunk, index[d] # NoLocation
                 PROVE  index[d].pack \in DOMAIN packs' /\ index[d].entry \in Entries
      OBVIOUS
    <3>1. index[d].pack \in DOMAIN packs /\ index[d].entry \in Entries
      BY DEF PackTypes, IndexTyped, Indexed
    <3> QED BY <1>3, <3>1
  <2>3. IndexTyped'
    BY <1>1, <1>5, <2>1, <2>2, IndexingTyped
  <2> QED BY <1>3, <1>5, <2>1, <2>3, WriterTypes DEF PackTypes, WriterTyped
<1> QED BY <1>2, <1>4, <1>5

LEMMA PutFailsTypes ==
  ASSUME PackTypes, NEW c \in Chunk, PutFails(c) PROVE PackTypes'
<1>1. PICK k \in 0..SealedLen(c) - 1 :
        writer' = HalfAdded(Staged, c, SealedBlob(c, seals), k)
  BY DEF PutFails
<1>2. /\ mode = "store" /\ seals' = seals + 1
      /\ UNCHANGED <<packs, index, jobVars>>
  BY DEF PutFails, Sealing
<1>3. Staged \in Records /\ (\A e \in Staged.entries : e.offset <= Len(Staged.file))
  BY StagedTyped DEF PackTypes
<1>4. seals \in Nat
  BY DEF PackTypes, ScanTyped
<1>5. /\ writer' \in Records
      /\ writer'.entries = Staged.entries
      /\ Len(writer'.file) = Len(Staged.file) + 2 + k
  BY <1>1, <1>3, <1>4, HalfAddedType
<1>6. k \in Nat /\ Len(Staged.file) \in Nat /\ \A e \in Staged.entries : e.offset \in Nat
  BY <1>3, SealedType, LenProperties DEF Records, Entries
<1>7. \A e \in Staged.entries : e.offset <= Len(Staged.file) + 2 + k
  BY <1>3, <1>6
<1>8. WriterTyped'
  BY <1>5, <1>7 DEF WriterTyped
<1> QED
  BY <1>2, <1>8
  DEF PackTypes, PacksTyped, IndexTyped, JobTyped, ScanTyped, jobVars, Indexed

LEMMA FlushTypes ==
  ASSUME PackTypes, Flush PROVE PackTypes'
<1>1. /\ packs' = Publish(writer)
      /\ index' = Indexing(writer.hashed, writer.entries, index)
      /\ writer' = NoWriter /\ mode = "store" /\ UNCHANGED <<jobVars, seals>>
  BY DEF Flush
<1>2. /\ writer \in Records /\ writer.entries \in SUBSET Entries
      /\ \A e \in writer.entries : e.offset <= Len(writer.file)
      /\ Len(writer.file) \in Nat
  BY LenProperties DEF PackTypes, WriterTyped, Records
<1>3. PacksTyped' /\ writer.hashed \in DOMAIN packs' /\ DOMAIN packs \subseteq DOMAIN packs'
  BY <1>1, <1>2 DEF PackTypes, PacksTyped, Publish
<1>4. \A d \in Chunk : index[d] # NoLocation =>
           index[d].pack \in DOMAIN packs' /\ index[d].entry \in Entries
  <2> SUFFICES ASSUME NEW d \in Chunk, index[d] # NoLocation
               PROVE  index[d].pack \in DOMAIN packs' /\ index[d].entry \in Entries
    OBVIOUS
  <2>1. index[d].pack \in DOMAIN packs /\ index[d].entry \in Entries
    BY DEF PackTypes, IndexTyped, Indexed
  <2> QED BY <1>3, <2>1
<1>5. IndexTyped'
  BY <1>1, <1>2, <1>3, <1>4, IndexingTyped
<1> QED
  BY <1>1, <1>3, <1>5, WriterTypes
  DEF PackTypes, JobTyped, ScanTyped, WriterTyped, jobVars

LEMMA DropPackTypes ==
  ASSUME PackTypes, NEW name \in DOMAIN packs, DropPack(name) PROVE PackTypes'
<1>1. /\ packs' = [n \in DOMAIN packs \ {name} |-> packs[n]]
      /\ index' = Unindex(ChunksIn(name))
      /\ mode = "store" /\ UNCHANGED <<writer, jobVars, seals>>
  BY DEF DropPack, Without
<1>2. IndexTyped'
  <2> SUFFICES ASSUME NEW c \in Chunk, Indexed(c)'
               PROVE  (index[c].pack \in DOMAIN packs /\ index[c].entry \in Entries)'
    BY DEF IndexTyped
  <2>1. c \notin ChunksIn(name) /\ index'[c] = index[c]
    BY <1>1, UnindexTyped DEF Indexed
  <2>2. Indexed(c) /\ index[c].pack # name
    BY <2>1 DEF Indexed, ChunksIn
  <2> QED BY <1>1, <2>1, <2>2 DEF PackTypes, IndexTyped
<1> QED
  BY <1>1, <1>2
  DEF PackTypes, PacksTyped, JobTyped, ScanTyped, WriterTyped, jobVars

LEMMA CopyBlobTypes ==
  ASSUME PackTypes, NEW c \in todo \cap Chunk, CopyBlob(c) PROVE PackTypes'
<1> DEFINE file == packs[source].file
           e == index[c].entry
           blob == GetRange(file, e.offset, e.length)
<1>1. /\ mode = "repack" /\ UNCHANGED <<packs, index, seals>>
      /\ \/ /\ e.offset + e.length <= Len(file)
            /\ writer' = Added(writer, c, blob)
            /\ todo' = todo \ {c} /\ UNCHANGED <<mode, source, pos, found>>
         \/ writer' = NoWriter /\ EndJob
  BY DEF CopyBlob
<1>2. source \in DOMAIN packs /\ e \in Entries /\ file \in Seq(Cell)
  BY <1>1 DEF PackTypes, JobTyped, IndexTyped, PacksTyped, Records, ChunksIn
<1>3. PacksTyped' /\ IndexTyped'
  BY <1>1 DEF PackTypes, PacksTyped, IndexTyped, Indexed
<1>4. CASE writer' = NoWriter /\ EndJob
  BY <1>1, <1>3, <1>4, WriterTypes
  DEF PackTypes, WriterTyped, JobTyped, ScanTyped, EndJob
<1>5. CASE /\ e.offset + e.length <= Len(file)
           /\ writer' = Added(writer, c, blob)
           /\ todo' = todo \ {c} /\ UNCHANGED <<mode, source, pos, found>>
  <2>1. blob \in Seq(Cell)
    BY <1>2, <1>5, SubSeqProperties DEF GetRange, Entries
  <2>2. writer \in Records /\ \A f \in writer.entries : f.offset <= Len(writer.file)
    BY DEF PackTypes, WriterTyped
  <2> HIDE DEF blob
  <2>3. /\ writer' \in Records
        /\ writer'.entries = writer.entries \cup {Entry(c, Len(writer.file) + 2, Len(blob))}
    BY <1>5, <2>1, <2>2, AddedType
  <2>4. \A f \in writer'.entries : f.offset <= Len(writer'.file)
    BY <1>5, <2>1, <2>2, AddedBounded
  <2>5. WriterTyped' /\ writer' # NoWriter
    <3>1. writer'.entries # {}
      BY <2>3
    <3> QED BY <2>3, <2>4, <3>1, WriterTypes DEF WriterTyped
  <2> HIDE DEF file, e
  <2> QED
    BY <1>1, <1>3, <1>5, <2>5
    DEF PackTypes, JobTyped, ScanTyped, ChunksIn, Indexed, Open
<1> QED BY <1>1, <1>4, <1>5

LEMMA EndRepackTypes ==
  ASSUME PackTypes, EndRepack PROVE PackTypes'
<1>1. /\ packs' = [n \in (DOMAIN packs \ {source}) \cup {writer.hashed} |->
                     IF n = writer.hashed THEN writer ELSE packs[n]]
      /\ index' = Indexing(writer.hashed, writer.entries, Unindex(ChunksIn(source)))
      /\ writer' = NoWriter /\ EndJob /\ seals' = seals
  BY DEF EndRepack
<1>2. /\ writer \in Records /\ writer.entries \in SUBSET Entries
      /\ \A e \in writer.entries : e.offset <= Len(writer.file)
      /\ Len(writer.file) \in Nat
  BY LenProperties DEF PackTypes, WriterTyped, Records
<1>3. PacksTyped' /\ writer.hashed \in DOMAIN packs' /\ DOMAIN packs \ {source} \subseteq DOMAIN packs'
  BY <1>1, <1>2 DEF PackTypes, PacksTyped
<1>4. \A d \in Chunk : \/ Unindex(ChunksIn(source))[d] = NoLocation
                       \/ /\ Unindex(ChunksIn(source))[d].pack \in DOMAIN packs'
                          /\ Unindex(ChunksIn(source))[d].entry \in Entries
  BY <1>3, UnindexTyped DEF PackTypes, IndexTyped, Indexed, ChunksIn
<1>5. IndexTyped'
  <2> DEFINE i == Unindex(ChunksIn(source))
  <2>1. /\ index' = Indexing(writer.hashed, writer.entries, i)
        /\ \A d \in Chunk : i[d] # NoLocation =>
           i[d].pack \in DOMAIN packs' /\ i[d].entry \in Entries
    BY <1>1, <1>4
  <2> HIDE DEF i
  <2> QED BY <1>2, <1>3, <2>1, IndexingTyped
<1> QED
  BY <1>1, <1>3, <1>5, WriterTypes
  DEF PackTypes, JobTyped, ScanTyped, WriterTyped, EndJob

LEMMA ScanEntryTypes ==
  ASSUME PackTypes, ScanEntry PROVE PackTypes'
<1> DEFINE file == packs[source].file
<1>1. /\ mode = "rebuild" /\ source # NoName /\ source \in DOMAIN packs
      /\ Len(file) \in Nat /\ pos \in Nat /\ pos < Len(file)
  BY LenProperties DEF ScanEntry, PackTypes, JobTyped, PacksTyped, Records, ScanTyped
<1>2. PacksTyped' /\ IndexTyped' /\ WriterTyped' /\ seals' = seals
  BY DEF ScanEntry, PackTypes, PacksTyped, IndexTyped, Indexed, WriterTyped
<1>3. CASE EndJob
  BY <1>2, <1>3 DEF PackTypes, JobTyped, ScanTyped, EndJob
<1>4. ASSUME ~EndJob PROVE JobTyped' /\ ScanTyped'
  <2>1. PICK len \in LengthAt(file, pos) :
          /\ ~(pos + 2 + len > Len(file))
          /\ found' = found \cup {Entry(c, pos + 2, len) : c \in IdAt(file, pos)}
          /\ pos' = pos + 2 + len
          /\ UNCHANGED <<mode, source, todo>>
    BY <1>4 DEF ScanEntry, Hop, HeaderLen
  <2>2. len \in Nat /\ UNCHANGED packs
    BY <1>1, <2>1 DEF LengthAt, ScanEntry
  <2>3. \A c \in IdAt(file, pos) :
          /\ Entry(c, pos + 2, len) \in Entries
          /\ Entry(c, pos + 2, len).offset <= pos'
    BY <1>1, <2>1, <2>2 DEF IdAt, Entry, Entries
  <2>4. \A e \in found : e \in Entries /\ e.offset <= pos /\ e.offset \in Nat
    BY DEF PackTypes, ScanTyped, Entries
  <2>5. found' \in SUBSET Entries /\ \A e \in found' : e.offset <= pos'
    BY <1>1, <2>1, <2>2, <2>3, <2>4
  <2>6. pos' \in Nat /\ pos' \in 1..Len(file)
    BY <1>1, <2>1, <2>2
  <2>7. UNCHANGED writer
    BY DEF ScanEntry
  <2> QED BY <1>1, <1>2, <2>1, <2>2, <2>5, <2>6, <2>7 DEF PackTypes, JobTyped, ScanTyped, Open
<1> QED BY <1>2, <1>3, <1>4 DEF PackTypes

LEMMA PackScannedTypes ==
  ASSUME PackTypes, PackScanned PROVE PackTypes'
<1>1. /\ mode = "rebuild" /\ source # NoName /\ source \in DOMAIN packs
      /\ index' = Indexing(source, found, index)
      /\ source' = NoName /\ pos' = 0 /\ found' = {}
      /\ UNCHANGED <<packs, writer, mode, todo, seals>>
  BY DEF PackScanned, PackTypes, JobTyped
<1>2. IndexTyped'
  <2>1. found \in SUBSET Entries /\ pos \in Nat /\ \A e \in found : e.offset <= pos
    BY DEF PackTypes, ScanTyped
  <2>2. \A d \in Chunk : index[d] # NoLocation =>
           index[d].pack \in DOMAIN packs' /\ index[d].entry \in Entries
    <3> SUFFICES ASSUME NEW d \in Chunk, index[d] # NoLocation
                 PROVE  index[d].pack \in DOMAIN packs' /\ index[d].entry \in Entries
      OBVIOUS
    <3>1. index[d].pack \in DOMAIN packs /\ index[d].entry \in Entries
      BY DEF PackTypes, IndexTyped, Indexed
    <3> QED BY <1>1, <3>1
  <2>3. source \in DOMAIN packs'
    BY <1>1
  <2> QED BY <1>1, <2>1, <2>2, <2>3, IndexingTyped
<1> QED
  BY <1>1, <1>2
  DEF PackTypes, PacksTyped, WriterTyped, JobTyped, ScanTyped, Open

LEMMA DamageTypes ==
  ASSUME PackTypes, NEW name \in DOMAIN packs, Damage(name) PROVE PackTypes'
<1> DEFINE file == packs[name].file
<1>1. PICK i \in DOMAIN file :
        \/ packs' = [packs EXCEPT ![name].file[i] = Rot]
        \/ packs' = [packs EXCEPT ![name].file = SubSeq(@, 1, i - 1)]
  BY DEF Damage
<1>2. file \in Seq(Cell) /\ packs[name] \in Records /\ packs[name].hashed = name
  BY DEF PackTypes, PacksTyped, Records
<1>3. /\ [file EXCEPT ![i] = Rot] \in Seq(Cell)
      /\ SubSeq(file, 1, i - 1) \in Seq(Cell)
  <2>1. Rot \in Cell /\ i \in 1..Len(file) /\ Len(file) \in Nat
    BY <1>1, <1>2, LenProperties DEF Cell
  <2> HIDE DEF file
  <2>2. [file EXCEPT ![i] = Rot] \in Seq(Cell)
    BY <1>2, <2>1, ExceptSeq
  <2>3. \A j \in 1..i - 1 : file[j] \in Cell
    BY <1>2, <2>1, ElementOfSeq
  <2>4. SubSeq(file, 1, i - 1) \in Seq(Cell)
    BY <2>1, <2>3, SubSeqProperties
  <2> QED BY <2>2, <2>4
<1>4. PacksTyped' /\ DOMAIN packs' = DOMAIN packs
  <2>1. PICK f \in Seq(Cell) : packs' = [packs EXCEPT ![name].file = f]
    <3>1. CASE packs' = [packs EXCEPT ![name].file[i] = Rot]
      BY <1>3, <3>1
    <3>2. CASE packs' = [packs EXCEPT ![name].file = SubSeq(@, 1, i - 1)]
      BY <1>3, <3>2
    <3> QED BY <1>1, <3>1, <3>2
  <2>2. [packs[name] EXCEPT !.file = f] \in Records
    BY <1>2 DEF Records
  <2> QED BY <1>2, <2>1, <2>2 DEF PackTypes, PacksTyped
<1>5. mode = "store" /\ UNCHANGED <<index, writer, jobVars, seals>>
  BY DEF Damage
<1> QED
  BY <1>4, <1>5
  DEF PackTypes, IndexTyped, Indexed, WriterTyped, JobTyped, ScanTyped, jobVars

LEMMA PackTypesNext ==
  ASSUME PackTypes, [Next]_vars PROVE PackTypes'
<1>1. CASE UNCHANGED vars
  BY <1>1
  DEF vars, jobVars, PackTypes, PacksTyped, IndexTyped, Indexed, WriterTyped, JobTyped,
      ScanTyped, ChunksIn, Open
<1>2. CASE Abandon
  BY <1>2, WriterTypes
  DEF Abandon, jobVars, PackTypes, PacksTyped, IndexTyped, Indexed, WriterTyped,
      JobTyped, ScanTyped
<1>3. ASSUME NEW name \in DOMAIN packs, BeginRepack(name) PROVE PackTypes'
  <2>1. todo' \subseteq ChunksIn(name)
    BY <1>3 DEF BeginRepack
  <2> QED
    BY <1>3, <2>1, WriterTypes
    DEF BeginRepack, PackTypes, PacksTyped, IndexTyped, Indexed, WriterTyped, JobTyped,
        ScanTyped, ChunksIn, Open
<1>4. CASE BeginRebuild
  <2>1. IndexTyped'
    BY <1>4, UnindexTyped DEF BeginRebuild, IndexTyped, Indexed
  <2> QED
    BY <1>4, <2>1
    DEF BeginRebuild, PackTypes, PacksTyped, WriterTyped, JobTyped, ScanTyped, Open
<1>5. ASSUME NEW name \in todo \cap DOMAIN packs, OpenPack(name) PROVE PackTypes'
  <2>1. PacksTyped' /\ IndexTyped' /\ WriterTyped'
    BY <1>5 DEF OpenPack, PackTypes, PacksTyped, IndexTyped, Indexed, WriterTyped
  <2>2. CASE EndJob
    BY <1>5, <2>1, <2>2 DEF OpenPack, EndJob, PackTypes, JobTyped, ScanTyped
  <2>3. CASE /\ Len(packs[name].file) > 0
             /\ source' = name /\ todo' = todo \ {name} /\ pos' = 1
             /\ UNCHANGED <<mode, found>>
    <3>1. Len(packs[name].file) \in Nat
      BY <1>5, LenProperties DEF PackTypes, PacksTyped, Records
    <3>2. source = NoName /\ mode = "rebuild" /\ UNCHANGED <<packs, writer, seals>>
      BY <1>5 DEF OpenPack
    <3>3. found = {}
      BY <3>2 DEF PackTypes, ScanTyped
    <3> QED
      BY <1>5, <2>1, <2>3, <3>1, <3>2, <3>3 DEF PackTypes, JobTyped, ScanTyped, Open
  <2> QED BY <1>5, <2>2, <2>3 DEF OpenPack
<1>6. CASE EndRebuild
  BY <1>6
  DEF EndRebuild, EndJob, PackTypes, PacksTyped, IndexTyped, Indexed, WriterTyped,
      JobTyped, ScanTyped
<1> QED
  BY <1>1, <1>2, <1>3, <1>4, <1>5, <1>6, PutTypes, PutFailsTypes, FlushTypes,
     DropPackTypes, CopyBlobTypes, EndRepackTypes, ScanEntryTypes, PackScannedTypes,
     DamageTypes
  DEF Next

LEMMA PackTypesAlways == Spec => []PackTypes
BY PackTypesInit, PackTypesNext, PTL DEF Spec

(* Every pack, the writer and every index entry have their shape, an entry *)
(* names a pack that exists, and a scan stays inside the pack it reads.    *)
THEOREM PackTypeCorrect == Spec => []PackTypeOK
<1>1. ASSUME PackTypes PROVE PackTypeOK
  BY <1>1
  DEF PackTypes, PackTypeOK, PacksTyped, IndexTyped, WriterTyped, JobTyped, ScanTyped, Records
<1> QED BY <1>1, PackTypesAlways, PTL

-----------------------------------------------------------------------------
(* Layout: what was written without a failure is tiled by its entries *)

End(e) == e.offset + e.length

(* The entry lies in s behind a header that describes it. *)
Described(s, e) ==
  /\ e.offset >= 3 /\ End(e) <= Len(s)
  /\ s[e.offset - 1] = <<"id", e.chunk>>
  /\ s[e.offset] = <<"len", e.length>>

Apart(e, f) == End(e) + 2 <= f.offset \/ End(f) + 2 <= e.offset

(* Where a header begins, or the string ends. *)
Boundary(E, p) == p = 1 \/ \E e \in E : p = End(e)

Tiled(s, E) ==
  /\ Len(s) >= 1 /\ s[1] = Magic
  /\ \A e \in E : Described(s, e)
  /\ \A e \in E : \A f \in E : e = f \/ Apart(e, f)
  /\ Boundary(E, Len(s))
  /\ \A p \in Nat : Boundary(E, p) => p = Len(s) \/ \E e \in E : e.offset = p + 2

LayoutInv ==
  /\ Open /\ ~writer.torn => writer.file = writer.hashed /\ Tiled(writer.hashed, writer.entries)
  /\ \A n \in DOMAIN packs : ~packs[n].torn => Tiled(n, packs[n].entries)
  /\ mode = "repack" => ~writer.torn

LEMMA NewTiled == Tiled(NewWriter.hashed, NewWriter.entries)
<1>1. NewWriter.hashed = <<Magic>> /\ NewWriter.entries = {} /\ Len(<<Magic>>) = 1
  BY WriterTypes
<1> QED BY <1>1 DEF Tiled, Boundary

(* An add appends one entry to the tiling.                                 *)
LEMMA AddedTiled ==
  ASSUME NEW w \in Records, NEW c \in Chunk, NEW blob \in Seq(Cell),
         w.file = w.hashed, Tiled(w.hashed, w.entries)
  PROVE  LET v == Added(w, c, blob) IN v.file = v.hashed /\ Tiled(v.hashed, v.entries)
<1> DEFINE v == Added(w, c, blob)
           s == w.hashed
           t == v.hashed
           l == Len(s)
           b == Len(blob)
           E == w.entries
           x == Entry(c, l + 2, b)
           F == v.entries
<1>1. /\ v.file = t
      /\ F = E \cup {x}
      /\ Len(t) = l + 2 + b
      /\ \A p \in 1..l : t[p] = s[p]
      /\ t[l + 1] = <<"id", c>>
      /\ t[l + 2] = <<"len", b>>
  <2>1. /\ v.entries = w.entries \cup {Entry(c, Len(w.file) + 2, Len(blob))}
        /\ w.file = w.hashed => v.file = v.hashed
    BY AddedType
  <2>2. /\ Len(v.hashed) = Len(w.hashed) + 2 + Len(blob)
        /\ \A p \in 1..Len(w.hashed) : v.hashed[p] = w.hashed[p]
        /\ v.hashed[Len(w.hashed) + 1] = <<"id", c>>
        /\ v.hashed[Len(w.hashed) + 2] = <<"len", Len(blob)>>
    BY AddedType
  <2> QED BY <2>1, <2>2
<1>2. l \in Nat /\ b \in Nat /\ s \in Seq(Cell) /\ E \in SUBSET Entries
  BY LenProperties DEF Records
<1>3. x.offset = l + 2 /\ x.length = b /\ x.chunk = c /\ End(x) = l + 2 + b
  BY DEF Entry, End
<1>4. \A e \in E : e.offset \in Nat /\ e.length \in Nat /\ End(e) \in Nat /\ e.offset <= End(e)
  BY <1>2 DEF Entries, End
<1>5. Tiled(s, E)
  OBVIOUS
<1> HIDE DEF v, s, t, l, b, E, x, F
<1>6. l >= 1 /\ s[1] = Magic /\ l = Len(s)
  BY <1>5 DEF Tiled, l
<1>7. Len(t) >= 1 /\ t[1] = Magic
  BY <1>1, <1>2, <1>6
<1>8. ASSUME NEW e \in F PROVE Described(t, e)
  <2>1. CASE e \in E
    <3>1. /\ e.offset >= 3 /\ End(e) <= l
          /\ s[e.offset - 1] = <<"id", e.chunk>>
          /\ s[e.offset] = <<"len", e.length>>
      BY <1>5, <1>6, <2>1 DEF Tiled, Described
    <3>2. e.offset - 1 \in 1..l /\ e.offset \in 1..l /\ End(e) <= Len(t)
      BY <1>1, <1>2, <1>4, <2>1, <3>1
    <3> QED BY <1>1, <3>1, <3>2 DEF Described
  <2>2. CASE e = x
    <3>1. e.offset - 1 = l + 1 /\ e.offset = l + 2 /\ e.offset >= 3 /\ End(e) <= Len(t)
      BY <1>1, <1>2, <1>3, <1>6, <2>2
    <3> QED BY <1>1, <1>3, <2>2, <3>1 DEF Described
  <2> QED BY <1>1, <2>1, <2>2
<1>9. ASSUME NEW e \in F, NEW f \in F, e # f PROVE Apart(e, f)
  <2>1. ASSUME NEW g \in E PROVE End(g) + 2 <= x.offset
    <3>1. End(g) <= l
      BY <1>5, <1>6 DEF Tiled, Described
    <3> QED BY <1>2, <1>3, <1>4, <3>1
  <2>2. CASE e \in E /\ f \in E
    BY <1>5, <1>9, <2>2 DEF Tiled
  <2>3. CASE e \in E /\ f = x
    BY <2>1, <2>3 DEF Apart
  <2>4. CASE e = x /\ f \in E
    BY <2>1, <2>4 DEF Apart
  <2> QED BY <1>1, <1>9, <2>2, <2>3, <2>4
<1>10. Boundary(F, Len(t))
  BY <1>1, <1>3 DEF Boundary
<1>11. ASSUME NEW p \in Nat, Boundary(F, p)
       PROVE  p = Len(t) \/ \E e \in F : e.offset = p + 2
  <2>1. CASE p = End(x)
    BY <1>1, <1>3, <2>1
  <2>2. CASE Boundary(E, p)
    <3>1. p = l \/ \E e \in E : e.offset = p + 2
      BY <1>5, <1>6, <2>2 DEF Tiled
    <3> QED BY <1>1, <1>3, <3>1
  <2> QED BY <1>1, <1>11, <2>1, <2>2 DEF Boundary
<1>12. Tiled(t, F)
  BY <1>7, <1>8, <1>9, <1>10, <1>11 DEF Tiled
<1> QED BY <1>1, <1>12 DEF v, t, F

LEMMA LayoutInit == Init => LayoutInv
BY DEF Init, LayoutInv, Open, NoWriter

LEMMA StagedTiled ==
  ASSUME LayoutInv, ~Staged.torn
  PROVE  Staged.file = Staged.hashed /\ Tiled(Staged.hashed, Staged.entries)
BY WriterTypes, NewTiled DEF LayoutInv, Staged, Open

LEMMA LayoutNext ==
  ASSUME PackTypes, LayoutInv, [Next]_vars PROVE LayoutInv'
<1>1. ASSUME NEW c \in Chunk, Put(c) PROVE LayoutInv'
  <2> DEFINE w == Added(Staged, c, SealedBlob(c, seals))
  <2>1. ~w.torn => w.file = w.hashed /\ Tiled(w.hashed, w.entries)
    <3>1. SealedBlob(c, seals) \in Seq(Cell) /\ Staged \in Records
      BY SealedType, StagedTyped DEF PackTypes, ScanTyped
    <3>2. w.torn = Staged.torn
      BY <3>1, AddedType
    <3> QED BY <3>1, <3>2, StagedTiled, AddedTiled
  <2>2. /\ mode' = "store"
        /\ \/ packs' = Publish(w) /\ writer' = NoWriter
           \/ writer' = w /\ UNCHANGED packs
    BY <1>1 DEF Put, Sealing, jobVars
  <2> HIDE DEF w
  <2> QED BY <2>1, <2>2 DEF LayoutInv, Open, Publish
<1>2. ASSUME NEW c \in Chunk, PutFails(c) PROVE LayoutInv'
  <2>1. PICK k \in 0..SealedLen(c) - 1 :
          writer' = HalfAdded(Staged, c, SealedBlob(c, seals), k)
    BY <1>2 DEF PutFails
  <2>2. writer'.torn
    BY <2>1, StagedTyped, HalfAddedType DEF PackTypes, ScanTyped
  <2>3. mode' = "store" /\ UNCHANGED packs
    BY <1>2 DEF PutFails, Sealing, jobVars
  <2> QED BY <2>2, <2>3 DEF LayoutInv
<1>3. CASE Flush
  <2>1. writer # NoWriter
    BY <1>3, WriterTypes DEF Flush
  <2>2. packs' = Publish(writer) /\ writer' = NoWriter /\ mode' = "store"
    BY <1>3 DEF Flush, jobVars
  <2> QED BY <2>1, <2>2 DEF LayoutInv, Open, Publish
<1>4. CASE Abandon
  BY <1>4 DEF Abandon, LayoutInv, Open, jobVars
<1>5. ASSUME NEW name \in DOMAIN packs, DropPack(name) PROVE LayoutInv'
  BY <1>5 DEF DropPack, Without, LayoutInv, Open, jobVars
<1>6. ASSUME NEW name \in DOMAIN packs, BeginRepack(name) PROVE LayoutInv'
  <2>1. writer' = NewWriter /\ UNCHANGED packs
    BY <1>6 DEF BeginRepack
  <2> QED BY <2>1, NewTiled, WriterTypes DEF LayoutInv
<1>7. ASSUME NEW name \in DOMAIN packs, Damage(name) PROVE LayoutInv'
  <2>1. /\ DOMAIN packs' = DOMAIN packs
        /\ \A n \in DOMAIN packs : /\ packs'[n].torn = packs[n].torn
                                   /\ packs'[n].entries = packs[n].entries
    BY <1>7 DEF Damage, PackTypes, PacksTyped, Records
  <2> QED BY <1>7, <2>1 DEF Damage, LayoutInv, Open, jobVars
<1>8. ASSUME NEW c \in todo \cap Chunk, CopyBlob(c) PROVE LayoutInv'
  <2> DEFINE blob == GetRange(packs[source].file, index[c].entry.offset, index[c].entry.length)
  <2>1. CASE writer' = NoWriter /\ EndJob
    BY <1>8, <2>1 DEF CopyBlob, LayoutInv, Open, EndJob
  <2>2. CASE /\ index[c].entry.offset + index[c].entry.length <= Len(packs[source].file)
             /\ writer' = Added(writer, c, blob)
             /\ UNCHANGED mode
    <3>1. /\ index[c].entry \in Entries /\ packs[source].file \in Seq(Cell)
          /\ mode = "repack" /\ UNCHANGED packs
      BY <1>8
      DEF CopyBlob, PackTypes, JobTyped, IndexTyped, PacksTyped, Records, ChunksIn
    <3>2. blob \in Seq(Cell)
      BY <2>2, <3>1, SubSeqProperties DEF GetRange, Entries
    <3>3. writer \in Records /\ writer # NoWriter /\ ~writer.torn
      BY <3>1 DEF PackTypes, WriterTyped, JobTyped, Open, LayoutInv
    <3> HIDE DEF blob
    <3>4. writer'.torn = writer.torn
      BY <2>2, <3>2, <3>3, AddedType
    <3>5. writer.file = writer.hashed /\ Tiled(writer.hashed, writer.entries)
      BY <3>3 DEF LayoutInv, Open
    <3>6. writer'.file = writer'.hashed /\ Tiled(writer'.hashed, writer'.entries)
      BY <2>2, <3>2, <3>3, <3>5, AddedTiled
    <3> QED BY <3>1, <3>3, <3>4, <3>6 DEF LayoutInv
  <2> QED BY <1>8, <2>1, <2>2 DEF CopyBlob
<1>9. CASE EndRepack
  <2>1. /\ packs' = [n \in (DOMAIN packs \ {source}) \cup {writer.hashed} |->
                       IF n = writer.hashed THEN writer ELSE packs[n]]
        /\ writer' = NoWriter /\ mode = "repack" /\ mode' = "store"
    BY <1>9 DEF EndRepack, EndJob
  <2>2. Open
    BY <2>1 DEF PackTypes, JobTyped
  <2> QED BY <2>1, <2>2 DEF LayoutInv, Open
<1>10. ASSUME UNCHANGED <<packs, writer>>, mode' \in {mode, "store", "rebuild"}
       PROVE  LayoutInv'
  BY <1>10 DEF LayoutInv, Open
<1>11. CASE BeginRebuild \/ ScanEntry \/ PackScanned \/ EndRebuild \/ UNCHANGED vars
  BY <1>10, <1>11
  DEF BeginRebuild, ScanEntry, PackScanned, EndRebuild, EndJob, vars, jobVars
<1>12. ASSUME NEW name \in todo \cap DOMAIN packs, OpenPack(name) PROVE LayoutInv'
  BY <1>10, <1>12 DEF OpenPack, EndJob
<1> QED
  BY <1>1, <1>2, <1>3, <1>4, <1>5, <1>6, <1>7, <1>8, <1>9, <1>11, <1>12 DEF Next

-----------------------------------------------------------------------------
(* The scan of a clean pack, and the rebuild *)

(* One step of the scan lands on the next boundary, with the entry between. *)
LEMMA ScanStep ==
  ASSUME NEW file \in Seq(Cell), NEW E \in SUBSET Entries, Tiled(file, E),
         NEW p \in Nat, Boundary(E, p), p < Len(file)
  PROVE  \E x \in E :
           /\ x.offset = p + 2 /\ End(x) <= Len(file)
           /\ IdAt(file, p) = {x.chunk} /\ LengthAt(file, p) = {x.length}
           /\ {e \in E : End(e) <= End(x)} = {e \in E : End(e) <= p} \cup {x}
<1>1. Len(file) \in Nat /\ Len(file) # p
  BY LenProperties
<1>2. PICK x \in E : x.offset = p + 2
  BY <1>1 DEF Tiled
<1>3. /\ End(x) <= Len(file) /\ x.offset - 1 = p + 1
      /\ file[p + 1] = <<"id", x.chunk>> /\ file[p + 2] = <<"len", x.length>>
  <2>1. x.offset - 1 = p + 1
    BY <1>2
  <2>2. Described(file, x)
    BY DEF Tiled
  <2> QED BY <1>2, <2>1, <2>2 DEF Described
<1>4. x.chunk \in Chunk /\ x.length \in Nat /\ End(x) = p + 2 + x.length
  BY <1>2 DEF Entries, End
<1>5. IdAt(file, p) = {x.chunk}
  BY <1>3, <1>4 DEF IdAt
<1>6. LengthAt(file, p) = {x.length}
  <2>1. x.length \in 0..Len(file)
    BY <1>1, <1>3, <1>4
  <2>2. {len \in 0..Len(file) : file[p + 2] = <<"len", len>>} = {x.length}
    BY <1>3, <2>1
  <2> QED BY <2>2 DEF LengthAt
<1>7. ASSUME NEW e \in E PROVE End(e) <= End(x) <=> End(e) <= p \/ e = x
  <2>1. e.offset \in Nat /\ End(e) \in Nat /\ e.offset <= End(e)
    BY DEF Entries, End
  <2>2. e = x \/ End(e) + 2 <= x.offset \/ End(x) + 2 <= e.offset
    BY DEF Tiled, Apart
  <2> QED BY <1>2, <1>4, <2>1, <2>2
<1> QED BY <1>2, <1>3, <1>5, <1>6, <1>7

(* A clean pack is the tiled string that its name was taken of.            *)
LEMMA CleanTiled ==
  ASSUME PackTypes, LayoutInv, NEW n \in DOMAIN packs, Clean(n)
  PROVE  /\ packs[n].file = n /\ n \in Seq(Cell)
         /\ packs[n].entries \in SUBSET Entries
         /\ Tiled(n, packs[n].entries)
         /\ n # NoName
<1>1. packs[n].file = n /\ Tiled(n, packs[n].entries) /\ packs[n] \in Records
  BY DEF LayoutInv, Clean, PackTypes, PacksTyped
<1>2. Len(n) >= 1 /\ Len(NoName) = 0
  BY <1>1 DEF Tiled, NoName
<1> QED BY <1>1, <1>2 DEF Records

LEMMA ScanFaithfulNext ==
  ASSUME PackTypes, LayoutInv, ScanFaithful, [Next]_vars PROVE ScanFaithful'
<1>1. ASSUME mode' # "rebuild" \/ source' = NoName PROVE ScanFaithful'
  BY <1>1 DEF ScanFaithful
<1>2. CASE ScanEntry
  <2> SUFFICES ASSUME mode' = "rebuild", source' # NoName, Clean(source)'
               PROVE  ScanFaithful'
    BY DEF ScanFaithful
  <2>1. /\ ~EndJob /\ UNCHANGED <<packs, mode, source>>
        /\ mode = "rebuild" /\ source # NoName /\ source \in DOMAIN packs
        /\ pos < Len(packs[source].file) /\ Clean(source)
    BY <1>2 DEF ScanEntry, EndJob, PackTypes, JobTyped, Clean
  <2> DEFINE E == packs[source].entries
  <2>2. /\ packs[source].file = source /\ source \in Seq(Cell)
        /\ E \in SUBSET Entries /\ Tiled(source, E)
    BY <2>1, CleanTiled
  <2>3. found = {e \in E : End(e) <= pos} /\ Boundary(E, pos) /\ pos \in Nat
    BY <2>1 DEF ScanFaithful, Boundary, End, PackTypes, ScanTyped
  <2>4. PICK x \in E :
          /\ x.offset = pos + 2 /\ End(x) <= Len(source)
          /\ IdAt(source, pos) = {x.chunk} /\ LengthAt(source, pos) = {x.length}
          /\ {e \in E : End(e) <= End(x)} = {e \in E : End(e) <= pos} \cup {x}
    BY <2>1, <2>2, <2>3, ScanStep
  <2>5. /\ found' = found \cup {Entry(c, pos + 2, x.length) : c \in {x.chunk}}
        /\ pos' = pos + 2 + x.length
    BY <1>2, <2>1, <2>2, <2>4 DEF ScanEntry, Hop, HeaderLen
  <2>6. Entry(x.chunk, pos + 2, x.length) = x /\ pos' = End(x)
    BY <2>2, <2>4, <2>5 DEF Entry, Entries, End
  <2>7. found' = {e \in E : End(e) <= pos'}
    BY <2>3, <2>4, <2>5, <2>6
  <2> QED BY <2>1, <2>4, <2>6, <2>7 DEF ScanFaithful, End
<1>3. ASSUME NEW name \in todo \cap DOMAIN packs, OpenPack(name) PROVE ScanFaithful'
  <2> SUFFICES ASSUME mode' = "rebuild", source' # NoName, Clean(source)'
               PROVE  ScanFaithful'
    BY DEF ScanFaithful
  <2>1. /\ source = NoName /\ source' = name /\ pos' = 1 /\ found' = found
        /\ UNCHANGED packs
    BY <1>3 DEF OpenPack, EndJob
  <2>2. found = {} /\ Clean(name)
    BY <2>1 DEF PackTypes, ScanTyped, Clean
  <2>3. \A e \in packs[name].entries : e.offset >= 3 /\ e.offset \in Nat /\ e.length \in Nat
    BY <2>2, CleanTiled DEF Tiled, Described, Entries
  <2>4. \A e \in packs[name].entries : ~(e.offset + e.length <= 1)
    BY <2>3
  <2> QED BY <2>1, <2>2, <2>4 DEF ScanFaithful
<1>4. CASE UNCHANGED vars
  BY <1>4 DEF ScanFaithful, Clean, vars, jobVars
<1>5. CASE UNCHANGED jobVars /\ mode = "store"
  BY <1>1, <1>5 DEF jobVars
<1>6. CASE mode = "repack" /\ mode' # "rebuild"
  BY <1>1, <1>6
<1>7. CASE Next
  BY <1>1, <1>2, <1>3, <1>5, <1>6, <1>7
  DEF Next, Put, PutFails, Sealing, Flush, Abandon, DropPack, BeginRepack, Damage,
      CopyBlob, EndRepack, BeginRebuild, PackScanned, EndRebuild, EndJob, PackTypes, JobTyped
<1> QED BY <1>4, <1>7

LEMMA PacksAlways == Spec => [](PackTypes /\ LayoutInv /\ ScanFaithful)
<1>1. Init => PackTypes /\ LayoutInv /\ ScanFaithful
  BY PackTypesInit, LayoutInit DEF Init, ScanFaithful
<1>2. ASSUME PackTypes, LayoutInv, ScanFaithful, [Next]_vars
      PROVE  (PackTypes /\ LayoutInv /\ ScanFaithful)'
  BY <1>2, PackTypesNext, LayoutNext, ScanFaithfulNext
<1> QED BY <1>1, <1>2, PTL DEF Spec

(* The scan of a pack that nothing spoiled stops at the boundaries of its  *)
(* entries only, and has seen exactly the entries behind it: each header   *)
(* leads to the next one, whatever the ids and the lengths are.            *)
THEOREM ScanIsFaithful == Spec => []ScanFaithful
BY PacksAlways, PTL

(* Of the packs that are not left to scan, the clean ones are indexed.     *)
RecoverInv ==
  mode = "rebuild" =>
    \A n \in DOMAIN packs \ todo : Clean(n) /\ n # source =>
      \A e \in packs[n].entries : Indexed(e.chunk)

(* What is indexed stays so, and what is found comes to it.                *)
LEMMA IndexingIndexes ==
  ASSUME NEW E \in SUBSET Entries, NEW b \in Nat, \A e \in E : e.offset <= b,
         NEW name, name # NoName, index' = Indexing(name, E, index), NEW c \in Chunk,
         Indexed(c) \/ \E e \in E : e.chunk = c
  PROVE  Indexed(c)'
<1>1. CASE \E e \in E : e.chunk = c
  <2>1. Indexing(name, E, index)[c].pack = name
    BY <1>1, IndexingType
  <2> QED BY <2>1 DEF Indexed, NoLocation
<1>2. CASE \A e \in E : e.chunk # c
  <2>1. Indexing(name, E, index)[c] = index[c]
    BY <1>2, IndexingOther
  <2>2. Indexed(c)
    BY <1>2
  <2> QED BY <2>1, <2>2 DEF Indexed
<1> QED BY <1>1, <1>2

LEMMA RecoverNext ==
  ASSUME PackTypes, LayoutInv, ScanFaithful, RecoverInv, [Next]_vars PROVE RecoverInv'
<1> SUFFICES ASSUME mode' = "rebuild" PROVE RecoverInv'
  BY DEF RecoverInv
<1>1. CASE BeginRebuild
  BY <1>1 DEF BeginRebuild, RecoverInv
<1>2. ASSUME NEW name \in todo \cap DOMAIN packs, OpenPack(name) PROVE RecoverInv'
  <2>1. /\ mode = "rebuild" /\ source = NoName /\ source' = name /\ todo' = todo \ {name}
        /\ UNCHANGED <<packs, index>>
    BY <1>2 DEF OpenPack, EndJob
  <2>2. \A n \in DOMAIN packs : Clean(n) => n # source
    BY <2>1, CleanTiled
  <2> QED BY <2>1, <2>2 DEF RecoverInv, Clean, Indexed
<1>3. CASE PackScanned
  <2>1. /\ mode = "rebuild" /\ source # NoName /\ source \in DOMAIN packs
        /\ pos = Len(packs[source].file)
        /\ index' = Indexing(source, found, index)
        /\ source' = NoName /\ UNCHANGED <<packs, todo>>
    BY <1>3 DEF PackScanned, PackTypes, JobTyped
  <2>2. found \in SUBSET Entries /\ pos \in Nat /\ \A e \in found : e.offset <= pos
    BY DEF PackTypes, ScanTyped
  <2> SUFFICES ASSUME NEW n \in DOMAIN packs \ todo, Clean(n), NEW e \in packs[n].entries
               PROVE  Indexed(e.chunk)'
    BY <2>1 DEF RecoverInv, Clean
  <2>3. e.chunk \in Chunk
    BY CleanTiled DEF Entries
  <2>4. Indexed(e.chunk) \/ \E f \in found : f.chunk = e.chunk
    <3>1. CASE n = source
      <4>1. End(e) <= Len(n) /\ packs[n].file = n
        BY CleanTiled DEF Tiled, Described
      <4>2. e \in found
        BY <2>1, <3>1, <4>1 DEF ScanFaithful, End
      <4> QED BY <4>2
    <3>2. CASE n # source
      BY <2>1, <3>2 DEF RecoverInv
    <3> QED BY <3>1, <3>2
  <2> QED BY <2>1, <2>2, <2>3, <2>4, IndexingIndexes
<1>4. CASE ScanEntry
  BY <1>4 DEF ScanEntry, EndJob, RecoverInv, Clean, Indexed
<1>5. CASE UNCHANGED vars
  BY <1>5 DEF vars, jobVars, RecoverInv, Clean, Indexed
<1>6. CASE Next
  BY <1>1, <1>2, <1>3, <1>4, <1>6
  DEF Next, Put, PutFails, Sealing, Flush, Abandon, DropPack, BeginRepack, Damage,
      CopyBlob, EndRepack, EndRebuild, EndJob, jobVars
<1> QED BY <1>5, <1>6

LEMMA RecoversNext ==
  ASSUME PackTypes, LayoutInv, ScanFaithful, RecoverInv, [Next]_vars PROVE Recovers
<1> SUFFICES ASSUME mode = "rebuild", mode' = "store", \A n \in DOMAIN packs : Clean(n)
             PROVE  /\ source = NoName /\ todo = {}
                    /\ \A n \in DOMAIN packs : \A e \in packs[n].entries : Indexed(e.chunk)
  BY DEF Recovers
<1>1. CASE EndRebuild
  BY <1>1, CleanTiled DEF EndRebuild, RecoverInv
<1>2. ASSUME NEW name \in todo \cap DOMAIN packs, OpenPack(name) PROVE FALSE
  <2>1. Len(packs[name].file) >= 1 /\ packs[name].file[1] = Magic
    BY CleanTiled DEF Tiled
  <2>2. Len(packs[name].file) \in Nat
    BY LenProperties DEF PackTypes, PacksTyped, Records
  <2> QED BY <1>2, <2>1, <2>2 DEF OpenPack
<1>3. CASE ScanEntry
  <2> DEFINE E == packs[source].entries
  <2>1. source # NoName /\ source \in DOMAIN packs /\ pos < Len(packs[source].file)
    BY <1>3 DEF ScanEntry, PackTypes, JobTyped
  <2>2. /\ packs[source].file = source /\ source \in Seq(Cell)
        /\ E \in SUBSET Entries /\ Tiled(source, E)
    BY <2>1, CleanTiled
  <2>3. Boundary(E, pos) /\ pos \in Nat
    BY <2>1 DEF ScanFaithful, Boundary, End, PackTypes, ScanTyped
  <2>4. PICK x \in E :
          /\ x.offset = pos + 2 /\ End(x) <= Len(source)
          /\ LengthAt(source, pos) = {x.length}
    BY <2>1, <2>2, <2>3, ScanStep
  <2>5. /\ x.length \in Nat /\ Len(source) \in Nat
        /\ ~(pos + 2 > Len(source)) /\ ~(pos + 2 + x.length > Len(source))
    BY <2>2, <2>3, <2>4, LenProperties DEF End, Entries
  <2> QED BY <1>3, <2>2, <2>4, <2>5 DEF ScanEntry, HeaderLen
<1>4. CASE UNCHANGED vars
  BY <1>4 DEF vars, jobVars
<1>5. CASE Next
  BY <1>1, <1>2, <1>3, <1>5
  DEF Next, Put, PutFails, Sealing, Flush, Abandon, DropPack, BeginRepack, Damage,
      CopyBlob, EndRepack, BeginRebuild, PackScanned
<1> QED BY <1>4, <1>5

(* A rebuild over packs that nothing spoiled never raises, and when it     *)
(* ends every chunk that was ever added to one of them is indexed.         *)
THEOREM RebuildIsComplete == Spec => RebuildRecovers
<1>1. Init => RecoverInv
  BY DEF Init, RecoverInv
<1>2. PackTypes /\ LayoutInv /\ ScanFaithful /\ RecoverInv /\ [Next]_vars
        => RecoverInv' /\ [Recovers]_vars
  BY RecoverNext, RecoversNext
<1> QED BY <1>1, <1>2, PacksAlways, PTL DEF Spec, RebuildRecovers

-----------------------------------------------------------------------------
(* What the index locates *)

(* f is what is left of g after some damage. *)
Worse(f, g) == Len(f) <= Len(g) /\ \A p \in 1..Len(f) : f[p] \in {g[p], Rot}

(* blob is the k-th sealed blob, one of chunk c, except for damage. *)
IsSealed(blob, c, k) ==
  Len(blob) = SealedLen(c) /\ \A i \in 1..SealedLen(c) : blob[i] \in {<<"blob", c, k, i>>, Rot}

Contains(s, e, k) ==
  /\ e.length = SealedLen(e.chunk) /\ End(e) <= Len(s)
  /\ \A i \in 1..SealedLen(e.chunk) : s[e.offset + i] \in {<<"blob", e.chunk, k, i>>, Rot}

(* A header without its blob: what a write stopped half way leaves in the  *)
(* string that is hashed.                                                  *)
IsLen(cell) == \E l \in Nat : cell = <<"len", l>>
IsId(cell)  == \E c \in Chunk : cell = <<"id", c>>
Broken(s)   == \E p \in 1..Len(s) : IsLen(s[p]) /\ (p = Len(s) \/ IsId(s[p + 1]))

HasSeal(s, k) ==
  \E p \in 1..Len(s) : \E c \in Chunk : \E i \in Nat : s[p] = <<"blob", c, k, i>>

Original(n) == IF packs[n].torn THEN packs[n].file ELSE n

WriterHolds == \A e \in writer.entries : \E k \in 0..seals - 1 : Contains(writer.file, e, k)
PacksHold ==
  \A n \in DOMAIN packs : ~packs[n].torn =>
    /\ Worse(packs[n].file, n)
    /\ \A e \in packs[n].entries : \E k \in 0..seals - 1 : Contains(n, e, k)
IndexHolds ==
  \A c \in Chunk : Indexed(c) =>
    \E k \in 0..seals - 1 : Holds(Original(index[c].pack), index[c].entry, SealedBlob(c, k))
NamesTell ==
  /\ \A n \in DOMAIN packs : packs[n].torn => Broken(n)
  /\ writer.torn => Broken(writer.hashed)
  /\ mode = "repack" => ~Broken(writer.hashed)
SealsOld ==
  \A n \in DOMAIN packs \cup {writer.hashed} : \A k \in Nat : HasSeal(n, k) => k < seals
WriterFresh ==
  mode = "store" /\ writer.entries # {} =>
    \E k \in 0..seals - 1 : HasSeal(writer.hashed, k) /\ \A n \in DOMAIN packs : ~HasSeal(n, k)

LocateInv ==
  trusted => WriterHolds /\ PacksHold /\ IndexHolds /\ NamesTell /\ SealsOld /\ WriterFresh

LEMMA CellKinds ==
  /\ \A c, d, k, i : <<"blob", d, k, i>> # <<"id", c>>
  /\ \A l, d, k, i : <<"blob", d, k, i>> # <<"len", l>>
  /\ \A c, l : <<"id", c>> # <<"len", l>>
  /\ \A c : Rot # <<"id", c>> /\ Magic # <<"id", c>>
  /\ \A l : Rot # <<"len", l>> /\ Magic # <<"len", l>>
  /\ \A d, k, i : /\ Rot # <<"blob", d, k, i>> /\ Magic # <<"blob", d, k, i>>
                  /\ \A c : <<"id", c>> # <<"blob", d, k, i>>
                  /\ \A l : <<"len", l>> # <<"blob", d, k, i>>
  /\ \A c, d, k, j, i, m : <<"blob", c, k, i>> = <<"blob", d, j, m>> => k = j
BY DEF Rot, Magic

LEMMA SealedIsSealed ==
  ASSUME NEW c \in Chunk, NEW k \in Nat
  PROVE  SealedBlob(c, k) \in Seq(Cell) /\ IsSealed(SealedBlob(c, k), c, k)
BY SealedType DEF IsSealed

(* An add of a sealed blob: the entries hold their blobs, no other seal    *)
(* and no lone header comes to the string that is hashed.                  *)
LEMMA AddedContains ==
  ASSUME NEW w \in Records, NEW c \in Chunk, NEW blob \in Seq(Cell), NEW k \in Nat,
         IsSealed(blob, c, k), NEW n \in Nat, k < n,
         \A e \in w.entries : \E j \in 0..n - 1 : Contains(w.file, e, j)
  PROVE  \A e \in Added(w, c, blob).entries :
           \E j \in 0..n - 1 : Contains(Added(w, c, blob).file, e, j)
<1> DEFINE v == Added(w, c, blob)
           l == Len(w.file)
           x == Entry(c, l + 2, Len(blob))
<1>1. v.entries = w.entries \cup {x} /\ Len(v.file) = l + 2 + Len(blob)
  BY AddedType
<1>2. /\ \A p \in 1..l : v.file[p] = w.file[p]
      /\ \A i \in 1..Len(blob) : v.file[l + 2 + i] = blob[i]
  BY AddedType
<1>3. /\ l \in Nat /\ Len(blob) \in Nat /\ w.entries \in SUBSET Entries
      /\ Len(blob) = SealedLen(c) /\ SealedLen(c) \in Nat
  BY LenProperties, SealedType DEF Records, IsSealed
<1>4. x.chunk = c /\ x.offset = l + 2 /\ x.length = Len(blob) /\ End(x) = l + 2 + Len(blob)
  BY DEF Entry, End
<1> HIDE DEF v, l, x
<1>5. Contains(v.file, x, k)
  <2>1. \A i \in 1..SealedLen(c) : v.file[x.offset + i] \in {<<"blob", c, k, i>>, Rot}
    BY <1>2, <1>3, <1>4 DEF IsSealed
  <2>2. x.length = SealedLen(c) /\ End(x) <= Len(v.file)
    BY <1>1, <1>3, <1>4
  <2> QED BY <1>4, <2>1, <2>2 DEF Contains
<1>6. ASSUME NEW e \in w.entries, NEW j \in Nat, Contains(w.file, e, j)
      PROVE  Contains(v.file, e, j)
  <2>1. /\ e.offset \in Nat /\ e.length \in Nat /\ e.chunk \in Chunk
        /\ e.length = SealedLen(e.chunk) /\ e.offset + e.length <= l
    BY <1>3, <1>6 DEF Entries, Contains, End, l
  <2>2. \A i \in 1..SealedLen(e.chunk) : e.offset + i \in 1..l
    BY <1>3, <2>1
  <2>3. \A i \in 1..SealedLen(e.chunk) : v.file[e.offset + i] = w.file[e.offset + i]
    BY <1>2, <2>2
  <2>4. End(e) <= Len(v.file)
    BY <1>1, <1>3, <2>1 DEF End
  <2> QED BY <1>6, <2>1, <2>3, <2>4 DEF Contains
<1>7. ASSUME NEW e \in v.entries PROVE \E j \in 0..n - 1 : Contains(v.file, e, j)
  <2>1. CASE e \in w.entries
    BY <1>6, <2>1
  <2>2. CASE e = x
    <3>1. k \in 0..n - 1
      OBVIOUS
    <3> QED BY <1>5, <2>2, <3>1
  <2> QED BY <1>1, <2>1, <2>2
<1> QED BY <1>7 DEF v

LEMMA AddedSeals ==
  ASSUME NEW w \in Records, NEW c \in Chunk, NEW blob \in Seq(Cell), NEW k \in Nat,
         IsSealed(blob, c, k), NEW j \in Nat, HasSeal(Added(w, c, blob).hashed, j)
  PROVE  j = k \/ HasSeal(w.hashed, j)
<1> DEFINE t == Added(w, c, blob).hashed
           m == Len(w.hashed)
<1>1. /\ Len(t) = m + 2 + Len(blob)
      /\ \A p \in 1..m : t[p] = w.hashed[p]
      /\ t[m + 1] = <<"id", c>>
      /\ t[m + 2] = <<"len", Len(blob)>>
      /\ \A i \in 1..Len(blob) : t[m + 2 + i] = blob[i]
  BY AddedType
<1>2. m \in Nat /\ Len(blob) \in Nat
  BY LenProperties DEF Records
<1>3. HasSeal(t, j)
  OBVIOUS
<1> HIDE DEF t, m
<1>4. PICK p \in 1..Len(t) : \E d \in Chunk : \E i \in Nat : t[p] = <<"blob", d, j, i>>
  BY <1>3 DEF HasSeal
<1>5. CASE p \in 1..m
  BY <1>1, <1>4, <1>5 DEF HasSeal, m
<1>6. CASE p = m + 1 \/ p = m + 2
  BY <1>1, <1>4, <1>6, CellKinds
<1>7. CASE p \in m + 3..Len(t)
  <2>1. p - (m + 2) \in 1..Len(blob) /\ m + 2 + (p - (m + 2)) = p
    BY <1>1, <1>2, <1>7
  <2>2. t[p] = blob[p - (m + 2)]
    BY <1>1, <2>1
  <2>3. t[p] \in {<<"blob", c, k, p - (m + 2)>>, Rot}
    BY <2>1, <2>2 DEF IsSealed
  <2> QED BY <1>4, <2>3, CellKinds
<1>8. p \in 1..m \/ p = m + 1 \/ p = m + 2 \/ p \in m + 3..Len(t)
  BY <1>1, <1>2
<1> QED BY <1>5, <1>6, <1>7, <1>8

LEMMA AddedBroken ==
  ASSUME NEW w \in Records, NEW c \in Chunk, NEW blob \in Seq(Cell), NEW k \in Nat,
         IsSealed(blob, c, k)
  PROVE  Broken(Added(w, c, blob).hashed) <=> Broken(w.hashed)
<1> DEFINE t == Added(w, c, blob).hashed
           s == w.hashed
           m == Len(s)
<1>1. /\ Len(t) = m + 2 + Len(blob)
      /\ \A p \in 1..m : t[p] = s[p]
      /\ t[m + 1] = <<"id", c>>
      /\ t[m + 2] = <<"len", Len(blob)>>
      /\ \A i \in 1..Len(blob) : t[m + 2 + i] = blob[i]
  BY AddedType
<1>2. m \in Nat /\ Len(blob) \in Nat \ {0} /\ Len(blob) = SealedLen(c)
  BY LenProperties, SealedType DEF Records, IsSealed
<1>3. ASSUME NEW i \in 1..Len(blob) PROVE ~IsLen(t[m + 2 + i]) /\ ~IsId(t[m + 2 + i])
  <2>1. t[m + 2 + i] \in {<<"blob", c, k, i>>, Rot}
    BY <1>1, <1>2 DEF IsSealed
  <2> QED BY <2>1, CellKinds DEF IsLen, IsId
<1> HIDE DEF t, s, m
<1>4. ASSUME Broken(s) PROVE Broken(t)
  <2>1. PICK p \in 1..m : IsLen(s[p]) /\ (p = m \/ IsId(s[p + 1]))
    BY <1>4 DEF Broken, m
  <2>2. IsLen(t[p]) /\ p \in 1..Len(t)
    BY <1>1, <1>2, <2>1
  <2>3. IsId(t[p + 1])
    <3>1. CASE p = m
      BY <1>1, <3>1 DEF IsId
    <3>2. CASE p # m /\ IsId(s[p + 1])
      <4>1. p + 1 \in 1..m
        BY <1>2, <3>2
      <4> QED BY <1>1, <3>2, <4>1
    <3> QED BY <2>1, <3>1, <3>2
  <2> QED BY <2>2, <2>3 DEF Broken
<1>5. ASSUME Broken(t) PROVE Broken(s)
  <2>1. PICK p \in 1..Len(t) : IsLen(t[p]) /\ (p = Len(t) \/ IsId(t[p + 1]))
    BY <1>5 DEF Broken
  <2>2. CASE p \in 1..m
    <3>1. IsLen(s[p])
      BY <1>1, <2>1, <2>2
    <3>2. p = m \/ IsId(s[p + 1])
      <4>1. CASE p # m
        <5>1. p # Len(t) /\ p + 1 \in 1..m
          BY <1>1, <1>2, <2>2, <4>1
        <5> QED BY <1>1, <2>1, <5>1
      <4> QED BY <4>1
    <3> QED BY <2>2, <3>1, <3>2 DEF Broken, m
  <2>3. CASE p = m + 1
    BY <1>1, <2>1, <2>3, CellKinds DEF IsLen
  <2>4. CASE p = m + 2
    <3>1. p + 1 = m + 2 + 1 /\ 1 \in 1..Len(blob) /\ p # Len(t)
      BY <1>1, <1>2, <2>4
    <3> QED BY <1>3, <2>1, <3>1
  <2>5. CASE p \in m + 3..Len(t)
    <3>1. p - (m + 2) \in 1..Len(blob) /\ m + 2 + (p - (m + 2)) = p
      BY <1>1, <1>2, <2>5
    <3> QED BY <1>3, <2>1, <3>1
  <2>6. p \in 1..m \/ p = m + 1 \/ p = m + 2 \/ p \in m + 3..Len(t)
    BY <1>1, <1>2
  <2> QED BY <2>2, <2>3, <2>4, <2>5, <2>6
<1> QED BY <1>4, <1>5 DEF t, s

(* An add that failed leaves a lone header in what is hashed, and no       *)
(* blob.                                                                   *)
LEMMA HalfAddedNames ==
  ASSUME NEW w \in Records, NEW c \in Chunk, NEW n \in Nat, NEW k \in 0..SealedLen(c) - 1
  PROVE  LET t == HalfAdded(w, c, SealedBlob(c, n), k).hashed IN
         Broken(t) /\ \A j \in Nat : HasSeal(t, j) <=> HasSeal(w.hashed, j)
<1> DEFINE t == HalfAdded(w, c, SealedBlob(c, n), k).hashed
           m == Len(w.hashed)
<1>1. /\ Len(t) = m + 2
      /\ \A p \in 1..m : t[p] = w.hashed[p]
      /\ t[m + 1] = <<"id", c>>
      /\ t[m + 2] = <<"len", SealedLen(c)>>
  BY HalfAddedType
<1>2. m \in Nat /\ SealedLen(c) \in Nat
  BY LenProperties, SealedType DEF Records
<1> HIDE DEF t
<1>3. Broken(t)
  <2>1. m + 2 \in 1..Len(t) /\ IsLen(t[m + 2]) /\ m + 2 = Len(t)
    BY <1>1, <1>2 DEF IsLen
  <2> QED BY <2>1 DEF Broken
<1>4. ASSUME NEW j \in Nat PROVE HasSeal(t, j) <=> HasSeal(w.hashed, j)
  <2>1. \A p \in 1..Len(t) : p \in 1..m \/ p = m + 1 \/ p = m + 2
    BY <1>1, <1>2
  <2>2. \A p \in 1..m : p \in 1..Len(t)
    BY <1>1, <1>2
  <2>3. \A d, i : t[m + 1] # <<"blob", d, j, i>> /\ t[m + 2] # <<"blob", d, j, i>>
    BY <1>1, CellKinds
  <2>4. ASSUME HasSeal(t, j) PROVE HasSeal(w.hashed, j)
    <3>1. PICK p \in 1..Len(t) : \E d \in Chunk : \E i \in Nat : t[p] = <<"blob", d, j, i>>
      BY <2>4 DEF HasSeal
    <3>2. p \in 1..m /\ t[p] = w.hashed[p]
      BY <1>1, <2>1, <2>3, <3>1
    <3> QED BY <3>1, <3>2 DEF HasSeal
  <2>5. ASSUME HasSeal(w.hashed, j) PROVE HasSeal(t, j)
    BY <1>1, <2>2, <2>5 DEF HasSeal
  <2> QED BY <2>4, <2>5
<1> QED BY <1>3, <1>4 DEF t

LEMMA HalfAddedContains ==
  ASSUME NEW w \in Records, NEW c \in Chunk, NEW n \in Nat, NEW k \in 0..SealedLen(c) - 1,
         NEW e \in w.entries, NEW j \in Nat, Contains(w.file, e, j)
  PROVE  Contains(HalfAdded(w, c, SealedBlob(c, n), k).file, e, j)
<1> DEFINE f == HalfAdded(w, c, SealedBlob(c, n), k).file
           l == Len(w.file)
<1>1. /\ Len(f) = l + 2 + k
      /\ \A p \in 1..l : f[p] = w.file[p]
  BY HalfAddedType
<1>2. l \in Nat /\ k \in Nat /\ e \in Entries
  BY LenProperties, SealedType DEF Records
<1> HIDE DEF f, l
<1>3. /\ e.offset \in Nat /\ e.length \in Nat /\ e.length = SealedLen(e.chunk)
      /\ e.offset + e.length <= l
  BY <1>2 DEF Entries, Contains, End, l
<1>4. \A i \in 1..SealedLen(e.chunk) : e.offset + i \in 1..l
  BY <1>2, <1>3
<1>5. End(e) <= Len(f)
  BY <1>1, <1>2, <1>3 DEF End
<1>6. Contains(f, e, j)
  BY <1>1, <1>3, <1>4, <1>5 DEF Contains
<1> QED BY <1>6 DEF f

(* Damage to a string keeps what it holds.                                 *)
LEMMA ContainsHolds ==
  ASSUME NEW s, NEW e \in Entries, NEW k \in Nat, Contains(s, e, k)
  PROVE  Holds(s, e, SealedBlob(e.chunk, k))
<1>1. /\ Len(SealedBlob(e.chunk, k)) = SealedLen(e.chunk)
      /\ \A i \in 1..SealedLen(e.chunk) : SealedBlob(e.chunk, k)[i] = <<"blob", e.chunk, k, i>>
  BY SealedType DEF Entries
<1> QED BY <1>1 DEF Contains, Holds

LEMMA WorseHolds ==
  ASSUME NEW f \in Seq(Cell), NEW g \in Seq(Cell), Worse(f, g),
         NEW e \in Entries, NEW c \in Chunk, NEW k \in Nat, Holds(g, e, SealedBlob(c, k))
  PROVE  Holds(f, e, SealedBlob(c, k))
<1>1. Len(f) \in Nat /\ Len(g) \in Nat /\ Len(f) <= Len(g) /\ e.offset \in Nat
  BY LenProperties DEF Worse, Entries
<1> DEFINE b == SealedBlob(c, k)
<1> HIDE DEF b
<1>2. ASSUME NEW i \in 1..Len(b), ~(e.offset + i > Len(f))
      PROVE  f[e.offset + i] \in {b[i], Rot}
  <2>1. e.offset + i \in 1..Len(f) /\ ~(e.offset + i > Len(g))
    BY <1>1, <1>2
  <2>2. g[e.offset + i] \in {b[i], Rot}
    BY <2>1 DEF Holds, b
  <2> QED BY <2>1, <2>2 DEF Worse
<1> QED BY <1>2 DEF Holds, b

LEMMA WorseTrans ==
  ASSUME NEW f \in Seq(Cell), NEW g \in Seq(Cell), NEW h \in Seq(Cell), Worse(f, g), Worse(g, h)
  PROVE  Worse(f, h)
<1>1. Len(f) \in Nat /\ Len(g) \in Nat /\ Len(h) \in Nat
  BY LenProperties
<1>2. \A p \in 1..Len(f) : p \in 1..Len(g)
  BY <1>1 DEF Worse
<1> QED BY <1>1, <1>2 DEF Worse

LEMMA EmptyNames ==
  /\ ~Broken(NoWriter.hashed) /\ ~Broken(NewWriter.hashed)
  /\ \A k : ~HasSeal(NoWriter.hashed, k) /\ ~HasSeal(NewWriter.hashed, k)
<1>1. /\ NoWriter.hashed = <<>> /\ Len(<<>>) = 0
      /\ NewWriter.hashed = <<Magic>> /\ Len(<<Magic>>) = 1 /\ <<Magic>>[1] = Magic
  BY WriterTypes DEF NoWriter, NoName
<1>2. \A p \in 1..0 : FALSE
  OBVIOUS
<1>3. \A p \in 1..1 : <<Magic>>[p] = Magic
  BY <1>1
<1>4. ~IsLen(Magic) /\ \A d, k, i : Magic # <<"blob", d, k, i>>
  BY CellKinds DEF IsLen
<1> DEFINE s == <<Magic>>
<1>5. Len(s) = 1 /\ \A p \in 1..1 : s[p] = Magic
  BY <1>1, <1>3
<1> HIDE DEF s
<1>6. ~Broken(s)
  BY <1>4, <1>5 DEF Broken
<1>7. \A k : ~HasSeal(s, k)
  BY <1>4, <1>5 DEF HasSeal
<1>8. ~Broken(<<>>) /\ \A k : ~HasSeal(<<>>, k)
  BY <1>1, <1>2 DEF Broken, HasSeal
<1> QED BY <1>1, <1>6, <1>7, <1>8 DEF s

LEMMA LocateInit == Init => LocateInv
<1> SUFFICES ASSUME Init PROVE LocateInv
  OBVIOUS
<1>1. /\ DOMAIN packs = {} /\ writer = NoWriter /\ mode = "store"
      /\ \A c \in Chunk : ~Indexed(c)
  BY DEF Init, Indexed
<1> QED
  BY <1>1, EmptyNames, WriterTypes
  DEF LocateInv, WriterHolds, PacksHold, IndexHolds, NamesTell, SealsOld, WriterFresh, NoWriter

LEMMA StagedLocates ==
  ASSUME WriterHolds, NamesTell, SealsOld
  PROVE  /\ \A e \in Staged.entries : \E k \in 0..seals - 1 : Contains(Staged.file, e, k)
         /\ Staged.torn => Broken(Staged.hashed)
         /\ \A k \in Nat : HasSeal(Staged.hashed, k) => k < seals
BY WriterTypes, EmptyNames DEF Staged, Open, WriterHolds, NamesTell, SealsOld

LEMMA Below ==
  ASSUME NEW m \in Nat, NEW n \in Nat, m <= n
  PROVE  \A k \in 0..m - 1 : k \in 0..n - 1
OBVIOUS

LEMMA IndexingWriter ==
  ASSUME NEW w \in Records, \A e \in w.entries : e.offset <= Len(w.file), NEW i,
         NEW c \in Chunk, \E e \in w.entries : e.chunk = c
  PROVE  LET l == Indexing(w.hashed, w.entries, i)[c] IN
         l.pack = w.hashed /\ l.entry \in w.entries /\ l.entry.chunk = c
<1> DEFINE name == w.hashed
           E == w.entries
           b == Len(w.file)
           l == Indexing(name, E, i)[c]
<1>1. E \in SUBSET Entries /\ b \in Nat
  BY LenProperties DEF Records
<1>2. (\A e \in E : e.offset <= b) /\ \E e \in E : e.chunk = c
  OBVIOUS
<1> HIDE DEF name, E, b
<1>3. l.pack = name /\ l.entry \in E /\ l.entry.chunk = c
  BY <1>1, <1>2, IndexingType
<1> QED BY <1>3 DEF name, E

(* A pack under a name that is new, or that has the same string behind it. *)
LEMMA PublishLocates ==
  ASSUME PackTypes, PacksHold, IndexHolds, NamesTell, SealsOld,
         NEW w \in Records, \A e \in w.entries : e.offset <= Len(w.file),
         ~w.torn => w.file = w.hashed, w.torn => Broken(w.hashed),
         w.hashed \in DOMAIN packs => ~w.torn /\ ~packs[w.hashed].torn,
         seals' \in Nat, seals <= seals',
         \A e \in w.entries : \E k \in 0..seals' - 1 : Contains(w.file, e, k),
         \A k \in Nat : HasSeal(w.hashed, k) => k < seals',
         NEW gone,
         packs' = [n \in (DOMAIN packs \ gone) \cup {w.hashed} |->
                     IF n = w.hashed THEN w ELSE packs[n]],
         NEW i, index' = Indexing(w.hashed, w.entries, i),
         \A c \in Chunk : i[c] # NoLocation => i[c] = index[c] /\ index[c].pack \notin gone,
         writer' = NoWriter, mode' = "store"
  PROVE  (WriterHolds /\ PacksHold /\ IndexHolds /\ NamesTell /\ SealsOld /\ WriterFresh)'
<1>1. \A k \in 0..seals - 1 : k \in 0..seals' - 1
  <2>1. seals \in Nat
    BY DEF PackTypes, ScanTyped
  <2> QED BY <2>1, Below
<1>2. \A n \in DOMAIN packs' : IF n = w.hashed THEN packs'[n] = w
                               ELSE n \in DOMAIN packs /\ packs'[n] = packs[n]
  OBVIOUS
<1>3. WriterHolds' /\ WriterFresh'
  BY WriterTypes DEF WriterHolds, WriterFresh
<1>4. PacksHold'
  <2> SUFFICES ASSUME NEW n \in DOMAIN packs', ~packs'[n].torn
               PROVE  /\ Worse(packs'[n].file, n)
                      /\ \A e \in packs'[n].entries : \E k \in 0..seals' - 1 : Contains(n, e, k)
    BY DEF PacksHold
  <2>1. CASE n = w.hashed
    <3>1. packs'[n] = w /\ w.file = n
      BY <1>2, <2>1
    <3>2. Worse(n, n)
      <4>1. Len(n) \in Nat
        BY <2>1, LenProperties DEF Records
      <4> QED BY <4>1 DEF Worse
    <3> QED BY <3>1, <3>2
  <2>2. CASE n # w.hashed
    <3>1. n \in DOMAIN packs /\ packs'[n] = packs[n]
      BY <1>2, <2>2
    <3> QED BY <1>1, <3>1 DEF PacksHold
  <2> QED BY <2>1, <2>2
<1>5. IndexHolds'
  <2> SUFFICES ASSUME NEW c \in Chunk, Indexed(c)'
               PROVE  \E k \in 0..seals' - 1 :
                        Holds(Original(index[c].pack)', index'[c].entry, SealedBlob(c, k))
    BY DEF IndexHolds
  <2>1. CASE \E e \in w.entries : e.chunk = c
    <3> DEFINE l == Indexing(w.hashed, w.entries, i)[c]
    <3>1. w.entries \in SUBSET Entries /\ Len(w.file) \in Nat
      BY LenProperties DEF Records
    <3>2. l.pack = w.hashed /\ l.entry \in w.entries /\ l.entry.chunk = c
      BY <2>1, IndexingWriter
    <3>3. index'[c] = l
      OBVIOUS
    <3> HIDE DEF l
    <3>4. PICK k \in 0..seals' - 1 : Contains(w.file, l.entry, k)
      BY <3>2
    <3>5. Holds(w.file, l.entry, SealedBlob(c, k))
      BY <3>1, <3>2, <3>4, ContainsHolds
    <3>6. Original(index[c].pack)' = w.file
      BY <1>2, <3>2, <3>3 DEF Original
    <3> QED BY <3>3, <3>5, <3>6
  <2>2. CASE \A e \in w.entries : e.chunk # c
    <3>1. index'[c] = i[c]
      BY <2>2, IndexingOther
    <3>2. index'[c] = index[c] /\ Indexed(c) /\ index[c].pack \notin gone
      BY <3>1 DEF Indexed
    <3>3. index[c].pack \in DOMAIN packs /\ index[c].pack \in DOMAIN packs'
      BY <3>2 DEF PackTypes, IndexTyped
    <3>4. Original(index[c].pack)' = Original(index[c].pack)
      BY <1>2, <3>2, <3>3 DEF Original
    <3> QED BY <1>1, <3>2, <3>4 DEF IndexHolds
  <2> QED BY <2>1, <2>2
<1>6. NamesTell'
  BY <1>2 DEF NamesTell, NoWriter
<1>7. SealsOld'
  <2> SUFFICES ASSUME NEW n \in DOMAIN packs' \cup {writer'.hashed}, NEW k \in Nat, HasSeal(n, k)
               PROVE  k < seals'
    BY DEF SealsOld
  <2>1. CASE n = w.hashed
    BY <2>1
  <2>2. CASE n = NoWriter.hashed
    BY <2>2, EmptyNames
  <2>3. CASE n \in DOMAIN packs
    <3>1. k < seals
      BY <2>3 DEF SealsOld
    <3> QED BY <3>1 DEF PackTypes, ScanTyped
  <2> QED BY <1>2, <2>1, <2>2, <2>3
<1> QED BY <1>3, <1>4, <1>5, <1>6, <1>7

(* The packs and the index stay, and the seals grow at most. *)
LEMMA StayLocates ==
  ASSUME PackTypes, PacksHold, IndexHolds, SealsOld,
         UNCHANGED <<packs, index>>, seals' \in Nat, seals <= seals'
  PROVE  /\ PacksHold' /\ IndexHolds'
         /\ \A n \in DOMAIN packs' : \A k \in Nat : HasSeal(n, k) => k < seals'
<1>1. seals \in Nat /\ \A k \in 0..seals - 1 : k \in 0..seals' - 1
  <2>1. seals \in Nat
    BY DEF PackTypes, ScanTyped
  <2> QED BY <2>1, Below
<1>2. \A n : Original(n)' = Original(n)
  BY DEF Original
<1>3. ASSUME NEW c \in Chunk, Indexed(c)'
      PROVE  \E k \in 0..seals' - 1 :
               Holds(Original(index[c].pack)', index'[c].entry, SealedBlob(c, k))
  <2>1. PICK k \in 0..seals - 1 : Holds(Original(index[c].pack), index[c].entry, SealedBlob(c, k))
    BY <1>3 DEF IndexHolds, Indexed
  <2> QED BY <1>1, <1>2, <2>1
<1>4. ASSUME NEW n \in DOMAIN packs', NEW k \in Nat, HasSeal(n, k) PROVE k < seals'
  <2>1. k < seals
    BY <1>4 DEF SealsOld
  <2> QED BY <1>1, <2>1
<1> QED BY <1>1, <1>3, <1>4 DEF PacksHold, IndexHolds

LEMMA PutLocates ==
  ASSUME PackTypes, LayoutInv, LocateInv, NEW c \in Chunk, Put(c) PROVE LocateInv'
<1> SUFFICES ASSUME trusted
             PROVE  (WriterHolds /\ PacksHold /\ IndexHolds /\ NamesTell /\ SealsOld /\ WriterFresh)'
  BY DEF LocateInv, Put, Sealing
<1> DEFINE blob == SealedBlob(c, seals)
           w == Added(Staged, c, blob)
<1>1. WriterHolds /\ PacksHold /\ IndexHolds /\ NamesTell /\ SealsOld
  BY DEF LocateInv
<1>2. /\ seals' = seals + 1 /\ mode' = "store" /\ seals \in Nat
      /\ \/ /\ packs' = Publish(w)
            /\ index' = Indexing(w.hashed, w.entries, index)
            /\ writer' = NoWriter
         \/ writer' = w /\ UNCHANGED <<packs, index>>
  BY DEF Put, Sealing, jobVars, PackTypes, ScanTyped
<1>3. /\ Staged \in Records /\ (\A e \in Staged.entries : e.offset <= Len(Staged.file))
      /\ blob \in Seq(Cell) /\ IsSealed(blob, c, seals)
  BY <1>2, StagedTyped, SealedIsSealed DEF PackTypes
<1>4. w \in Records /\ w.torn = Staged.torn
  BY <1>3, AddedType
<1>5. \A e \in w.entries : e.offset <= Len(w.file)
  BY <1>3, AddedBounded
<1>6. ~w.torn => w.file = w.hashed
  BY <1>3, <1>4, StagedTiled, AddedTiled
<1>7. w.torn => Broken(w.hashed)
  BY <1>1, <1>2, <1>3, <1>4, StagedLocates, AddedBroken
<1>8. \A e \in w.entries : \E k \in 0..seals' - 1 : Contains(w.file, e, k)
  <2>1. \A e \in Staged.entries : \E k \in 0..(seals + 1) - 1 : Contains(Staged.file, e, k)
    <3>1. \A k \in 0..seals - 1 : k \in 0..(seals + 1) - 1
      BY <1>2
    <3> QED BY <1>1, <3>1, StagedLocates
  <2>2. seals + 1 \in Nat /\ seals < seals + 1
    BY <1>2
  <2> HIDE DEF blob
  <2>3. \A e \in w.entries : \E k \in 0..(seals + 1) - 1 : Contains(w.file, e, k)
    BY <1>2, <1>3, <2>1, <2>2, AddedContains
  <2> QED BY <1>2, <2>3
<1>9. \A k \in Nat : HasSeal(w.hashed, k) => k < seals'
  <2> HIDE DEF blob
  <2> SUFFICES ASSUME NEW k \in Nat, HasSeal(w.hashed, k) PROVE k < seals'
    OBVIOUS
  <2>1. k = seals \/ HasSeal(Staged.hashed, k)
    BY <1>2, <1>3, AddedSeals
  <2>2. k = seals \/ k < seals
    BY <1>1, <2>1, StagedLocates
  <2> QED BY <1>2, <2>2
<1>10. HasSeal(w.hashed, seals) /\ w.entries # {}
  <2>1. /\ Len(w.hashed) = Len(Staged.hashed) + 2 + Len(blob)
        /\ \A i \in 1..Len(blob) : w.hashed[Len(Staged.hashed) + 2 + i] = blob[i]
    BY <1>3, AddedType
  <2>2. w.entries = Staged.entries \cup {Entry(c, Len(Staged.file) + 2, Len(blob))}
    BY <1>3, AddedType
  <2>3. Len(blob) \in Nat \ {0} /\ blob[1] = <<"blob", c, seals, 1>>
    BY <1>2, SealedType
  <2>4. Len(Staged.hashed) \in Nat
    BY <1>3, LenProperties DEF Records
  <2> HIDE DEF blob, w
  <2>5. /\ w.hashed[Len(Staged.hashed) + 2 + 1] = <<"blob", c, seals, 1>>
        /\ Len(Staged.hashed) + 2 + 1 \in 1..Len(w.hashed)
    BY <2>1, <2>3, <2>4
  <2> QED BY <2>2, <2>5 DEF HasSeal
<1>11. \A n \in DOMAIN packs : ~HasSeal(n, seals)
  BY <1>1, <1>2 DEF SealsOld
<1> HIDE DEF w, blob
<1>12. CASE /\ packs' = Publish(w)
            /\ index' = Indexing(w.hashed, w.entries, index)
            /\ writer' = NoWriter
  <2>1. w.hashed \notin DOMAIN packs
    BY <1>10, <1>11
  <2>2. packs' = [n \in (DOMAIN packs \ {}) \cup {w.hashed} |->
                    IF n = w.hashed THEN w ELSE packs[n]]
    BY <1>12 DEF Publish
  <2>3. seals' \in Nat /\ seals <= seals'
    BY <1>2
  <2> DEFINE gone == {}
  <2>4. /\ packs' = [n \in (DOMAIN packs \ gone) \cup {w.hashed} |->
                       IF n = w.hashed THEN w ELSE packs[n]]
        /\ \A d \in Chunk : index[d] # NoLocation => index[d].pack \notin gone
    BY <2>2
  <2> HIDE DEF gone
  <2> QED
    BY <1>1, <1>2, <1>4, <1>5, <1>6, <1>7, <1>8, <1>9, <1>12, <2>1, <2>3, <2>4, PublishLocates
<1>13. CASE writer' = w /\ UNCHANGED <<packs, index>>
  <2>1. seals' \in Nat /\ seals <= seals' /\ seals \in 0..seals' - 1
    BY <1>2
  <2>2. /\ PacksHold' /\ IndexHolds'
        /\ \A n \in DOMAIN packs' : \A k \in Nat : HasSeal(n, k) => k < seals'
    BY <1>1, <1>13, <2>1, StayLocates
  <2>3. WriterHolds'
    BY <1>8, <1>13 DEF WriterHolds
  <2>4. SealsOld'
    BY <1>9, <1>13, <2>2 DEF SealsOld
  <2>5. NamesTell'
    BY <1>1, <1>2, <1>7, <1>13 DEF NamesTell
  <2>6. WriterFresh'
    BY <1>10, <1>11, <1>13, <2>1 DEF WriterFresh
  <2> QED BY <2>2, <2>3, <2>4, <2>5, <2>6
<1> QED BY <1>2, <1>12, <1>13

LEMMA PutFailsLocates ==
  ASSUME PackTypes, LocateInv, NEW c \in Chunk, PutFails(c) PROVE LocateInv'
<1> SUFFICES ASSUME trusted
             PROVE  (WriterHolds /\ PacksHold /\ IndexHolds /\ NamesTell /\ SealsOld /\ WriterFresh)'
  BY DEF LocateInv, PutFails, Sealing
<1>1. WriterHolds /\ PacksHold /\ IndexHolds /\ NamesTell /\ SealsOld /\ WriterFresh
  BY DEF LocateInv
<1>2. PICK j \in 0..SealedLen(c) - 1 :
        writer' = HalfAdded(Staged, c, SealedBlob(c, seals), j)
  BY DEF PutFails
<1>3. /\ seals \in Nat /\ seals' = seals + 1 /\ mode = "store" /\ mode' = "store"
      /\ UNCHANGED <<packs, index>>
  BY DEF PutFails, Sealing, jobVars, PackTypes, ScanTyped
<1>4. seals' \in Nat /\ seals <= seals' /\ \A k \in 0..seals - 1 : k \in 0..seals' - 1
  BY <1>3
<1>5. Staged \in Records
  BY StagedTyped DEF PackTypes
<1>6. writer'.entries = Staged.entries
  BY <1>2, <1>3, <1>5, HalfAddedType
<1>7. Broken(writer'.hashed) /\ \A k \in Nat : HasSeal(writer'.hashed, k) <=> HasSeal(Staged.hashed, k)
  BY <1>2, <1>3, <1>5, HalfAddedNames
<1>8. /\ PacksHold' /\ IndexHolds'
      /\ \A n \in DOMAIN packs' : \A k \in Nat : HasSeal(n, k) => k < seals'
  BY <1>1, <1>3, <1>4, StayLocates
<1>9. WriterHolds'
  <2> SUFFICES ASSUME NEW e \in Staged.entries
               PROVE  \E k \in 0..seals' - 1 : Contains(writer'.file, e, k)
    BY <1>6 DEF WriterHolds
  <2>1. PICK k \in 0..seals - 1 : Contains(Staged.file, e, k)
    BY <1>1, StagedLocates
  <2>2. k \in Nat /\ k \in 0..seals' - 1
    BY <1>3, <1>4
  <2>3. Contains(writer'.file, e, k)
    BY <1>2, <1>3, <1>5, <2>1, <2>2, HalfAddedContains
  <2> QED BY <2>2, <2>3
<1>10. NamesTell'
  BY <1>1, <1>3, <1>7 DEF NamesTell
<1>11. SealsOld'
  <2>1. \A k \in Nat : HasSeal(writer'.hashed, k) => k < seals
    BY <1>1, <1>7, StagedLocates
  <2>2. \A k \in Nat : HasSeal(writer'.hashed, k) => k < seals'
    BY <1>3, <2>1
  <2> QED BY <1>8, <2>2 DEF SealsOld
<1>12. WriterFresh'
  <2> SUFFICES ASSUME Staged.entries # {}
               PROVE  \E k \in 0..seals' - 1 :
                        HasSeal(writer'.hashed, k) /\ \A n \in DOMAIN packs' : ~HasSeal(n, k)
    BY <1>6 DEF WriterFresh
  <2>1. Staged = writer
    BY WriterTypes DEF Staged
  <2>2. PICK k \in 0..seals - 1 : HasSeal(writer.hashed, k) /\ \A n \in DOMAIN packs : ~HasSeal(n, k)
    BY <1>1, <1>3, <2>1 DEF WriterFresh
  <2>3. k \in Nat /\ k \in 0..seals' - 1
    BY <1>3, <1>4
  <2> QED BY <1>3, <1>7, <2>1, <2>2, <2>3
<1> QED BY <1>8, <1>9, <1>10, <1>11, <1>12

LEMMA FlushLocates ==
  ASSUME PackTypes, LayoutInv, LocateInv, Flush PROVE LocateInv'
<1> SUFFICES ASSUME trusted
             PROVE  (WriterHolds /\ PacksHold /\ IndexHolds /\ NamesTell /\ SealsOld /\ WriterFresh)'
  BY DEF LocateInv, Flush
<1>1. WriterHolds /\ PacksHold /\ IndexHolds /\ NamesTell /\ SealsOld /\ WriterFresh
  BY DEF LocateInv
<1>2. /\ mode = "store" /\ mode' = "store" /\ writer.entries # {} /\ writer # NoWriter
      /\ index' = Indexing(writer.hashed, writer.entries, index)
      /\ writer' = NoWriter
      /\ seals' = seals
  BY WriterTypes DEF Flush, jobVars
<1>3. writer.hashed \notin DOMAIN packs
  BY <1>1, <1>2 DEF WriterFresh
<1>4. ~writer.torn => writer.file = writer.hashed
  BY <1>2 DEF LayoutInv, Open
<1>5. writer \in Records /\ (\A e \in writer.entries : e.offset <= Len(writer.file)) /\ seals \in Nat
  BY DEF PackTypes, WriterTyped, ScanTyped
<1>6. /\ \A e \in writer.entries : \E k \in 0..seals - 1 : Contains(writer.file, e, k)
      /\ \A k \in Nat : HasSeal(writer.hashed, k) => k < seals
      /\ writer.torn => Broken(writer.hashed)
  BY <1>1 DEF WriterHolds, SealsOld, NamesTell
<1> DEFINE gone == {}
           w == writer
<1>7. /\ packs' = [n \in (DOMAIN packs \ gone) \cup {w.hashed} |->
                     IF n = w.hashed THEN w ELSE packs[n]]
      /\ \A d \in Chunk : index[d] # NoLocation => index[d].pack \notin gone
  BY DEF Flush, Publish
<1>8. seals' \in Nat /\ seals <= seals'
  BY <1>2, <1>5
<1> HIDE DEF gone
<1> QED BY <1>1, <1>2, <1>3, <1>4, <1>5, <1>6, <1>7, <1>8, PublishLocates

LEMMA EndRepackLocates ==
  ASSUME PackTypes, LayoutInv, LocateInv, EndRepack PROVE LocateInv'
<1> SUFFICES ASSUME trusted
             PROVE  (WriterHolds /\ PacksHold /\ IndexHolds /\ NamesTell /\ SealsOld /\ WriterFresh)'
  BY DEF LocateInv, EndRepack
<1> DEFINE w == writer
           gone == {source}
           i == Unindex(ChunksIn(source))
<1>1. WriterHolds /\ PacksHold /\ IndexHolds /\ NamesTell /\ SealsOld /\ WriterFresh
  BY DEF LocateInv
<1>2. /\ mode = "repack" /\ mode' = "store" /\ writer # NoWriter
      /\ index' = Indexing(w.hashed, w.entries, i)
      /\ packs' = [n \in (DOMAIN packs \ gone) \cup {w.hashed} |->
                     IF n = w.hashed THEN w ELSE packs[n]]
      /\ writer' = NoWriter /\ seals' = seals
  BY DEF EndRepack, EndJob, PackTypes, JobTyped, Open
<1>3. ~w.torn /\ w.file = w.hashed /\ ~Broken(w.hashed)
  BY <1>1, <1>2 DEF LayoutInv, Open, NamesTell
<1>4. w.hashed \in DOMAIN packs => ~w.torn /\ ~packs[w.hashed].torn
  BY <1>1, <1>3 DEF NamesTell
<1>5. w \in Records /\ (\A e \in w.entries : e.offset <= Len(w.file)) /\ seals \in Nat
  BY DEF PackTypes, WriterTyped, ScanTyped
<1>6. /\ \A e \in w.entries : \E k \in 0..seals - 1 : Contains(w.file, e, k)
      /\ \A k \in Nat : HasSeal(w.hashed, k) => k < seals
  BY <1>1 DEF WriterHolds, SealsOld
<1>7. \A c \in Chunk : i[c] # NoLocation => i[c] = index[c] /\ index[c].pack \notin gone
  BY UnindexTyped DEF ChunksIn, Indexed
<1>8. seals' \in Nat /\ seals <= seals'
  BY <1>2, <1>5
<1> HIDE DEF gone, i
<1> QED BY <1>1, <1>2, <1>3, <1>4, <1>5, <1>6, <1>7, <1>8, PublishLocates

LEMMA DropPackLocates ==
  ASSUME PackTypes, LocateInv, NEW name \in DOMAIN packs, DropPack(name) PROVE LocateInv'
<1> SUFFICES ASSUME trusted
             PROVE  (WriterHolds /\ PacksHold /\ IndexHolds /\ NamesTell /\ SealsOld /\ WriterFresh)'
  BY DEF LocateInv, DropPack
<1>1. WriterHolds /\ PacksHold /\ IndexHolds /\ NamesTell /\ SealsOld /\ WriterFresh
  BY DEF LocateInv
<1>2. /\ packs' = [n \in DOMAIN packs \ {name} |-> packs[n]]
      /\ index' = Unindex(ChunksIn(name))
      /\ mode = "store" /\ writer = NoWriter
      /\ UNCHANGED <<writer, mode, seals>>
  BY DEF DropPack, Without, Open, jobVars
<1>3. \A n \in DOMAIN packs' : n \in DOMAIN packs /\ packs'[n] = packs[n]
  BY <1>2
<1>4. IndexHolds'
  <2> SUFFICES ASSUME NEW c \in Chunk, Indexed(c)'
               PROVE  \E k \in 0..seals - 1 :
                        Holds(Original(index[c].pack)', index'[c].entry, SealedBlob(c, k))
    BY <1>2 DEF IndexHolds
  <2>1. index'[c] = index[c] /\ Indexed(c) /\ index[c].pack # name
    BY <1>2, UnindexTyped DEF Indexed, ChunksIn
  <2>2. index[c].pack \in DOMAIN packs \ {name}
    BY <2>1 DEF PackTypes, IndexTyped
  <2>3. Original(index[c].pack)' = Original(index[c].pack)
    BY <1>2, <2>1, <2>2 DEF Original
  <2> QED BY <1>1, <2>1, <2>3 DEF IndexHolds
<1>5. PacksHold' /\ NamesTell' /\ SealsOld'
  BY <1>1, <1>2, <1>3 DEF PacksHold, NamesTell, SealsOld
<1>6. WriterHolds' /\ WriterFresh'
  BY <1>2, WriterTypes DEF WriterHolds, WriterFresh
<1> QED BY <1>4, <1>5, <1>6

(* A blob that was copied is the sealed blob still. *)
LEMMA CopyLocates ==
  ASSUME PackTypes, LayoutInv, LocateInv, NEW c \in todo \cap Chunk, CopyBlob(c) PROVE LocateInv'
<1> SUFFICES ASSUME trusted
             PROVE  (WriterHolds /\ PacksHold /\ IndexHolds /\ NamesTell /\ SealsOld /\ WriterFresh)'
  BY DEF LocateInv, CopyBlob
<1> DEFINE file == packs[source].file
           e == index[c].entry
           blob == GetRange(file, e.offset, e.length)
<1>1. WriterHolds /\ PacksHold /\ IndexHolds /\ NamesTell /\ SealsOld /\ WriterFresh
  BY DEF LocateInv
<1>2. /\ mode = "repack" /\ UNCHANGED <<packs, index, seals>> /\ seals \in Nat
      /\ \/ /\ e.offset + e.length <= Len(file)
            /\ writer' = Added(writer, c, blob)
            /\ UNCHANGED mode
         \/ writer' = NoWriter /\ mode' = "store"
  BY DEF CopyBlob, EndJob, PackTypes, ScanTyped
<1>3. /\ source \in DOMAIN packs /\ Indexed(c) /\ index[c].pack = source
      /\ e \in Entries /\ file \in Seq(Cell) /\ packs[source].hashed = source
      /\ packs[source] \in Records
  BY <1>2 DEF PackTypes, JobTyped, IndexTyped, PacksTyped, Records, ChunksIn
<1>4. seals' \in Nat /\ seals <= seals'
  BY <1>2
<1>5. /\ PacksHold' /\ IndexHolds'
      /\ \A n \in DOMAIN packs' : \A k \in Nat : HasSeal(n, k) => k < seals'
  BY <1>1, <1>2, <1>4, StayLocates
<1>6. CASE writer' = NoWriter /\ mode' = "store"
  <2>1. WriterHolds' /\ WriterFresh'
    BY <1>6, WriterTypes DEF WriterHolds, WriterFresh
  <2>2. SealsOld'
    BY <1>5, <1>6, EmptyNames DEF SealsOld
  <2>3. NamesTell'
    BY <1>1, <1>2, <1>6 DEF NamesTell, NoWriter
  <2> QED BY <1>5, <2>1, <2>2, <2>3
<1>7. CASE /\ e.offset + e.length <= Len(file)
           /\ writer' = Added(writer, c, blob)
           /\ UNCHANGED mode
  <2>1. PICK k \in 0..seals - 1 : Holds(Original(source), e, SealedBlob(c, k))
    BY <1>1, <1>3 DEF IndexHolds
  <2>2. k \in Nat /\ k < seals
    BY <1>2
  <2>3. Holds(file, e, SealedBlob(c, k))
    <3>1. CASE packs[source].torn
      BY <2>1, <3>1 DEF Original
    <3>2. CASE ~packs[source].torn
      <4>1. Worse(file, source) /\ source \in Seq(Cell)
        BY <1>1, <1>3, <3>2 DEF PacksHold, Records
      <4>2. Holds(source, e, SealedBlob(c, k))
        BY <2>1, <3>2 DEF Original
      <4> HIDE DEF file, e
      <4> QED BY <1>3, <2>2, <4>1, <4>2, WorseHolds
    <3> QED BY <3>1, <3>2
  <2>4. blob \in Seq(Cell) /\ IsSealed(blob, c, k)
    <3> HIDE DEF file, e
    <3>1. e.offset \in Nat /\ e.length \in Nat /\ Len(file) \in Nat /\ e.offset + e.length <= Len(file)
      BY <1>3, <1>7, LenProperties DEF Entries
    <3>2. /\ e.length = SealedLen(c) /\ SealedLen(c) \in Nat
          /\ \A i \in 1..SealedLen(c) :
               e.offset + i > Len(file) \/ file[e.offset + i] \in {<<"blob", c, k, i>>, Rot}
      BY <2>2, <2>3, SealedType DEF Holds
    <3>3. \A i \in 1..SealedLen(c) : e.offset + i \in 1..Len(file) /\ ~(e.offset + i > Len(file))
      BY <3>1, <3>2
    <3>4. /\ blob \in Seq(Cell) /\ Len(blob) = e.length
          /\ \A i \in 1..e.length : blob[i] = file[e.offset + i]
      <4> DEFINE a == e.offset + 1
                 z == e.offset + e.length
      <4>1. a \in Int /\ z \in Int /\ a - 1 <= z /\ z - a + 1 = e.length
        BY <3>1
      <4>2. \A i \in a..z : i \in 1..Len(file)
        BY <3>1
      <4>3. \A i \in a..z : file[i] \in Cell
        BY <1>3, <4>2, ElementOfSeq
      <4>4. \A i \in 1..e.length : a + i - 1 = e.offset + i
        BY <3>1
      <4>5. blob = SubSeq(file, a, z)
        BY DEF GetRange
      <4> HIDE DEF a, z, blob
      <4>6. SubSeq(file, a, z) \in Seq(Cell)
        BY <4>1, <4>3, SubSeqProperties
      <4>7. Len(SubSeq(file, a, z)) = IF a <= z THEN z - a + 1 ELSE 0
        BY <4>1, <4>3, SubSeqProperties
      <4>8. \A i \in 1..z - a + 1 : SubSeq(file, a, z)[i] = file[a + i - 1]
        BY <4>1, <4>3, SubSeqProperties
      <4>9. Len(blob) = e.length
        BY <3>1, <4>1, <4>5, <4>7
      <4> QED BY <4>1, <4>4, <4>5, <4>6, <4>8, <4>9
    <3> HIDE DEF blob
    <3> QED BY <3>2, <3>3, <3>4 DEF IsSealed
  <2>5. writer \in Records
    BY DEF PackTypes, WriterTyped
  <2> HIDE DEF blob
  <2>6. writer'.torn = writer.torn
    BY <1>7, <2>4, <2>5, AddedType
  <2>7. WriterHolds'
    BY <1>1, <1>2, <1>7, <2>2, <2>4, <2>5, AddedContains DEF WriterHolds
  <2>8. SealsOld'
    <3>1. ASSUME NEW j \in Nat, HasSeal(writer'.hashed, j) PROVE j < seals
      <4>1. j = k \/ HasSeal(writer.hashed, j)
        BY <1>7, <2>2, <2>4, <2>5, <3>1, AddedSeals
      <4> QED BY <1>1, <2>2, <4>1 DEF SealsOld
    <3> QED BY <1>2, <1>5, <3>1 DEF SealsOld
  <2>9. NamesTell'
    <3>1. Broken(writer'.hashed) <=> Broken(writer.hashed)
      BY <1>7, <2>2, <2>4, <2>5, AddedBroken
    <3> QED BY <1>1, <1>2, <1>7, <2>6, <3>1 DEF NamesTell
  <2>10. WriterFresh'
    BY <1>2, <1>7 DEF WriterFresh
  <2> QED BY <1>5, <2>7, <2>8, <2>9, <2>10
<1> QED BY <1>2, <1>6, <1>7

LEMMA DamageWorse ==
  ASSUME PackTypes, NEW name \in DOMAIN packs, Damage(name)
  PROVE  \E f \in Seq(Cell) : /\ Worse(f, packs[name].file)
                              /\ packs' = [packs EXCEPT ![name].file = f]
<1> DEFINE file == packs[name].file
<1>1. PICK i \in DOMAIN file :
        \/ packs' = [packs EXCEPT ![name].file[i] = Rot]
        \/ packs' = [packs EXCEPT ![name].file = SubSeq(@, 1, i - 1)]
  BY DEF Damage
<1>2. file \in Seq(Cell)
  BY DEF PackTypes, PacksTyped, Records
<1>3. Rot \in Cell /\ i \in 1..Len(file) /\ Len(file) \in Nat
  BY <1>1, <1>2, LenProperties DEF Cell
<1>4. CASE packs' = [packs EXCEPT ![name].file[i] = Rot]
  <2> DEFINE f == [file EXCEPT ![i] = Rot]
  <2>1. packs' = [packs EXCEPT ![name].file = f]
    BY <1>4
  <2> HIDE DEF file
  <2>2. f \in Seq(Cell) /\ Len(f) = Len(file)
    BY <1>2, <1>3, ExceptSeq
  <2>3. \A p \in 1..Len(file) : f[p] = IF p = i THEN Rot ELSE file[p]
    BY <1>2, <1>3, LenProperties
  <2>4. Worse(f, file)
    BY <1>3, <2>2, <2>3 DEF Worse
  <2> QED BY <2>1, <2>2, <2>4 DEF file
<1>5. CASE packs' = [packs EXCEPT ![name].file = SubSeq(@, 1, i - 1)]
  <2> DEFINE f == SubSeq(file, 1, i - 1)
  <2>1. packs' = [packs EXCEPT ![name].file = f]
    BY <1>5
  <2> HIDE DEF file
  <2>2. \A j \in 1..i - 1 : file[j] \in Cell
    BY <1>2, <1>3, ElementOfSeq
  <2>3. 1 \in Int /\ i - 1 \in Int
    BY <1>3
  <2>4. f \in Seq(Cell)
    BY <2>2, <2>3, SubSeqProperties
  <2>5. Len(f) = IF 1 <= i - 1 THEN i - 1 - 1 + 1 ELSE 0
    BY <2>2, <2>3, SubSeqProperties
  <2>6. \A p \in 1..i - 1 - 1 + 1 : f[p] = file[1 + p - 1]
    BY <2>2, <2>3, SubSeqProperties
  <2> HIDE DEF f
  <2>7. Len(f) = i - 1 /\ \A p \in 1..i - 1 : f[p] = file[p]
    BY <1>3, <2>5, <2>6
  <2>8. Worse(f, file)
    BY <1>3, <2>7 DEF Worse
  <2> QED BY <2>1, <2>4, <2>8 DEF file
<1> QED BY <1>1, <1>4, <1>5

LEMMA DamageLocates ==
  ASSUME PackTypes, LocateInv, NEW name \in DOMAIN packs, Damage(name) PROVE LocateInv'
<1> SUFFICES ASSUME trusted
             PROVE  (WriterHolds /\ PacksHold /\ IndexHolds /\ NamesTell /\ SealsOld /\ WriterFresh)'
  BY DEF LocateInv, Damage
<1>1. WriterHolds /\ PacksHold /\ IndexHolds /\ NamesTell /\ SealsOld /\ WriterFresh
  BY DEF LocateInv
<1>2. UNCHANGED <<index, writer, mode, seals>>
  BY DEF Damage, jobVars
<1>3. PICK f \in Seq(Cell) : /\ Worse(f, packs[name].file)
                             /\ packs' = [packs EXCEPT ![name].file = f]
  BY DamageWorse
<1>4. \A n \in DOMAIN packs : packs[n] \in Records /\ packs[n].hashed = n /\ n \in Seq(Cell)
  BY DEF PackTypes, PacksTyped, Records
<1>5. /\ DOMAIN packs' = DOMAIN packs
      /\ packs'[name].file = f
      /\ \A n \in DOMAIN packs : /\ packs'[n].torn = packs[n].torn
                                 /\ packs'[n].entries = packs[n].entries
                                 /\ n # name => packs'[n].file = packs[n].file
  BY <1>3, <1>4 DEF Records
<1>6. PacksHold'
  <2>1. ~packs[name].torn => Worse(f, name)
    <3>1. packs[name].file \in Seq(Cell)
      BY <1>4 DEF Records
    <3> QED BY <1>1, <1>3, <1>4, <3>1, WorseTrans DEF PacksHold
  <2> QED BY <1>1, <1>2, <1>5, <2>1 DEF PacksHold
<1>7. IndexHolds'
  <2> SUFFICES ASSUME NEW c \in Chunk, Indexed(c)
               PROVE  \E k \in 0..seals - 1 :
                        Holds(Original(index[c].pack)', index[c].entry, SealedBlob(c, k))
    BY <1>2 DEF IndexHolds, Indexed
  <2> DEFINE n == index[c].pack
             e == index[c].entry
  <2>1. n \in DOMAIN packs /\ e \in Entries
    BY DEF PackTypes, IndexTyped
  <2>2. PICK k \in 0..seals - 1 : Holds(Original(n), e, SealedBlob(c, k))
    BY <1>1 DEF IndexHolds
  <2>3. CASE n = name /\ packs[n].torn
    <3>1. Original(n)' = f /\ Original(n) = packs[name].file /\ packs[name].file \in Seq(Cell)
      BY <1>2, <1>4, <1>5, <2>3 DEF Original, Records
    <3>2. seals \in Nat
      BY DEF PackTypes, ScanTyped
    <3>3. k \in Nat
      BY <3>2
    <3> HIDE DEF e
    <3>4. Holds(f, e, SealedBlob(c, k))
      BY <1>3, <2>1, <2>2, <3>1, <3>3, WorseHolds
    <3> QED BY <3>1, <3>4 DEF e
  <2>4. CASE n # name \/ ~packs[n].torn
    <3>1. Original(n)' = Original(n)
      BY <1>2, <1>5, <2>1, <2>4 DEF Original
    <3> QED BY <2>2, <3>1
  <2> QED BY <2>3, <2>4
<1>8. NamesTell' /\ SealsOld' /\ WriterHolds' /\ WriterFresh'
  BY <1>1, <1>2, <1>5 DEF NamesTell, SealsOld, WriterHolds, WriterFresh
<1> QED BY <1>6, <1>7, <1>8

LEMMA PackScannedLocates ==
  ASSUME PackTypes, LayoutInv, ScanFaithful, LocateInv, PackScanned PROVE LocateInv'
<1> SUFFICES ASSUME trusted, Clean(source)
             PROVE  (WriterHolds /\ PacksHold /\ IndexHolds /\ NamesTell /\ SealsOld /\ WriterFresh)'
  BY DEF LocateInv, PackScanned
<1>1. WriterHolds /\ PacksHold /\ IndexHolds /\ NamesTell /\ SealsOld /\ WriterFresh
  BY DEF LocateInv
<1>2. /\ mode = "rebuild" /\ source # NoName /\ source \in DOMAIN packs
      /\ index' = Indexing(source, found, index)
      /\ UNCHANGED <<packs, writer, mode, seals>>
  BY DEF PackScanned, PackTypes, JobTyped
<1>3. /\ found \in SUBSET Entries /\ pos \in Nat /\ (\A e \in found : e.offset <= pos)
      /\ seals \in Nat
  BY DEF PackTypes, ScanTyped
<1>4. found \subseteq packs[source].entries /\ ~packs[source].torn
  BY <1>2 DEF ScanFaithful, Clean
<1>5. IndexHolds'
  <2> SUFFICES ASSUME NEW c \in Chunk, Indexed(c)'
               PROVE  \E k \in 0..seals - 1 :
                        Holds(Original(index'[c].pack), index'[c].entry, SealedBlob(c, k))
    BY <1>2 DEF IndexHolds, Original
  <2> DEFINE l == Indexing(source, found, index)[c]
  <2>1. index'[c] = l
    BY <1>2
  <2>2. CASE \E e \in found : e.chunk = c
    <3>1. l.pack = source /\ l.entry \in found /\ l.entry.chunk = c
      BY <1>3, <2>2, IndexingType
    <3> HIDE DEF l
    <3>2. PICK k \in 0..seals - 1 : Contains(source, l.entry, k)
      BY <1>1, <1>2, <1>4, <3>1 DEF PacksHold
    <3>3. k \in Nat /\ l.entry \in Entries
      BY <1>3, <3>1
    <3>4. Holds(source, l.entry, SealedBlob(c, k))
      BY <3>1, <3>2, <3>3, ContainsHolds
    <3> QED BY <1>4, <2>1, <3>1, <3>4 DEF Original
  <2>3. CASE \A e \in found : e.chunk # c
    <3>1. l = index[c]
      BY <2>3, IndexingOther
    <3>2. Indexed(c) /\ index'[c] = index[c]
      BY <2>1, <3>1 DEF Indexed
    <3> QED BY <1>1, <3>2 DEF IndexHolds
  <2> QED BY <2>2, <2>3
<1>6. WriterHolds' /\ PacksHold' /\ NamesTell' /\ SealsOld' /\ WriterFresh'
  BY <1>1, <1>2 DEF WriterHolds, PacksHold, NamesTell, SealsOld, WriterFresh
<1> QED BY <1>5, <1>6

LEMMA LocateNext ==
  ASSUME PackTypes, LayoutInv, ScanFaithful, LocateInv, [Next]_vars PROVE LocateInv'
<1>1. ASSUME UNCHANGED <<packs, seals, trusted>>,
             UNCHANGED writer \/ writer' \in {NoWriter, NewWriter},
             mode' = "repack" => mode = "repack" \/ writer' = NewWriter,
             mode' = "store" => mode = "store" \/ writer'.entries = {},
             \A c \in Chunk : Indexed(c)' => index'[c] = index[c]
      PROVE  LocateInv'
  <2> SUFFICES ASSUME trusted
               PROVE  (WriterHolds /\ PacksHold /\ IndexHolds /\ NamesTell /\ SealsOld /\ WriterFresh)'
    BY <1>1 DEF LocateInv
  <2>1. WriterHolds /\ PacksHold /\ IndexHolds /\ NamesTell /\ SealsOld /\ WriterFresh
    BY DEF LocateInv
  <2>2. PacksHold' /\ IndexHolds'
    BY <1>1, <2>1 DEF PacksHold, IndexHolds, Original, Indexed
  <2>3. CASE writer' \in {NoWriter, NewWriter}
    <3>1. ~writer'.torn /\ writer'.entries = {}
      BY <2>3, WriterTypes DEF NoWriter
    <3>2. ~Broken(writer'.hashed) /\ \A k : ~HasSeal(writer'.hashed, k)
      BY <2>3, EmptyNames
    <3> QED BY <1>1, <2>1, <2>2, <3>1, <3>2 DEF WriterHolds, NamesTell, SealsOld, WriterFresh
  <2>4. CASE UNCHANGED writer
    <3>1. NamesTell'
      BY <1>1, <2>1, <2>4, EmptyNames DEF NamesTell
    <3> QED BY <1>1, <2>1, <2>2, <2>4, <3>1 DEF WriterHolds, SealsOld, WriterFresh
  <2> QED BY <1>1, <2>3, <2>4
<1>2. CASE Abandon
  BY <1>1, <1>2 DEF Abandon, jobVars, NoWriter
<1>3. ASSUME NEW name \in DOMAIN packs, BeginRepack(name) PROVE LocateInv'
  BY <1>1, <1>3 DEF BeginRepack
<1>4. CASE BeginRebuild
  <2>1. \A c \in Chunk : ~Indexed(c)'
    BY <1>4, UnindexTyped DEF BeginRebuild, Indexed
  <2> QED BY <1>1, <1>4, <2>1 DEF BeginRebuild
<1>5. ASSUME mode = "rebuild", mode' # "repack", UNCHANGED <<packs, index, writer, seals, trusted>>
      PROVE  LocateInv'
  <2>1. writer.entries = {}
    BY <1>5, WriterTypes DEF PackTypes, JobTyped, Open
  <2> QED BY <1>1, <1>5, <2>1
<1>6. CASE ScanEntry \/ EndRebuild
  BY <1>5, <1>6 DEF ScanEntry, EndRebuild, EndJob
<1>7. ASSUME NEW name \in todo \cap DOMAIN packs, OpenPack(name) PROVE LocateInv'
  BY <1>5, <1>7 DEF OpenPack, EndJob
<1>8. CASE UNCHANGED vars
  BY <1>1, <1>8 DEF vars, jobVars
<1> QED
  BY <1>2, <1>3, <1>4, <1>6, <1>7, <1>8, PutLocates, PutFailsLocates, FlushLocates,
     DropPackLocates, DamageLocates, CopyLocates, EndRepackLocates, PackScannedLocates
  DEF Next

(* The index locates every chunk exactly, behind half-written blobs, after *)
(* repacks that copy sealed blobs from such packs, after rebuilds, and     *)
(* whatever other cells of the pack are damaged: the range that it gives   *)
(* holds one of the blobs that were sealed for the chunk, except for the   *)
(* cells that the medium lost, as long as a rebuild met clean packs only.  *)
THEOREM IndexIsExact == Spec => []IndexLocates
<1>1. PackTypes /\ LayoutInv /\ ScanFaithful /\ LocateInv /\ [Next]_vars => LocateInv'
  BY LocateNext
<1>2. ASSUME PackTypes, LocateInv PROVE IndexLocates
  <2> SUFFICES ASSUME trusted, NEW c \in Chunk, Indexed(c)
               PROVE  \E k \in 0..seals : Holds(packs[index[c].pack].file, index[c].entry,
                                                SealedBlob(c, k))
    BY DEF IndexLocates
  <2> DEFINE n == index[c].pack
             e == index[c].entry
  <2>1. PacksHold /\ IndexHolds
    BY <1>2 DEF LocateInv
  <2>2. n \in DOMAIN packs /\ e \in Entries /\ seals \in Nat
    BY <1>2 DEF PackTypes, IndexTyped, ScanTyped
  <2>3. packs[n].file \in Seq(Cell) /\ n \in Seq(Cell)
    BY <1>2, <2>2 DEF PackTypes, PacksTyped, Records
  <2>4. PICK k \in 0..seals - 1 : Holds(Original(n), e, SealedBlob(c, k))
    BY <2>1 DEF IndexHolds
  <2>5. k \in Nat /\ k \in 0..seals
    BY <2>2
  <2>6. CASE packs[n].torn
    BY <2>4, <2>5, <2>6 DEF Original
  <2>7. CASE ~packs[n].torn
    <3>1. Worse(packs[n].file, n) /\ Holds(n, e, SealedBlob(c, k))
      BY <2>1, <2>2, <2>4, <2>7 DEF PacksHold, Original
    <3> HIDE DEF n, e
    <3>2. Holds(packs[n].file, e, SealedBlob(c, k))
      BY <2>2, <2>3, <2>5, <3>1, WorseHolds
    <3> QED BY <2>5, <3>2 DEF n, e
  <2> QED BY <2>6, <2>7
<1> QED BY <1>1, <1>2, LocateInit, PacksAlways, PTL DEF Spec
=============================================================================
