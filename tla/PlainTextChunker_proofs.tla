------------------------ MODULE PlainTextChunker_proofs ------------------------
(* The windows of a text, for every text and all sizes: they miss no word, the     *)
(* loop that makes them ends, and the lines computed for them are a range of the   *)
(* text's lines that starts in time and, where the text is tidy, is exact.  The    *)
(* walk over the characters is a recursive function: what is shown of it is shown  *)
(* word by word, with SetInduction.                                                *)
EXTENDS PlainTextChunker, Extrema

USE OptionsAssumption

N == NumWords(content)

Windows == {Window(w) : w \in Nat}

IInv ==
  /\ content \in Seq(Kind) /\ chunkSize \in ChunkSizes /\ overlap \in Overlaps
  /\ wordIndex \in Nat
  /\ chunks \in Seq(Windows)
  /\ Len(chunks) <= wordIndex
  /\ \A i \in DOMAIN chunks :
       /\ chunks[i].first \in Nat
       /\ i - 1 <= chunks[i].first
       /\ chunks[i].first < wordIndex
       /\ chunks[i].first < N
  /\ \A i, j \in DOMAIN chunks : i < j => chunks[i].first < chunks[j].first
  /\ EveryWordChunked

LEMMA NumWordsType == ASSUME NEW text \in Seq(Kind) PROVE NumWords(text) \in Nat
  <1>1. Len(text) \in Nat
    OBVIOUS
  <1>2. IsFiniteSet(0 .. Len(text) - 1)
    BY <1>1, FS_Interval
  <1>3. IsFiniteSet(WordStarts(text))
    BY <1>2, FS_Subset DEF WordStarts
  <1> QED
    BY <1>3, FS_CardinalityType DEF NumWords

\* Rounding down, 0.75 of at least 2 tokens are at least a word.
LEMMA WordsType ==
  ASSUME NEW t \in Nat
  PROVE  Words(t) \in Nat /\ (t > 1 => Words(t) >= 1)
  BY DEF Words

\* A step is at least a word and at most the window.
LEMMA StepType ==
  ASSUME chunkSize \in ChunkSizes, overlap \in Overlaps
  PROVE  StepWords \in Nat /\ WindowWords \in Nat /\ 1 <= StepWords /\ StepWords <= WindowWords
  <1>1. chunkSize \in Nat /\ chunkSize > 1 /\ overlap \in Nat
    OBVIOUS
  <1>2. WindowWords \in Nat /\ WindowWords >= 1 /\ Words(overlap) \in Nat
    BY <1>1, WordsType DEF WindowWords
  <1> QED
    BY <1>2 DEF StepWords

LEMMA InitInv == Init => IInv
  BY TextAssumption DEF Init, IInv, EveryWordChunked

LEMMA StepInv == ASSUME IInv, NextWindow PROVE IInv'
  <1> DEFINE c == Window(wordIndex)
  <1>1. /\ content' = content /\ chunkSize' = chunkSize /\ overlap' = overlap
        /\ wordIndex < N /\ wordIndex' = wordIndex + StepWords
        /\ chunks' = Append(chunks, c)
    BY DEF NextWindow, N
  <1>2. N \in Nat /\ N' = N
    BY <1>1, NumWordsType DEF IInv, N
  <1>3. /\ StepWords \in Nat /\ WindowWords \in Nat
        /\ 1 <= StepWords /\ StepWords <= WindowWords
    BY StepType DEF IInv
  <1>4. Windows' = Windows /\ c \in Windows
    BY <1>1 DEF Windows, Window, WindowWords, IInv
  <1>5. /\ c.first = wordIndex
        /\ c.end = IF wordIndex + WindowWords < N THEN wordIndex + WindowWords ELSE N
    BY DEF Window, N
  <1> HIDE DEF c
  <1>6. /\ chunks' \in Seq(Windows) /\ Len(chunks') = Len(chunks) + 1
        /\ DOMAIN chunks' = DOMAIN chunks \cup {Len(chunks) + 1}
        /\ \A i \in DOMAIN chunks : chunks'[i] = chunks[i]
        /\ chunks'[Len(chunks) + 1] = c
    BY <1>1, <1>4 DEF IInv
  <1>7. DOMAIN chunks = 1 .. Len(chunks) /\ Len(chunks) \in Nat
    BY DEF IInv
  <1>8. ASSUME NEW i \in DOMAIN chunks'
        PROVE  /\ chunks'[i].first \in Nat
               /\ i - 1 <= chunks'[i].first
               /\ chunks'[i].first < wordIndex'
               /\ chunks'[i].first < N
    BY <1>1, <1>2, <1>3, <1>5, <1>6, <1>7 DEF IInv
  <1>9. ASSUME NEW i \in DOMAIN chunks', NEW j \in DOMAIN chunks', i < j
        PROVE  chunks'[i].first < chunks'[j].first
    BY <1>5, <1>6, <1>7, <1>9 DEF IInv
  <1>10. ASSUME NEW w \in 0 .. wordIndex' - 1, w < N
         PROVE  \E i \in DOMAIN chunks' : chunks'[i].first <= w /\ w < chunks'[i].end
    <2>1. CASE w < wordIndex
      <3>1. PICK i \in DOMAIN chunks : chunks[i].first <= w /\ w < chunks[i].end
        BY <1>10, <2>1 DEF IInv, EveryWordChunked, N
      <3> QED
        BY <1>6, <3>1
    <2>2. CASE w >= wordIndex
      BY <1>1, <1>2, <1>3, <1>5, <1>6, <1>10, <2>2 DEF IInv
    <2> QED
      BY <2>1, <2>2 DEF IInv
  <1>11. EveryWordChunked'
    BY <1>2, <1>10 DEF EveryWordChunked, N
  <1>12. wordIndex' \in Nat /\ Len(chunks') <= wordIndex'
    BY <1>1, <1>3, <1>6, <1>7 DEF IInv
  <1> QED
    BY <1>1, <1>2, <1>4, <1>6, <1>8, <1>9, <1>11, <1>12 DEF IInv

LEMMA Invariant == Spec => []IInv
  <1>1. IInv /\ [NextWindow]_vars => IInv'
    <2>1. ASSUME IInv, UNCHANGED vars PROVE IInv'
      BY <2>1 DEF vars, IInv, EveryWordChunked, N, Windows, Window, WindowWords
    <2> QED
      BY <2>1, StepInv
  <1> QED
    BY <1>1, InitInv, PTL DEF Spec

\* No word falls between two windows, in any text and with any sizes.
THEOREM WordsAlwaysChunked == Spec => []EveryWordChunked
  <1>1. IInv => EveryWordChunked
    BY DEF IInv
  <1> QED
    BY <1>1, Invariant, PTL

\* There are never more windows than words: an overlap that is too large cannot keep
\* the loop from its end.
THEOREM ChunksAlwaysBounded == Spec => []ChunksBounded
  <1>1. IInv => ChunksBounded
    <2> SUFFICES ASSUME IInv PROVE Len(chunks) <= N
      BY DEF IInv, ChunksBounded, N
    <2>1. N \in Nat /\ Len(chunks) \in Nat /\ DOMAIN chunks = 1 .. Len(chunks)
      BY NumWordsType DEF IInv, N
    <2>2. CASE Len(chunks) # 0
      <3>1. Len(chunks) \in DOMAIN chunks
        BY <2>1, <2>2
      <3> QED
        BY <2>1, <3>1 DEF IInv
    <2> QED
      BY <2>1, <2>2
  <1> QED
    BY <1>1, Invariant, PTL

-----------------------------------------------------------------------------
(* The words of a text and the walk over its characters *)

LEMMA StartsType ==
  ASSUME NEW text \in Seq(Kind)
  PROVE  /\ WordStarts(text) \subseteq Nat /\ IsFiniteSet(WordStarts(text))
         /\ \A p \in WordStarts(text) : p \in 0 .. Len(text) - 1 /\ text[p + 1] \notin Separators
  <1>1. Len(text) \in Nat
    OBVIOUS
  <1>2. IsFiniteSet(0 .. Len(text) - 1)
    BY <1>1, FS_Interval
  <1> QED
    BY <1>1, <1>2, FS_Subset DEF WordStarts

LEMMA WordStartIs ==
  ASSUME NEW text \in Seq(Kind), NEW w \in Nat, w < NumWords(text)
  PROVE  /\ WordStart(text, w) \in WordStarts(text)
         /\ Cardinality({q \in WordStarts(text) : q < WordStart(text, w)}) = w
  <1>1. \E p \in WordStarts(text) : Cardinality({q \in WordStarts(text) : q < p}) = w
    <2> DEFINE S == WordStarts(text)
    <2>1. S \in SUBSET Nat /\ IsFiniteSet(S) /\ w < Cardinality(S)
      BY StartsType DEF NumWords
    <2> HIDE DEF S
    <2>2. \E p \in S : Cardinality({q \in S : q < p}) = w
      BY <2>1, RankExists
    <2> QED
      BY <2>2 DEF S
  <1> QED
    BY <1>1 DEF WordStart

LEMMA SkipIs ==
  ASSUME NEW text \in Seq(Kind), NEW p \in 0 .. Len(text), NEW S
  PROVE  /\ Skip(text, p, S) \in p .. Len(text)
         /\ \A i \in p .. Skip(text, p, S) - 1 : text[i + 1] \in S
         /\ Skip(text, p, S) = Len(text) \/ text[Skip(text, p, S) + 1] \notin S
  <1> DEFINE T == {q \in p .. Len(text) : q = Len(text) \/ text[q + 1] \notin S}
  <1>1. Len(text) \in T /\ T \in SUBSET Nat
    OBVIOUS
  <1>2. PICK q \in T : \A r \in T : q <= r
    <2> HIDE DEF T
    <2> QED
      BY <1>1, LeastExists
  <1>3. ASSUME NEW i \in p .. q - 1 PROVE text[i + 1] \in S
    <2>1. i \in p .. Len(text) /\ i \in Nat /\ q \in Nat /\ ~(q <= i)
      BY <1>2
    <2> QED
      BY <1>2, <2>1
  <1>4. \E r \in p .. Len(text) : /\ \A i \in p .. r - 1 : text[i + 1] \in S
                                  /\ r = Len(text) \/ text[r + 1] \notin S
    BY <1>2, <1>3
  <1> QED
    BY <1>4 DEF Skip

\* The walk stops at the first character that is none of S.
LEMMA SkipStops ==
  ASSUME NEW text \in Seq(Kind), NEW p \in 0 .. Len(text), NEW S,
         NEW r \in p .. Len(text), r = Len(text) \/ text[r + 1] \notin S
  PROVE  Skip(text, p, S) <= r
  <1> SUFFICES ASSUME ~(Skip(text, p, S) <= r) PROVE FALSE
    OBVIOUS
  <1>1. Skip(text, p, S) \in p .. Len(text) /\ r \in p .. Skip(text, p, S) - 1
    BY SkipIs
  <1> QED
    BY <1>1, SkipIs

\* From a word, or a place before it, to what follows.
Walk(text, p) == Skip(text, Skip(text, p, Kind \ WhiteSpace), WhiteSpace)

LEMMA WalkType ==
  ASSUME NEW text \in Seq(Kind), NEW p \in 0 .. Len(text)
  PROVE  Walk(text, p) \in 0 .. Len(text)
  <1> DEFINE q == Skip(text, p, Kind \ WhiteSpace)
  <1>1. q \in 0 .. Len(text)
    BY SkipIs
  <1> HIDE DEF q
  <1>2. Skip(text, q, WhiteSpace) \in q .. Len(text)
    BY <1>1, SkipIs
  <1> QED
    BY <1>1, <1>2 DEF Walk, q

\* The places f the walk comes to are the text's beginning and from it on, once for
\* each word.
Offsets(f, text, word) ==
  /\ f \in [0 .. word -> 0 .. Len(text)]
  /\ f[0] = 0
  /\ \A w \in 1 .. word : f[w] = Walk(text, f[w - 1])

LEMMA OffsetWalks ==
  ASSUME NEW text \in Seq(Kind), NEW word \in Nat
  PROVE  \E f : Offsets(f, text, word) /\ CharOffsetOfWord(text, word) = f[word]
  <1> DEFINE Walks(f) == f = [w \in 0 .. word |-> IF w = 0 THEN 0 ELSE Walk(text, f[w - 1])]
             offset == CHOOSE f : Walks(f)
             g == [p \in 0 .. Len(text) |-> Walk(text, p)]
  <1>1. g \in [0 .. Len(text) -> 0 .. Len(text)] /\ 0 \in 0 .. Len(text)
    BY WalkType
  <1>2. PICK f \in [0 .. word -> 0 .. Len(text)] :
          f[0] = 0 /\ \A w \in 1 .. word : f[w] = g[f[w - 1]]
    <2>1. \E f : Iterates(f, 0 .. Len(text), g, 0, word)
      <3> HIDE DEF g
      <3> QED
        BY <1>1, IterateExists
    <2> QED
      BY <2>1 DEF Iterates
  <1>3. ASSUME NEW w \in 1 .. word PROVE f[w] = Walk(text, f[w - 1])
    <2>1. w - 1 \in 0 .. word
      OBVIOUS
    <2>2. f[w - 1] \in 0 .. Len(text)
      BY <1>2, <2>1
    <2> QED
      BY <1>2, <2>2
  <1>4. Walks(f)
    BY <1>2, <1>3
  <1>5. Walks(offset)
    BY <1>4
  <1>6. CharOffsetOfWord(text, word) = offset[word]
    BY DEF CharOffsetOfWord, Walk
  <1> HIDE DEF offset
  <1>7. /\ DOMAIN offset = 0 .. word
        /\ offset = [w \in 0 .. word |-> offset[w]]
        /\ offset[0] = 0
        /\ \A w \in 1 .. word : offset[w] = Walk(text, offset[w - 1])
    BY <1>5
  <1>8. ASSUME NEW n \in 0 .. word PROVE offset[n] \in 0 .. Len(text)
    <2> DEFINE R == {m \in Nat : m <= word => offset[m] \in 0 .. Len(text)}
    <2>1. 0 \in R
      BY <1>7
    <2>2. ASSUME NEW m \in R PROVE m + 1 \in R
      <3> SUFFICES ASSUME m + 1 <= word PROVE offset[m + 1] \in 0 .. Len(text)
        OBVIOUS
      <3>1. offset[m] \in 0 .. Len(text) /\ m + 1 \in 1 .. word /\ m + 1 - 1 = m
        OBVIOUS
      <3>2. offset[m + 1] = Walk(text, offset[m])
        <4>1. \A w \in 1 .. word : offset[w] = Walk(text, offset[w - 1])
          BY <1>7
        <4>2. offset[m + 1] = Walk(text, offset[m + 1 - 1])
          BY <3>1, <4>1
        <4> QED
          BY <3>1, <4>2
      <3> QED
        BY <3>1, <3>2, WalkType
    <2>3. R \in SUBSET Nat
      OBVIOUS
    <2>4. R = Nat
      <3> HIDE DEF R
      <3> QED
        BY <2>1, <2>2, <2>3, SetInduction
    <2> QED
      BY <2>4
  <1>9. offset \in [0 .. word -> 0 .. Len(text)]
    BY <1>7, <1>8
  <1>10. Offsets(offset, text, word)
    BY <1>7, <1>9 DEF Offsets
  <1> QED
    BY <1>6, <1>10

LEMMA OffsetType ==
  ASSUME NEW text \in Seq(Kind), NEW w \in Nat
  PROVE  CharOffsetOfWord(text, w) \in 0 .. Len(text)
  <1>1. PICK f : Offsets(f, text, w) /\ CharOffsetOfWord(text, w) = f[w]
    BY OffsetWalks
  <1> QED
    BY <1>1 DEF Offsets

-----------------------------------------------------------------------------
(* Counting lines and letters *)

LEMMA LinesMonotone ==
  ASSUME NEW text \in Seq(Kind), NEW a \in 0 .. Len(text), NEW b \in a .. Len(text)
  PROVE  /\ CountLines(text, a) \in Nat /\ CountLines(text, b) \in Nat
         /\ CountLines(text, a) <= CountLines(text, b)
         /\ (\A p \in a .. b - 1 : text[p + 1] # "newline") =>
              CountLines(text, a) = CountLines(text, b)
  <1> DEFINE A == {p \in 0 .. a - 1 : text[p + 1] = "newline"}
             B == {p \in 0 .. b - 1 : text[p + 1] = "newline"}
  <1>1. IsFiniteSet(0 .. b - 1)
    BY FS_Interval
  <1>2. IsFiniteSet(B)
    BY <1>1, FS_Subset
  <1>3. A \subseteq B
    OBVIOUS
  <1>4. (\A p \in a .. b - 1 : text[p + 1] # "newline") => A = B
    OBVIOUS
  <1>5. CountLines(text, a) = Cardinality(A) /\ CountLines(text, b) = Cardinality(B)
    BY DEF CountLines
  <1> HIDE DEF A, B
  <1>6. IsFiniteSet(A) /\ Cardinality(A) <= Cardinality(B)
    BY <1>2, <1>3, FS_Subset
  <1>7. Cardinality(A) \in Nat /\ Cardinality(B) \in Nat
    BY <1>2, <1>6, FS_CardinalityType
  <1> QED
    BY <1>4, <1>5, <1>6, <1>7

\* Where the words first .. end - 1 end, a separator behind them included.
RangeEnd(text, end) == IF end = NumWords(text) THEN Len(text) ELSE WordStart(text, end)

LEMMA JoinedType ==
  ASSUME NEW text \in Seq(Kind), NEW first \in Nat, NEW end \in Nat,
         first < end, end <= NumWords(text)
  PROVE  JoinedLength(text, first, end) \in Nat
  <1>1. NumWords(text) \in Nat
    BY NumWordsType
  <1>2. WordStart(text, first) \in Nat /\ RangeEnd(text, end) \in Nat
    <2>1. ASSUME NEW w \in Nat, w < NumWords(text) PROVE WordStart(text, w) \in Nat
      BY <2>1, WordStartIs, StartsType
    <2>2. Len(text) \in Nat
      OBVIOUS
    <2> QED
      BY <1>1, <2>1, <2>2 DEF RangeEnd
  <1>3. IsFiniteSet(WordStart(text, first) .. RangeEnd(text, end) - 1)
    BY <1>2, FS_Interval
  <1>4. IsFiniteSet(Letters(text, first, end))
    BY <1>3, FS_Subset DEF Letters, RangeEnd
  <1>5. Cardinality(Letters(text, first, end)) \in Nat
    BY <1>4, FS_CardinalityType
  <1> QED
    BY <1>5 DEF JoinedLength

LEMMA WindowType ==
  ASSUME content \in Seq(Kind), chunkSize \in ChunkSizes, NEW w \in Nat, w < N
  PROVE  /\ Window(w).first = w
         /\ Window(w).end \in Nat /\ w < Window(w).end /\ Window(w).end <= N
         /\ Window(w).startLine = CountLines(content, CharOffsetOfWord(content, w)) + 1
         /\ Window(w).startLine \in Nat /\ Window(w).endLine \in Nat
         /\ Window(w) \in [first : Nat, end : Nat, startLine : Nat, endLine : Nat]
         /\ 1 <= Window(w).startLine /\ Window(w).startLine <= Window(w).endLine
         /\ Window(w).startLine <= NumLines
  <1> DEFINE end == IF w + WindowWords < N THEN w + WindowWords ELSE N
             offset == CharOffsetOfWord(content, w)
             endOffset == offset + JoinedLength(content, w, end)
             last == IF endOffset < Len(content) THEN endOffset ELSE Len(content)
  <1>1. chunkSize \in Nat /\ chunkSize > 1 /\ N \in Nat
    BY NumWordsType DEF N
  <1>2. WindowWords \in Nat /\ WindowWords >= 1
    BY <1>1, WordsType DEF WindowWords
  <1>3. end \in Nat /\ w < end /\ end <= N
    BY <1>1, <1>2
  <1>4. Window(w) = [first |-> w, end |-> end,
                     startLine |-> CountLines(content, offset) + 1,
                     endLine |-> CountLines(content, last) + 1]
    BY DEF Window, N
  <1>5. offset \in 0 .. Len(content)
    BY OffsetType
  <1>6. JoinedLength(content, w, end) \in Nat
    <2> HIDE DEF end
    <2> QED
      BY <1>3, JoinedType DEF N
  <1> HIDE DEF end, offset
  <1>7. last \in offset .. Len(content)
    BY <1>5, <1>6
  <1> HIDE DEF last
  <1>8. /\ CountLines(content, offset) \in Nat /\ CountLines(content, last) \in Nat
        /\ CountLines(content, offset) <= CountLines(content, last)
    BY <1>5, <1>7, LinesMonotone
  <1>9. CountLines(content, offset) <= CountLines(content, Len(content))
        /\ CountLines(content, Len(content)) \in Nat
    BY <1>5, LinesMonotone
  <1> QED
    BY <1>3, <1>4, <1>8, <1>9 DEF NumLines, offset

\* Every chunk is the window of its first word.
LEMMA ChunkIsWindow ==
  ASSUME IInv, NEW i \in DOMAIN chunks
  PROVE  /\ chunks[i] = Window(chunks[i].first)
         /\ chunks[i].first \in Nat /\ chunks[i].first < N
  <1>1. chunks[i] \in Windows
    BY DEF IInv
  <1>2. PICK w \in Nat : chunks[i] = Window(w)
    BY <1>1 DEF Windows
  <1>3. Window(w).first = w
    BY DEF Window
  <1> QED
    BY <1>2, <1>3 DEF IInv

\* The chunker's state is what it is taken for.
THEOREM TypeCorrect == Spec => []TypeOK
  <1> DEFINE C == [first : Nat, end : Nat, startLine : Nat, endLine : Nat]
  <1>1. IInv => chunks \in Seq(C)
    <2> SUFFICES ASSUME IInv PROVE chunks \in Seq(C)
      OBVIOUS
    <2>1. ASSUME NEW i \in DOMAIN chunks PROVE chunks[i] \in C
      BY ChunkIsWindow, WindowType DEF IInv
    <2>2. chunks \in Seq(Windows)
      BY DEF IInv
    <2> HIDE DEF C
    <2> QED
      BY <2>1, <2>2
  <1>2. Init => content \in Text
    BY DEF Init
  <1>3. content \in Text /\ [NextWindow]_vars => (content \in Text)'
    BY DEF NextWindow, vars
  <1>4. IInv /\ content \in Text => TypeOK
    BY <1>1 DEF IInv, TypeOK
  <1> QED
    BY <1>2, <1>3, <1>4, Invariant, PTL DEF Spec

\* A query never cuts a range out of the file's lines that is none.
THEOREM ExcerptAlwaysRange == Spec => []ExcerptIsRange
  <1>1. IInv => ExcerptIsRange
    BY ChunkIsWindow, WindowType DEF IInv, ExcerptIsRange
  <1> QED
    BY <1>1, Invariant, PTL

-----------------------------------------------------------------------------
(* The order of the words *)

\* How many words start before p.
Rank(text, p) == Cardinality({q \in WordStarts(text) : q < p})

LEMMA RankMonotone ==
  ASSUME NEW text \in Seq(Kind), NEW a \in Nat, NEW b \in Nat, a <= b
  PROVE  /\ Rank(text, a) \in Nat /\ Rank(text, b) \in Nat
         /\ Rank(text, a) <= Rank(text, b) /\ Rank(text, b) <= NumWords(text)
         /\ a \in WordStarts(text) /\ a < b => Rank(text, a) + 1 <= Rank(text, b)
  <1> DEFINE W == WordStarts(text)
             A == {q \in W : q < a}
             B == {q \in W : q < b}
  <1>1. IsFiniteSet(W) /\ W \subseteq Nat
    BY StartsType
  <1>2. A \subseteq B /\ B \subseteq W
    BY <1>1
  <1>3. a \in W /\ a < b => A \cup {a} \subseteq B /\ a \notin A
    BY <1>1
  <1>4. Rank(text, a) = Cardinality(A) /\ Rank(text, b) = Cardinality(B)
        /\ NumWords(text) = Cardinality(W)
    BY DEF Rank, NumWords
  <1> HIDE DEF A, B, W
  <1>5. /\ IsFiniteSet(A) /\ IsFiniteSet(B)
        /\ Cardinality(A) <= Cardinality(B) /\ Cardinality(B) <= Cardinality(W)
    BY <1>1, <1>2, FS_Subset
  <1>6. Cardinality(A) \in Nat /\ Cardinality(B) \in Nat
    BY <1>5, FS_CardinalityType
  <1>7. ASSUME a \in W, a < b PROVE Cardinality(A) + 1 <= Cardinality(B)
    <2>1. Cardinality(A \cup {a}) = Cardinality(A) + 1
      BY <1>3, <1>5, <1>7, FS_AddElement
    <2>2. Cardinality(A \cup {a}) <= Cardinality(B)
      BY <1>3, <1>5, <1>7, FS_Subset
    <2> QED
      BY <2>1, <2>2
  <1> QED
    BY <1>4, <1>5, <1>6, <1>7 DEF W

LEMMA WordPlace ==
  ASSUME NEW text \in Seq(Kind), NEW w \in Nat, w < NumWords(text)
  PROVE  /\ WordStart(text, w) \in Nat /\ WordStart(text, w) < Len(text)
         /\ WordStart(text, w) \in WordStarts(text)
         /\ Rank(text, WordStart(text, w)) = w
         /\ text[WordStart(text, w) + 1] \notin Separators
  <1>1. Len(text) \in Nat
    OBVIOUS
  <1>2. WordStart(text, w) \in WordStarts(text) /\ Rank(text, WordStart(text, w)) = w
    BY WordStartIs DEF Rank
  <1> QED
    BY <1>1, <1>2, StartsType

\* A word begins where as many words begin before.
LEMMA WordOfRank ==
  ASSUME NEW text \in Seq(Kind), NEW p \in WordStarts(text), NEW w \in Nat,
         Rank(text, p) = w
  PROVE  w < NumWords(text) /\ WordStart(text, w) = p
  <1>1. p \in Nat /\ p < Len(text) /\ Len(text) \in Nat
    BY StartsType
  <1>2. w < NumWords(text)
    BY <1>1, RankMonotone, NumWordsType
  <1>3. WordStart(text, w) \in Nat /\ WordStart(text, w) \in WordStarts(text)
        /\ Rank(text, WordStart(text, w)) = w
    BY <1>2, WordPlace
  <1>4. ~(p < WordStart(text, w))
    BY <1>1, <1>3, RankMonotone
  <1>5. ~(WordStart(text, w) < p)
    BY <1>1, <1>3, RankMonotone
  <1> QED
    BY <1>1, <1>2, <1>3, <1>4, <1>5

\* The next word begins behind the word, and none between them.
LEMMA NextWord ==
  ASSUME NEW text \in Seq(Kind), NEW w \in Nat, w + 1 < NumWords(text)
  PROVE  /\ WordStart(text, w) < WordStart(text, w + 1)
         /\ text[WordStart(text, w + 1)] \in Separators
         /\ \A p \in WordStarts(text) :
              ~(WordStart(text, w) < p /\ p < WordStart(text, w + 1))
  <1> DEFINE a == WordStart(text, w)
             b == WordStart(text, w + 1)
  <1>1. NumWords(text) \in Nat
    BY NumWordsType
  <1>2. a \in Nat /\ a \in WordStarts(text) /\ Rank(text, a) = w
    BY <1>1, WordPlace
  <1>3. b \in Nat /\ b \in WordStarts(text) /\ Rank(text, b) = w + 1
    BY WordPlace
  <1> HIDE DEF a, b
  <1>4. a < b
    <2>1. ~(b <= a)
      BY <1>2, <1>3, RankMonotone
    <2> QED
      BY <1>2, <1>3, <2>1
  <1>5. text[b] \in Separators
    BY <1>2, <1>3, <1>4 DEF WordStarts
  <1>6. ASSUME NEW p \in WordStarts(text), a < p, p < b PROVE FALSE
    <2>1. p \in Nat
      BY StartsType
    <2>2. w + 1 <= Rank(text, p) /\ Rank(text, p) + 1 <= w + 1 /\ Rank(text, p) \in Nat
      BY <1>2, <1>3, <1>6, <2>1, RankMonotone
    <2> QED
      BY <2>2
  <1> QED
    BY <1>4, <1>5, <1>6 DEF a, b

-----------------------------------------------------------------------------
(* Where the walk is when it has come to a word *)

\* Unless there are words that are white space, every word has a character that is
\* none, with the word unbroken up to it.
LEMMA WordHasLetter ==
  ASSUME content \in Seq(Kind), ~BlankWord, NEW p \in WordStarts(content)
  PROVE  \E q \in p .. Len(content) - 1 :
           /\ content[q + 1] \notin WhiteSpace
           /\ \A i \in p .. q : content[i + 1] \notin Separators
  <1> DEFINE e == Skip(content, p, Kind \ Separators)
  <1>1. p \in Nat /\ p < Len(content) /\ Len(content) \in Nat
    BY StartsType
  <1>2. p \in 0 .. Len(content)
    BY <1>1
  <1>3. e \in p .. Len(content) /\ \A i \in p .. e - 1 : content[i + 1] \in Kind \ Separators
    BY <1>2, SkipIs
  <1>4. PICK q \in p .. e - 1 : content[q + 1] # "feed"
    BY DEF BlankWord
  <1> HIDE DEF e
  <1>5. q \in p .. Len(content) - 1
    BY <1>1, <1>3, <1>4
  <1>6. content[q + 1] \notin WhiteSpace
    BY <1>3, <1>4 DEF WhiteSpace, Separators
  <1>7. \A i \in p .. q : content[i + 1] \notin Separators
    BY <1>1, <1>3, <1>4
  <1> QED
    BY <1>5, <1>6, <1>7

\* The walk comes to a word no later than to the first such character of it.
LEMMA WalkInTime ==
  ASSUME content \in Seq(Kind), ~BlankWord, NEW w \in Nat, w < N
  PROVE  \E q \in WordStart(content, w) .. Len(content) - 1 :
           /\ CharOffsetOfWord(content, w) <= q
           /\ \A i \in WordStart(content, w) .. q : content[i + 1] \notin Separators
  <1> DEFINE In(p, q) == /\ q \in p .. Len(content) - 1
                         /\ content[q + 1] \notin WhiteSpace
                         /\ \A i \in p .. q : content[i + 1] \notin Separators
             L == [p \in WordStarts(content) |-> CHOOSE q : In(p, q)]
             S(n) == WordStart(content, n)
  <1>n. N \in Nat /\ Len(content) \in Nat
    BY NumWordsType DEF N
  <1>1. PICK f : Offsets(f, content, w) /\ CharOffsetOfWord(content, w) = f[w]
    BY OffsetWalks
  <1>2. ASSUME NEW n \in Nat, n < N
        PROVE  /\ S(n) \in WordStarts(content) /\ S(n) \in Nat /\ S(n) < Len(content)
               /\ In(S(n), L[S(n)])
    <2>1. S(n) \in WordStarts(content) /\ S(n) \in Nat /\ S(n) < Len(content)
      BY <1>2, WordPlace DEF N
    <2>2. \E q : In(S(n), q)
      BY <2>1, WordHasLetter
    <2>3. In(S(n), CHOOSE q : In(S(n), q))
      BY <2>2
    <2> QED
      BY <2>1, <2>3
  <1> HIDE DEF L, S
  <1> DEFINE R == {n \in Nat : n <= w => f[n] <= L[S(n)]}
  <1>3. 0 \in R
    <2>1. f[0] = 0
      BY <1>1 DEF Offsets
    <2>2. 0 < N
      BY <1>n
    <2> QED
      BY <1>2, <2>1, <2>2
  <1>4. ASSUME NEW n \in R PROVE n + 1 \in R
    <2> SUFFICES ASSUME n + 1 <= w PROVE f[n + 1] <= L[S(n + 1)]
      OBVIOUS
    <2> DEFINE s == S(n + 1) - 1
               x == Skip(content, f[n], Kind \ WhiteSpace)
    <2>1. n \in Nat /\ n < N /\ n + 1 < N /\ f[n] <= L[S(n)] /\ f[n] \in 0 .. Len(content)
      BY <1>n, <1>1 DEF Offsets
    <2>2. f[n + 1] = Skip(content, x, WhiteSpace)
      <3>1. n + 1 \in 1 .. w /\ n + 1 - 1 = n
        BY <2>1
      <3>2. f[n + 1] = Walk(content, f[n + 1 - 1])
        BY <1>1, <3>1 DEF Offsets
      <3> QED
        BY <3>1, <3>2 DEF Walk
    <2>3. /\ S(n) < S(n + 1) /\ content[S(n + 1)] \in Separators
          /\ S(n) \in Nat /\ S(n + 1) \in Nat /\ S(n + 1) < Len(content)
      BY <1>2, <2>1, NextWord DEF N, S
    <2>4. s \in Nat /\ s >= S(n) /\ s < Len(content) /\ content[s + 1] \in Separators
      BY <2>3
    <2>5. L[S(n)] \in Nat /\ L[S(n)] < s
      <3>1. In(S(n), L[S(n)])
        BY <1>2, <2>1
      <3>2. s \notin S(n) .. L[S(n)]
        BY <2>4, <3>1
      <3> QED
        BY <2>3, <2>4, <3>1, <3>2
    <2> HIDE DEF s
    <2>6. s \in f[n] .. Len(content) /\ content[s + 1] \notin Kind \ WhiteSpace
      BY <1>n, <2>1, <2>4, <2>5 DEF Separators, WhiteSpace
    <2>7. x <= s /\ x \in 0 .. Len(content)
      BY <2>1, <2>6, SkipStops, SkipIs
    <2> HIDE DEF x
    <2>8. In(S(n + 1), L[S(n + 1)])
      BY <1>2, <2>1
    <2>9. /\ L[S(n + 1)] \in x .. Len(content)
          /\ content[L[S(n + 1)] + 1] \notin WhiteSpace
      BY <1>n, <2>3, <2>7, <2>8 DEF s
    <2> QED
      BY <2>2, <2>7, <2>9, SkipStops
  <1>5. R \in SUBSET Nat
    OBVIOUS
  <1>6. w \in R
    <2> HIDE DEF R
    <2> QED
      BY <1>3, <1>4, <1>5, SetInduction
  <1>7. f[w] <= L[S(w)] /\ In(S(w), L[S(w)])
    BY <1>2, <1>6
  <1> QED
    BY <1>1, <1>7 DEF S

\* An excerpt never starts after the chunk's first word, unless there are words that
\* are white space.
THEOREM StartsAlwaysInTime == Spec => []StartsInTime
  <1>1. IInv => StartsInTime
    <2> SUFFICES ASSUME IInv, ~BlankWord, NEW i \in DOMAIN chunks
                 PROVE  chunks[i].startLine <= LineOf(chunks[i].first)
      BY DEF StartsInTime
    <2> DEFINE w == chunks[i].first
               o == CharOffsetOfWord(content, w)
               p == WordStart(content, w)
    <2>1. content \in Seq(Kind) /\ Len(content) \in Nat /\ chunkSize \in ChunkSizes
      BY DEF IInv
    <2>2. w \in Nat /\ w < N /\ chunks[i].startLine = CountLines(content, o) + 1
      BY <2>1, ChunkIsWindow, WindowType
    <2> HIDE DEF w
    <2>3. PICK q \in p .. Len(content) - 1 :
            o <= q /\ \A j \in p .. q : content[j + 1] \notin Separators
      BY <2>1, <2>2, WalkInTime
    <2>4. p \in Nat /\ p < Len(content)
      BY <2>1, <2>2, WordPlace DEF N
    <2>5. o \in 0 .. Len(content)
      BY <2>1, <2>2, OffsetType
    <2>6. LineOf(w) = CountLines(content, p) + 1
      BY DEF LineOf
    <2> HIDE DEF o, p
    <2>7. \A j \in p .. q - 1 : content[j + 1] # "newline"
      BY <2>1, <2>3, <2>4 DEF Separators
    <2>8. CountLines(content, p) = CountLines(content, q) /\ CountLines(content, q) \in Nat
      <3>1. p \in 0 .. Len(content) /\ q \in p .. Len(content)
        BY <2>1, <2>3, <2>4
      <3> QED
        BY <2>1, <2>7, <3>1, LinesMonotone
    <2>9. CountLines(content, o) <= CountLines(content, q) /\ CountLines(content, o) \in Nat
      BY <2>1, <2>3, <2>4, <2>5, LinesMonotone
    <2> QED
      BY <2>2, <2>6, <2>8, <2>9 DEF w
  <1> QED
    BY <1>1, Invariant, PTL

-----------------------------------------------------------------------------
(* Tidy texts *)

\* Behind a separator of a tidy text a word begins, and it stands behind a word.
LEMMA TidySeparator ==
  ASSUME content \in Seq(Kind), Tidy, NEW p \in 0 .. Len(content) - 1,
         content[p + 1] \in Separators
  PROVE  /\ p > 0 /\ content[p] \notin Separators
         /\ p + 1 < Len(content) =>
              content[p + 2] \notin Separators /\ p + 1 \in WordStarts(content)
  <1>1. Len(content) \in Nat /\ DOMAIN content = 1 .. Len(content)
    OBVIOUS
  <1>2. \A i \in DOMAIN content :
          content[i] \in Separators => i > 1 /\ content[i - 1] \notin Separators
    BY DEF Tidy
  <1>3. p + 1 \in DOMAIN content /\ p + 1 - 1 = p
    BY <1>1
  <1>4. p > 0 /\ content[p] \notin Separators
    <2>1. PICK i \in DOMAIN content : i = p + 1
      BY <1>3
    <2>2. i > 1 /\ content[i - 1] \notin Separators
      BY <1>2, <2>1
    <2>3. i - 1 = p
      BY <2>1
    <2> QED
      BY <2>1, <2>2, <2>3
  <1>5. ASSUME p + 1 < Len(content)
        PROVE  content[p + 2] \notin Separators /\ p + 1 \in WordStarts(content)
    <2>1. p + 2 \in DOMAIN content /\ p + 2 - 1 = p + 1 /\ p + 1 \in 0 .. Len(content) - 1
          /\ p + 1 + 1 = p + 2
      BY <1>1, <1>5
    <2>2. content[p + 2] \notin Separators
      <3>1. content[p + 2] \in Separators => content[p + 2 - 1] \notin Separators
        BY <1>2, <2>1
      <3> QED
        BY <2>1, <3>1
    <2> QED
      BY <2>1, <2>2 DEF WordStarts
  <1> QED
    BY <1>4, <1>5

\* The walk over a tidy text comes exactly to the words.
LEMMA TidyWalk ==
  ASSUME content \in Seq(Kind), Tidy, NEW w \in Nat, w < N
  PROVE  CharOffsetOfWord(content, w) = WordStart(content, w)
  <1> DEFINE S(n) == WordStart(content, n)
  <1>n. N \in Nat /\ Len(content) \in Nat
    BY NumWordsType DEF N
  <1>1. PICK f : Offsets(f, content, w) /\ CharOffsetOfWord(content, w) = f[w]
    BY OffsetWalks
  <1>2. ASSUME NEW n \in Nat, n < N
        PROVE  /\ S(n) \in WordStarts(content) /\ S(n) \in Nat /\ S(n) < Len(content)
               /\ content[S(n) + 1] \notin Separators /\ Rank(content, S(n)) = n
    BY <1>2, WordPlace DEF N
  <1>s. ASSUME NEW n \in Nat, n + 1 < N
        PROVE  S(n) < S(n + 1) /\ content[S(n + 1)] \in Separators
               /\ \A p \in WordStarts(content) : ~(S(n) < p /\ p < S(n + 1))
    BY <1>s, NextWord DEF N
  <1> DEFINE R == {n \in Nat : n <= w => f[n] = S(n)}
  <1>3. 0 \in R
    <2>1. f[0] = 0
      BY <1>1 DEF Offsets
    <2>2. 0 < N
      BY <1>n
    <2>3. S(0) \in Nat /\ S(0) < Len(content) /\ Rank(content, S(0)) = 0
      BY <1>2, <2>2
    <2> HIDE DEF S
    <2>4. content[1] \notin Separators
      <3>1. 0 \in 0 .. Len(content) - 1
        BY <1>n, <2>3
      <3>2. \A p \in 0 .. Len(content) - 1 : content[p + 1] \in Separators => p > 0
        BY TidySeparator
      <3>3. 0 + 1 = 1 /\ ~(0 > 0)
        OBVIOUS
      <3>4. content[0 + 1] \in Separators => 0 > 0
        BY <3>1, <3>2
      <3> QED
        BY <3>3, <3>4
    <2>5. 0 \in WordStarts(content)
      BY <1>n, <2>3, <2>4 DEF WordStarts
    <2>6. ~(0 < S(0))
      BY <2>3, <2>5, RankMonotone
    <2> QED
      BY <2>1, <2>3, <2>6
  <1> HIDE DEF S
  <1>4. ASSUME NEW n \in R PROVE n + 1 \in R
    <2> SUFFICES ASSUME n + 1 <= w PROVE f[n + 1] = S(n + 1)
      OBVIOUS
    <2> DEFINE x == Skip(content, S(n), Kind \ WhiteSpace)
               y == Skip(content, x, WhiteSpace)
    <2>1. n \in Nat /\ n < N /\ n + 1 < N /\ f[n] = S(n)
      BY <1>n
    <2>2. f[n + 1] = y
      <3>1. n + 1 \in 1 .. w /\ n + 1 - 1 = n
        BY <2>1
      <3>2. f[n + 1] = Walk(content, f[n + 1 - 1])
        BY <1>1, <3>1 DEF Offsets
      <3> QED
        BY <2>1, <3>1, <3>2 DEF Walk
    <2>3. /\ S(n) \in Nat /\ S(n + 1) \in Nat /\ S(n + 1) < Len(content)
          /\ S(n) < S(n + 1) /\ content[S(n + 1)] \in Separators
      BY <1>2, <1>s, <2>1
    <2>4. S(n) \in 0 .. Len(content) /\ S(n + 1) - 1 \in S(n) .. Len(content)
          /\ content[S(n + 1) - 1 + 1] \notin Kind \ WhiteSpace
      BY <1>n, <2>3 DEF WhiteSpace, Separators
    <2>5. x \in S(n) .. S(n + 1) - 1
      <3>1. x <= S(n + 1) - 1
        BY <2>4, SkipStops
      <3>2. x \in S(n) .. Len(content)
        BY <2>4, SkipIs
      <3> QED
        BY <2>3, <3>1, <3>2
    <2>6. content[x + 1] \in Separators
      <3>1. x # Len(content) /\ x + 1 \in DOMAIN content
        BY <1>n, <2>3, <2>5
      <3>2. content[x + 1] \notin Kind \ WhiteSpace
        BY <2>4, <3>1, SkipIs
      <3>3. content[x + 1] \in Kind /\ content[x + 1] # "feed"
        BY <3>1 DEF Tidy
      <3> QED
        BY <3>2, <3>3 DEF WhiteSpace, Separators
    <2> HIDE DEF x
    <2>7. content[x + 2] \notin Separators /\ x + 1 \in WordStarts(content)
      BY <1>n, <2>3, <2>5, <2>6, TidySeparator
    <2>8. x + 1 = S(n + 1)
      BY <1>s, <2>1, <2>3, <2>5, <2>7
    <2>9. y = x + 1
      <3>1. x \in 0 .. Len(content) /\ x + 1 \in x .. Len(content) /\ x # Len(content)
        BY <1>n, <2>3, <2>5
      <3>2. content[x + 1 + 1] \notin WhiteSpace
        <4>1. x + 2 \in DOMAIN content /\ x + 1 + 1 = x + 2
          BY <1>n, <2>3, <2>5, <2>8
        <4>2. content[x + 2] # "feed"
          BY <4>1 DEF Tidy
        <4> QED
          BY <2>7, <4>1, <4>2 DEF WhiteSpace, Separators
      <3>3. y <= x + 1
        BY <3>1, <3>2, SkipStops
      <3>4. y \in x .. Len(content) /\ (y = Len(content) \/ content[y + 1] \notin WhiteSpace)
        BY <3>1, SkipIs
      <3>5. y # x
        BY <2>6, <3>1, <3>4 DEF WhiteSpace, Separators
      <3> QED
        BY <1>n, <3>1, <3>3, <3>4, <3>5
    <2> QED
      BY <2>2, <2>8, <2>9
  <1>5. R \in SUBSET Nat
    OBVIOUS
  <1>6. w \in R
    <2> HIDE DEF R
    <2> QED
      BY <1>3, <1>4, <1>5, SetInduction
  <1> QED
    BY <1>1, <1>6 DEF S

\* The characters before p that are of a word.
LettersBefore(p) == {q \in 0 .. p - 1 : content[q + 1] \notin Separators}

Behind(p) == IF p > 0 /\ content[p] \notin Separators THEN 1 ELSE 0

\* In a tidy text every character is of a word or stands before the start of one: up
\* to a place there are as many characters as letters and words, but for the word
\* the place is in or behind.
LEMMA TidyCount ==
  ASSUME content \in Seq(Kind), Tidy, NEW p \in 0 .. Len(content)
  PROVE  /\ IsFiniteSet(LettersBefore(p)) /\ Cardinality(LettersBefore(p)) \in Nat
         /\ Cardinality(LettersBefore(p)) + Rank(content, p) = p + Behind(p)
  <1> DEFINE C(n) == Cardinality(LettersBefore(n))
             R == {n \in Nat : n <= Len(content) => C(n) + Rank(content, n) = n + Behind(n)}
  <1>n. Len(content) \in Nat
    OBVIOUS
  <1>1. ASSUME NEW n \in Nat PROVE IsFiniteSet(LettersBefore(n)) /\ C(n) \in Nat
    <2>1. IsFiniteSet(0 .. n - 1)
      BY FS_Interval
    <2>2. IsFiniteSet(LettersBefore(n))
      BY <2>1, FS_Subset DEF LettersBefore
    <2> QED
      BY <2>2, FS_CardinalityType
  <1>2. 0 \in R
    <2>1. LettersBefore(0) = {}
      BY DEF LettersBefore
    <2>2. {q \in WordStarts(content) : q < 0} = {}
      BY StartsType
    <2>3. C(0) = 0 /\ Rank(content, 0) = 0
      BY <2>1, <2>2, FS_EmptySet DEF Rank
    <2> QED
      BY <2>3 DEF Behind
  <1>3. ASSUME NEW n \in R PROVE n + 1 \in R
    <2> SUFFICES ASSUME n + 1 <= Len(content)
                 PROVE  C(n + 1) + Rank(content, n + 1) = n + 1 + Behind(n + 1)
      OBVIOUS
    <2> DEFINE s == content[n + 1] \in Separators
               B == {q \in WordStarts(content) : q < n}
    <2>1. /\ n \in Nat /\ n \in 0 .. Len(content) - 1
          /\ C(n) + Rank(content, n) = n + Behind(n) /\ C(n) \in Nat
          /\ Rank(content, n) \in Nat
      <3>1. n \in Nat /\ n \in 0 .. Len(content) - 1
        BY <1>n
      <3>2. Rank(content, n) \in Nat
        BY <3>1, RankMonotone
      <3> QED
        BY <1>1, <3>1, <3>2
    <2>2. C(n + 1) = IF s THEN C(n) ELSE C(n) + 1
      <3>1. LettersBefore(n + 1) = LettersBefore(n) \cup (IF s THEN {} ELSE {n})
        BY <2>1 DEF LettersBefore
      <3>2. n \notin LettersBefore(n)
        BY <2>1 DEF LettersBefore
      <3> QED
        BY <1>1, <2>1, <3>1, <3>2, FS_AddElement
    <2>3. n \in WordStarts(content) <=> (~s /\ Behind(n) = 0)
      BY <2>1 DEF WordStarts, Behind
    <2>4. Rank(content, n + 1) = IF n \in WordStarts(content) THEN Rank(content, n) + 1
                                 ELSE Rank(content, n)
      <3>1. {q \in WordStarts(content) : q < n + 1}
              = B \cup (IF n \in WordStarts(content) THEN {n} ELSE {})
        BY <2>1, StartsType
      <3>2. n \notin B /\ IsFiniteSet(B)
        BY <2>1, StartsType, FS_Subset
      <3>3. Rank(content, n) = Cardinality(B)
            /\ Rank(content, n + 1) = Cardinality({q \in WordStarts(content) : q < n + 1})
        BY DEF Rank
      <3> HIDE DEF B
      <3>4. Cardinality(B \cup {n}) = Cardinality(B) + 1 /\ B \cup {} = B
        BY <3>2, FS_AddElement
      <3> QED
        BY <3>1, <3>3, <3>4
    <2>5. Behind(n + 1) = IF s THEN 0 ELSE 1
      BY <2>1 DEF Behind
    <2>6. s => Behind(n) = 1
      BY <2>1, TidySeparator DEF Behind
    <2>7. Behind(n) \in {0, 1}
      BY DEF Behind
    <2> HIDE DEF s, C
    <2> QED
      BY <2>1, <2>2, <2>3, <2>4, <2>5, <2>6, <2>7
  <1>4. R \in SUBSET Nat
    OBVIOUS
  <1>5. p \in R
    <2>1. p \in Nat
      BY <1>n
    <2> HIDE DEF R
    <2> QED
      BY <1>2, <1>3, <1>4, <2>1, SetInduction
  <1> QED
    BY <1>n, <1>1, <1>5

\* The characters of a tidy text are the words joined, up to a separator at its end:
\* from a word, as many as joining the words gives lead to the end of the last one.
LEMMA TidyJoin ==
  ASSUME content \in Seq(Kind), Tidy, NEW first \in Nat, NEW end \in Nat,
         first < end, end <= N
  PROVE  LET to == RangeEnd(content, end)
         IN  /\ to \in Nat /\ to <= Len(content) /\ WordStart(content, end - 1) < to
             /\ JoinedLength(content, first, end)
                  = IF content[to] \in Separators THEN to - 1 - WordStart(content, first)
                    ELSE to - WordStart(content, first)
  <1> DEFINE from == WordStart(content, first)
             to == RangeEnd(content, end)
  <1>n. N \in Nat /\ Len(content) \in Nat
    BY NumWordsType DEF N
  <1>1. /\ from \in Nat /\ from < Len(content)
        /\ from \in WordStarts(content) /\ Rank(content, from) = first
    BY <1>n, WordPlace DEF N
  <1>2. /\ WordStart(content, end - 1) \in Nat /\ WordStart(content, end - 1) < Len(content)
        /\ Rank(content, WordStart(content, end - 1)) = end - 1
    BY <1>n, WordPlace DEF N
  <1>3. to \in Nat /\ to <= Len(content) /\ Rank(content, to) = end
    <2>1. CASE end = N
      <3>1. to = Len(content)
        BY <2>1 DEF RangeEnd, N
      <3>2. {q \in WordStarts(content) : q < Len(content)} = WordStarts(content)
        BY <1>n, StartsType
      <3>3. Rank(content, Len(content)) = N
        BY <3>2 DEF Rank, N, NumWords
      <3> HIDE DEF to
      <3> QED
        BY <1>n, <2>1, <3>1, <3>3
    <2>2. CASE end # N
      BY <1>n, <2>2, WordPlace DEF RangeEnd, N
    <2> QED
      BY <2>1, <2>2
  <1>4. WordStart(content, end - 1) < to /\ from < to
    <2>1. ASSUME NEW a \in Nat, Rank(content, a) < end PROVE a < to
      <3>1. ~(to <= a)
        <4>1. to <= a => Rank(content, to) <= Rank(content, a)
          BY <1>3, RankMonotone
        <4>2. Rank(content, a) \in Nat
          BY RankMonotone
        <4> QED
          BY <1>3, <2>1, <4>1, <4>2
      <3> QED
        BY <1>3, <3>1
    <2> QED
      BY <1>1, <1>2, <2>1
  <1> HIDE DEF from, to
  <1>5. /\ IsFiniteSet(LettersBefore(from)) /\ Cardinality(LettersBefore(from)) \in Nat
        /\ Cardinality(LettersBefore(from)) + first = from + Behind(from)
    <2>1. from \in 0 .. Len(content)
      BY <1>n, <1>1
    <2> QED
      BY <1>1, <2>1, TidyCount
  <1>6. Behind(from) = 0
    BY <1>1 DEF Behind, WordStarts
  <1>7. /\ IsFiniteSet(LettersBefore(to)) /\ Cardinality(LettersBefore(to)) \in Nat
        /\ Cardinality(LettersBefore(to)) + end = to + Behind(to)
    <2>1. to \in 0 .. Len(content)
      BY <1>n, <1>3
    <2> QED
      BY <1>3, <2>1, TidyCount
  <1>8. Behind(to) = IF content[to] \in Separators THEN 0 ELSE 1
    BY <1>1, <1>3, <1>4 DEF Behind
  <1>9. Cardinality(Letters(content, first, end))
          = Cardinality(LettersBefore(to)) - Cardinality(LettersBefore(from))
    <2> DEFINE M == Letters(content, first, end)
               A == LettersBefore(from)
               B == LettersBefore(to)
    <2>1. M = {q \in from .. to - 1 : content[q + 1] \notin Separators}
      BY DEF Letters, RangeEnd, from, to
    <2>2. B = A \cup M /\ A \cap M = {}
      BY <1>1, <1>3, <1>4, <2>1 DEF LettersBefore
    <2>3. IsFiniteSet(A) /\ IsFiniteSet(B)
      BY <1>5, <1>7
    <2> HIDE DEF A, B, M
    <2>4. IsFiniteSet(M)
      BY <2>2, <2>3, FS_Subset
    <2>5. Cardinality(B) = Cardinality(A) + Cardinality(M) - Cardinality({})
      BY <2>2, <2>3, <2>4, FS_Union
    <2>6. Cardinality(A) \in Nat /\ Cardinality(M) \in Nat /\ Cardinality({}) = 0
      BY <2>3, <2>4, FS_CardinalityType, FS_EmptySet
    <2>7. Cardinality(M) = Cardinality(B) - Cardinality(A)
      BY <2>5, <2>6
    <2> QED
      BY <2>7 DEF A, B, M
  <1>10. JoinedLength(content, first, end)
           = Cardinality(LettersBefore(to)) - Cardinality(LettersBefore(from))
             + (end - first) - 1
    BY <1>9 DEF JoinedLength
  <1>11. JoinedLength(content, first, end)
           = IF content[to] \in Separators THEN to - 1 - from ELSE to - from
    BY <1>1, <1>3, <1>5, <1>6, <1>7, <1>8, <1>10
  <1> QED
    BY <1>3, <1>4, <1>11 DEF from, to

\* No line ends between the start of a word of a tidy text and its end.
LEMMA TidyWord ==
  ASSUME content \in Seq(Kind), Tidy, NEW end \in Nat, 0 < end, end <= N,
         NEW q \in WordStart(content, end - 1) .. RangeEnd(content, end) - 1,
         content[q + 1] \in Separators
  PROVE  q + 1 = RangeEnd(content, end)
  <1> DEFINE a == WordStart(content, end - 1)
             to == RangeEnd(content, end)
  <1>n. N \in Nat /\ Len(content) \in Nat
    BY NumWordsType DEF N
  <1>1. a \in Nat /\ a < Len(content) /\ a \in WordStarts(content)
        /\ Rank(content, a) = end - 1
    BY <1>n, WordPlace DEF N
  <1>2. to \in Nat /\ to <= Len(content)
    BY <1>n, WordPlace DEF RangeEnd, N
  <1>3. SUFFICES ASSUME q + 1 < to PROVE FALSE
    BY <1>1, <1>2
  <1>4. q + 1 \in WordStarts(content) /\ q \in Nat /\ a < q + 1
    BY <1>1, <1>2, <1>3, TidySeparator
  <1>5. Rank(content, q + 1) >= end /\ Rank(content, q + 1) \in Nat
    <2> HIDE DEF a
    <2>1. q + 1 \in Nat /\ a <= q + 1
      BY <1>1, <1>4
    <2>2. Rank(content, a) + 1 <= Rank(content, q + 1) /\ Rank(content, q + 1) \in Nat
      BY <1>1, <1>4, <2>1, RankMonotone
    <2> QED
      BY <1>1, <2>2
  <1>6. CASE end = N
    <2>1. Len(content) \in Nat /\ q + 1 < Len(content)
      BY <1>n, <1>2, <1>3
    <2>2. Rank(content, q + 1) + 1 <= Rank(content, Len(content))
          /\ Rank(content, Len(content)) <= N /\ Rank(content, Len(content)) \in Nat
      BY <1>4, <2>1, RankMonotone DEF N
    <2> QED
      BY <1>n, <1>5, <1>6, <2>2
  <1>7. CASE end # N
    <2>1. to = WordStart(content, end - 1 + 1) /\ end - 1 \in Nat /\ end - 1 + 1 < N
      BY <1>n, <1>7 DEF RangeEnd, N
    <2> QED
      BY <1>3, <1>4, <2>1, NextWord DEF N
  <1> QED
    BY <1>6, <1>7

\* The lines of a chunk of a tidy text are those of its first and its last word.
THEOREM TidyLinesAlwaysExact == Spec => []TidyLinesExact
  <1>1. IInv => TidyLinesExact
    <2> SUFFICES ASSUME IInv, Tidy, NEW i \in DOMAIN chunks
                 PROVE  /\ chunks[i].startLine = LineOf(chunks[i].first)
                        /\ chunks[i].endLine = LineOf(chunks[i].end - 1)
      BY DEF TidyLinesExact
    <2> DEFINE w == chunks[i].first
               e == chunks[i].end
               from == WordStart(content, w)
               to == RangeEnd(content, e)
               a == WordStart(content, e - 1)
               endOffset == from + JoinedLength(content, w, e)
               last == IF endOffset < Len(content) THEN endOffset ELSE Len(content)
    <2>1. content \in Seq(Kind) /\ Len(content) \in Nat /\ chunkSize \in ChunkSizes
          /\ N \in Nat
      BY NumWordsType DEF IInv, N
    <2>2. w \in Nat /\ w < N /\ chunks[i] = Window(w)
      BY <2>1, ChunkIsWindow
    <2>3. /\ e \in Nat /\ w < e /\ e <= N
          /\ chunks[i].startLine = CountLines(content, CharOffsetOfWord(content, w)) + 1
      <3> HIDE DEF w
      <3> QED
        BY <2>1, <2>2, WindowType
    <2>4. CharOffsetOfWord(content, w) = from
      BY <2>1, <2>2, TidyWalk
    <2>5. chunks[i].endLine = CountLines(content, last) + 1
      <3>1. e = IF w + WindowWords < N THEN w + WindowWords ELSE N
        BY <2>2 DEF Window, N
      <3>2. Window(w).endLine
              = CountLines(content,
                  IF CharOffsetOfWord(content, w) + JoinedLength(content, w, e) < Len(content)
                  THEN CharOffsetOfWord(content, w) + JoinedLength(content, w, e)
                  ELSE Len(content)) + 1
        BY <3>1 DEF Window, N
      <3> QED
        BY <2>2, <2>4, <3>2
    <2> HIDE DEF w, e
    <2>6. /\ to \in Nat /\ to <= Len(content) /\ a < to
          /\ JoinedLength(content, w, e)
               = IF content[to] \in Separators THEN to - 1 - from ELSE to - from
      BY <2>1, <2>2, <2>3, TidyJoin
    <2>7. a \in Nat /\ from \in Nat
      BY <2>1, <2>2, <2>3, WordPlace DEF N
    <2>8. ASSUME NEW q \in a .. to - 1, content[q + 1] \in Separators
          PROVE  q + 1 = to
      BY <2>1, <2>2, <2>3, <2>8, TidyWord
    <2> HIDE DEF from, to, a
    <2>9. last = IF content[to] \in Separators THEN to - 1 ELSE to
      BY <2>1, <2>6, <2>7
    <2> HIDE DEF last
    <2>10. a \in 0 .. Len(content) /\ last \in a .. Len(content)
      BY <2>1, <2>6, <2>7, <2>9
    <2>11. ASSUME NEW q \in a .. last - 1 PROVE content[q + 1] # "newline"
      <3>1. q \in a .. to - 1 /\ (q + 1 = to => content[to] \notin Separators)
        BY <2>6, <2>7, <2>9
      <3> QED
        BY <2>8, <3>1 DEF Separators
    <2>12. CountLines(content, last) = CountLines(content, a)
      BY <2>1, <2>10, <2>11, LinesMonotone
    <2> QED
      BY <2>3, <2>4, <2>5, <2>12 DEF LineOf, a, e, from, w
  <1> QED
    BY <1>1, Invariant, PTL
=============================================================================
