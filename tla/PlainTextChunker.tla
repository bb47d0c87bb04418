--------------------------- MODULE PlainTextChunker ---------------------------
(* PlainTextChunker.Chunk, which cuts a text into windows of words and gives each *)
(* its lines, and the part of ChatQueryHandler that cuts those lines out of the    *)
(* file again when a window is found.                                              *)
(*                                                                                *)
(* A text is a sequence of kinds of characters: what matters is which ones Split    *)
(* separates words at, which ones char.IsWhiteSpace takes for white space (a form   *)
(* feed or a no-break space is only that) and which ones end a line.                *)
EXTENDS Integers, Sequences, FiniteSets

CONSTANTS
  Text,        \* contents of files
  ChunkSizes,  \* of ChunkingOptions, in tokens
  Overlaps

Kind == {"letter", "blank", "newline", "feed"}

ASSUME TextAssumption == Text \subseteq Seq(Kind)
\* A size below 2 is a window without words; the code takes whatever is configured.
ASSUME OptionsAssumption ==
  /\ ChunkSizes \subseteq {n \in Nat : n > 1}
  /\ Overlaps \subseteq Nat

VARIABLES
  content, chunkSize, overlap,  \* what Chunk is called with
  wordIndex,                    \* first word of the next window, from 0
  chunks                        \* the words first .. end - 1 of each window, its lines

vars == <<content, chunkSize, overlap, wordIndex, chunks>>

-----------------------------------------------------------------------------
(* The words and the lines of a text.  As in the code a position is the number of *)
(* characters before it.                                                          *)

Separators == {"blank", "newline"}
WhiteSpace == {"blank", "newline", "feed"}

\* Where a word begins in a text, by Split with RemoveEmptyEntries.
WordStarts(text) ==
  {p \in 0 .. Len(text) - 1 : /\ text[p + 1] \notin Separators
                              /\ p = 0 \/ text[p] \in Separators}

NumWords(text) == Cardinality(WordStarts(text))

\* The position of word w, counted from 0.
WordStart(text, w) ==
  CHOOSE p \in WordStarts(text) : Cardinality({q \in WordStarts(text) : q < p}) = w

\* The characters of the words first .. end - 1.
Letters(text, first, end) ==
  LET from == WordStart(text, first)
      to == IF end = NumWords(text) THEN Len(text) ELSE WordStart(text, end)
  IN  {p \in from .. to - 1 : text[p + 1] \notin Separators}

\* Variant: the words are joined without a blank.
ConcatenatedLength(text, first, end) ==
  IF first = end THEN 0 ELSE Cardinality(Letters(text, first, end))

\* The length of the words joined with a blank between any two.
JoinedLength(text, first, end) ==
  IF first = end THEN 0 ELSE Cardinality(Letters(text, first, end)) + (end - first) - 1

CountLines(text, to) == Cardinality({p \in 0 .. to - 1 : text[p + 1] = "newline"})

\* Where a run of characters in S that starts at p ends.
Skip(text, p, S) ==
  CHOOSE q \in p .. Len(text) : /\ \A i \in p .. q - 1 : text[i + 1] \in S
                                /\ q = Len(text) \/ text[q + 1] \notin S

\* Variant: lines are counted to the word after the first.
CharOffsetOfNextWord(text, word) ==
  LET offset[w \in 0 .. word + 1] ==
        IF w = 0 THEN 0
        ELSE Skip(text, Skip(text, offset[w - 1], Kind \ WhiteSpace), WhiteSpace)
  IN  offset[word + 1]

CharOffsetOfWord(text, word) ==
  LET offset[w \in 0 .. word] ==
        IF w = 0 THEN 0
        ELSE Skip(text, Skip(text, offset[w - 1], Kind \ WhiteSpace), WhiteSpace)
  IN  offset[word]

-----------------------------------------------------------------------------
(* Chunk *)

\* (int)(size * 0.75)
Words(tokens) == (tokens * 3) \div 4

WindowWords == Words(chunkSize)

\* Variant: the step may be anything.
StepOfDifference == WindowWords - Words(overlap)

\* Variant: only a step below 0 is replaced.
StepNotNegative == LET step == WindowWords - Words(overlap) IN IF step < 0 THEN 1 ELSE step

\* Variant: the overlap is added.
StepOverlapAdded == WindowWords + Words(overlap)

StepWords == LET step == WindowWords - Words(overlap) IN IF step <= 0 THEN 1 ELSE step

\* Variant: the end is taken from the length of the window alone.
WindowEndWithoutOffset(first) ==
  LET end == IF first + WindowWords < NumWords(content) THEN first + WindowWords
             ELSE NumWords(content)
      offset == CharOffsetOfWord(content, first)
  IN  [first |-> first, end |-> end,
       startLine |-> CountLines(content, offset) + 1,
       endLine |-> CountLines(content, JoinedLength(content, first, end)) + 1]

Window(first) ==
  LET end == IF first + WindowWords < NumWords(content) THEN first + WindowWords
             ELSE NumWords(content)
      offset == CharOffsetOfWord(content, first)
      endOffset == offset + JoinedLength(content, first, end)
  IN  [first |-> first, end |-> end,
       startLine |-> CountLines(content, offset) + 1,
       endLine |-> CountLines(content, IF endOffset < Len(content) THEN endOffset
                                       ELSE Len(content)) + 1]

Init ==
  /\ content \in Text /\ chunkSize \in ChunkSizes /\ overlap \in Overlaps
  /\ wordIndex = 0
  /\ chunks = << >>

NextWindow ==
  /\ wordIndex < NumWords(content)
  /\ chunks' = Append(chunks, Window(wordIndex))
  /\ wordIndex' = wordIndex + StepWords
  /\ UNCHANGED <<content, chunkSize, overlap>>

Spec == Init /\ [][NextWindow]_vars

-----------------------------------------------------------------------------
(* The lines ChatQueryHandler cuts a chunk out of *)

NumLines == CountLines(content, Len(content)) + 1

LineOf(w) == CountLines(content, WordStart(content, w)) + 1

-----------------------------------------------------------------------------
(* Properties *)

TypeOK ==
  /\ content \in Text /\ chunkSize \in ChunkSizes /\ overlap \in Overlaps
  /\ wordIndex \in Nat
  /\ chunks \in Seq([first : Nat, end : Nat, startLine : Nat, endLine : Nat])

\* No word falls between two windows, whatever the rounding of the two sizes.
EveryWordChunked ==
  \A w \in 0 .. wordIndex - 1 : w < NumWords(content) =>
    \E i \in DOMAIN chunks : chunks[i].first <= w /\ w < chunks[i].end

\* Every window starts at a word of its own: the loop ends, and with at most a window
\* for each word, even if the configured overlap is the whole window or more.
ChunksBounded ==
  /\ Len(chunks) <= NumWords(content)
  /\ \A i, j \in DOMAIN chunks : i < j => chunks[i].first < chunks[j].first

\* The range a query cuts out of the lines is one: the code would throw on another,
\* and the question would fail.
ExcerptIsRange ==
  \A i \in DOMAIN chunks : 1 <= chunks[i].startLine /\ chunks[i].startLine <= chunks[i].endLine
                           /\ chunks[i].startLine <= NumLines

\* A form feed, say, on a line of its own: Split takes it for a word.
BlankWord == \E p \in WordStarts(content) :
  \A q \in p .. Skip(content, p, Kind \ Separators) - 1 : content[q + 1] = "feed"

\* An excerpt does not start after the chunk, although words are separated in one
\* way when they are counted and in another when the text is walked, unless there
\* are words that are white space.
StartsInTime ==
  ~BlankWord => \A i \in DOMAIN chunks : chunks[i].startLine <= LineOf(chunks[i].first)

\* Words are one blank or line break apart and nothing else is white space.
Tidy ==
  /\ \A p \in DOMAIN content : content[p] # "feed"
  /\ \A p \in DOMAIN content :
       content[p] \in Separators => p > 1 /\ content[p - 1] \notin Separators

\* Where joining the words of a tidy text gives the text again, a chunk's lines are
\* exactly those of its first and its last word.
TidyLinesExact ==
  Tidy => \A i \in DOMAIN chunks :
            /\ chunks[i].startLine = LineOf(chunks[i].first)
            /\ chunks[i].endLine = LineOf(chunks[i].end - 1)
=============================================================================
