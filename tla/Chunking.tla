------------------------------- MODULE Chunking --------------------------------
(***************************************************************************)
(* The chunker (ingest/chunker.py): chunk_document reads an extracted      *)
(* document block by block; the accumulator gathers the pieces a block is  *)
(* split into, and flushes them as a chunk when they reach the target, do  *)
(* not fit, or their section ends.  A flush inside a section carries the   *)
(* last words over, so that the next chunk overlaps with it.  A step is a  *)
(* block, or a piece of one that has to be split.                          *)
(*                                                                         *)
(* A text is its words, and a word is where it stands (block, offset among *)
(* the block's characters that are not blank) and its width; a blank       *)
(* stands between words and two line ends between pieces.  Whitespace-only *)
(* blocks, line numbers, hashes and the spelling of ids are left out.      *)
(***************************************************************************)
EXTENDS Integers, FiniteSets, Sequences, SequencesExt

CONSTANTS
    Shapes,          \* blocks a backend may extract
    Preferences,     \* the locator kinds of a source, in its order of preference
    MaxTokens, Target, \* the size band
    Take,            \* words carried over, from the configured overlap
    MaxBlocks        \* bound: blocks of a document

CHARS_PER_TOKEN == 4
LocatorKinds == {"numbered-section", "web-fragment", "book-page", "named-section"}

\* Every block starts a page of its own, or the document has none (paged).
ASSUME ShapesAssumption ==
    \A b \in Shapes :
        /\ b \in [level : Nat, title : Nat, numbered : BOOLEAN, anchor : BOOLEAN,
                 words : Nat, width : Nat]
        /\ IF b.level > 0 THEN b.title > 0 ELSE b.words > 0 /\ b.width > 0
\* config/ingest.yaml: 400, 550 and 60 tokens.
ASSUME BandAssumption ==
    /\ MaxTokens \in Nat /\ Target \in Nat \ {0} /\ Take \in Nat /\ MaxBlocks \in Nat
    /\ Target + MaxTokens \div 4 < MaxTokens

VARIABLES
    doc,             \* the blocks read
    paged,
    kinds,           \* the source's preference
    section,         \* index, stack of heading titles, numbered, anchor
    acc,             \* the _Accumulator, with the chunks it has emitted
    left,            \* words of the block last read that no piece has taken
    reading          \* TRUE, until chunk_document returns or raises

chunkingVars == <<doc, paged, kinds, section, acc, left, reading>>

Longer(a, b) == IF a >= b THEN a ELSE b
count_tokens(chars) == Longer(1, chars \div CHARS_PER_TOKEN)

-----------------------------------------------------------------------------
(* Sizes, in characters. *)

Sum(f) ==
    LET sum[i \in 0 .. Len(f)] == IF i = 0 THEN 0 ELSE sum[i - 1] + f[i] IN sum[Len(f)]
Joined(widths, blank) == Sum(widths) + blank * (Len(widths) - 1)
Width(words) == Joined([i \in 1 .. Len(words) |-> words[i].width], 1)

\* The titles on the path with " > " between, or its deepest ones after "... > ", or a cut.
_embedded_breadcrumb(path) ==
    LET limit == Longer(1, MaxTokens \div 4) * CHARS_PER_TOKEN
        chars(p) == Joined([i \in 1 .. Len(p) |-> p[i].title], 3)
        fitting == {n \in 1 .. Len(path) : 4 + chars(SubSeq(path, n, Len(path))) <= limit}
    IN  IF chars(path) <= limit THEN chars(path)
        ELSE IF fitting = {} THEN limit
        ELSE 4 + chars(SubSeq(path, Min(fitting), Len(path)))

_prefix(s) == IF s.path = <<>> THEN 0 ELSE _embedded_breadcrumb(s.path) + 2

\* What one piece of a text may take, so that it fits into a chunk with the prefix.
Limit(s) == Longer(1, MaxTokens - _prefix(s) \div CHARS_PER_TOKEN) * CHARS_PER_TOKEN

\* As many words as fit with a blank behind each, or one; a word that is wider than the
\* limit is cut, and each part of it is a piece.
Piece(words, limit) ==
    LET w == Head(words)
        fitting == {n \in 1 .. Len(words) : n = 1 \/ Width(SubSeq(words, 1, n)) + 1 <= limit}
    IN  IF w.width > limit THEN <<[w EXCEPT !.width = limit, !.cut = TRUE]>>
        ELSE IF w.cut THEN <<w>>
        ELSE SubSeq(words, 1, Max(fitting))

Rest(words, limit) ==
    LET w == Head(words)
    IN  IF w.width > limit
        THEN <<[w EXCEPT !.from = @ + limit, !.width = @ - limit, !.cut = TRUE]>> \o Tail(words)
        ELSE SubSeq(words, Len(Piece(words, limit)) + 1, Len(words))

-----------------------------------------------------------------------------
(* The accumulator. *)

\* The buffer's words, and the characters of its pieces joined.
Emptied(a) == [buffer |-> <<>>, chars |-> 0, pages |-> <<>>, pure_carry |-> FALSE,
               chunks |-> a.chunks, failed |-> a.failed]
Prospective(a, piece) ==
    IF a.buffer = <<>> THEN Width(piece) ELSE a.chars + 2 + Width(piece)
_text_for(s, chars) == count_tokens(_prefix(s) + chars)

\* The first kind the source prefers of those this chunk can support.
_locator_for(s, pages) ==
    LET supported == {k \in LocatorKinds :
            \/ k = "numbered-section" /\ s.numbered
            \/ k = "web-fragment" /\ s.anchor
            \/ k = "book-page" /\ pages # <<>>
            \/ k = "named-section" /\ s.path # <<>>}
    IN  SelectSeq(kinds, LAMBDA k : k \in supported)

_carry(words) == IF Take = 0 \/ Take >= Len(words) THEN <<>> ELSE SubSeq(words, Len(words) - Take + 1, Len(words))

\* Mutant: what has been carried over and nothing else is a chunk too.
FlushCarry(a, s, carry) ==
    LET over == IF carry THEN _carry(a.buffer) ELSE <<>>
    IN  IF a.buffer = <<>> THEN Emptied(a)
        ELSE IF _locator_for(s, a.pages) = <<>> THEN [a EXCEPT !.failed = TRUE]
        ELSE [buffer |-> over, chars |-> IF over = <<>> THEN 0 ELSE Width(over),
              pages |-> IF carry /\ a.pages # <<>> THEN <<Last(a.pages)>> ELSE <<>>,
              pure_carry |-> over # <<>>, failed |-> FALSE,
              chunks |-> Append(a.chunks, [section |-> s.index, words |-> a.buffer,
                                           pages |-> ToSet(a.pages),
                                           locator |-> Head(_locator_for(s, a.pages)),
                                           tokens |-> _text_for(s, a.chars)])]

\* Nothing new to emit: the pages a bare heading has pushed are dropped with the overlap.
flush(a, s, carry) ==
    LET over == IF carry THEN _carry(a.buffer) ELSE <<>>
    IN  IF a.buffer = <<>> \/ a.pure_carry THEN Emptied(a)
        ELSE IF _locator_for(s, a.pages) = <<>> THEN [a EXCEPT !.failed = TRUE]
        ELSE [buffer |-> over, chars |-> IF over = <<>> THEN 0 ELSE Width(over),
              pages |-> IF carry /\ a.pages # <<>> THEN <<Last(a.pages)>> ELSE <<>>,
              pure_carry |-> over # <<>>, failed |-> FALSE,
              chunks |-> Append(a.chunks, [section |-> s.index, words |-> a.buffer,
                                           pages |-> ToSet(a.pages),
                                           locator |-> Head(_locator_for(s, a.pages)),
                                           tokens |-> _text_for(s, a.chars)])]

\* Room for the piece: one flush may emit a chunk, one more discards its overlap.
Room(a, s, piece) ==
    IF ~ a.failed /\ a.buffer # <<>> /\ _text_for(s, Prospective(a, piece)) > MaxTokens
    THEN flush(a, s, TRUE) ELSE a

Push(a, s, piece, page) ==
    LET room == Room(Room(a, s, piece), s, piece)
        full == [buffer |-> room.buffer \o piece, chars |-> Prospective(room, piece),
                 pages |-> room.pages \o page, pure_carry |-> FALSE,
                 chunks |-> room.chunks, failed |-> FALSE]
    IN  IF room.failed THEN room
        ELSE IF _text_for(s, full.chars) >= Target THEN flush(full, s, TRUE) ELSE full

-----------------------------------------------------------------------------
(* chunk_document. *)

Blank == [buffer |-> <<>>, chars |-> 0, pages |-> <<>>, pure_carry |-> FALSE,
          chunks |-> <<>>, failed |-> FALSE]

ChunkingInit ==
    /\ doc = <<>> /\ paged \in BOOLEAN /\ kinds \in Preferences /\ reading = TRUE
    /\ section = [index |-> 0, path |-> <<>>, numbered |-> FALSE, anchor |-> FALSE]
    /\ acc = Blank /\ left = <<>>

Page(n) == IF paged THEN <<n>> ELSE <<>>
Read(b) == reading /\ left = <<>> /\ Len(doc) < MaxBlocks /\ doc' = Append(doc, b)

\* What stands before the first heading folds forward into its section.
Heading(b) ==
    /\ Read(b) /\ b.level > 0
    /\ LET flushed == IF section.path # <<>> THEN flush(acc, section, FALSE) ELSE acc
           above == {0} \cup {i \in 1 .. Len(section.path) : section.path[i].level < b.level}
       IN  /\ acc' = IF flushed.failed THEN flushed
                     ELSE [flushed EXCEPT !.pages = @ \o Page(Len(doc) + 1)]
           /\ section' = [index |-> section.index + 1, numbered |-> b.numbered, anchor |-> b.anchor,
                          path |-> Append(SubSeq(section.path, 1, Max(above)),
                                          [level |-> b.level, title |-> b.title])]
           /\ reading' = ~ flushed.failed
    /\ UNCHANGED <<paged, kinds, left>>

Taken(piece, block) ==
    LET added == Push(acc, section, piece, Page(block)) IN acc' = added /\ reading' = ~ added.failed

WordsOf(b, block) ==
    [i \in 1 .. b.words |->
        [block |-> block, from |-> (i - 1) * b.width, width |-> b.width, cut |-> FALSE]]

\* A text that fits is one piece; another is split, and added piece by piece.
Body(b) ==
    /\ Read(b) /\ b.level = 0
    /\ LET text == WordsOf(b, Len(doc) + 1)
       IN  IF Width(text) <= Limit(section)
           THEN Taken(text, Len(doc) + 1) /\ left' = <<>>
           ELSE left' = text /\ UNCHANGED <<acc, reading>>
    /\ UNCHANGED <<paged, kinds, section>>

NextPiece ==
    /\ reading /\ left # <<>>
    /\ Taken(Piece(left, Limit(section)), Len(doc)) /\ left' = Rest(left, Limit(section))
    /\ UNCHANGED <<doc, paged, kinds, section>>

EndDocument ==
    /\ reading /\ left = <<>> /\ reading' = FALSE
    /\ acc' = flush(acc, section, FALSE)
    /\ UNCHANGED <<doc, paged, kinds, section, left>>

ChunkingNext == (\E b \in Shapes : Heading(b) \/ Body(b)) \/ NextPiece \/ EndDocument

ChunkingSpec == ChunkingInit /\ [][ChunkingNext]_chunkingVars

-----------------------------------------------------------------------------
ChunksMade == 1 .. Len(acc.chunks)
Cells(words) == UNION {{<<w.block, w.from + k>> : k \in 0 .. w.width - 1} : w \in ToSet(words)}
Covered(n) == Cells(acc.chunks[n].words)
Written == UNION {{<<i, k>> : k \in 0 .. doc[i].words * doc[i].width - 1} :
                      i \in {j \in 1 .. Len(doc) : doc[j].level = 0}}
Headings(i) == Cardinality({j \in 1 .. i : doc[j].level > 0})

\* A document that is chunked at all has every character of its text in some chunk.
EverythingReachable ==
    ~ reading /\ ~ acc.failed => UNION {Covered(n) : n \in ChunksMade} = Written
\* No chunk is only what was carried over from the one before it.
NothingRepeats == \A n \in ChunksMade : n > 1 => ~ Covered(n) \subseteq Covered(n - 1)
\* The text that is embedded stays within the band, breadcrumb included.
WithinBand == \A n \in ChunksMade : acc.chunks[n].tokens <= MaxTokens
\* A chunk is of one section, and its page range of that section's pages: what stands before
\* the first heading is of no section or of the first.
OneSection ==
    \A n \in ChunksMade :
        LET chunk == acc.chunks[n]
        IN  \A i \in {w.block : w \in ToSet(chunk.words)} \cup chunk.pages :
                Headings(i) = chunk.section \/ (Headings(i) = 0 /\ chunk.section = 1)
\* Every word not carried over is on a page within the range the chunk cites.
PagesSpan ==
    \A n \in ChunksMade : paged =>
        \A w \in {v \in ToSet(acc.chunks[n].words) :
                     n = 1 \/ v \notin ToSet(acc.chunks[n - 1].words)} :
            \E lo, hi \in acc.chunks[n].pages : lo <= w.block /\ w.block <= hi

\* What a citation rests on (chunker.py:214): through splits, overlaps, folded text and bare
\* headings, the chunks of a document hold all of it, repeat none of it on its own, and
\* cite their own section.
ChunksCover == EverythingReachable /\ NothingRepeats /\ WithinBand /\ OneSection /\ PagesSpan

\* A page in the range is a page of a word of the chunk, or of its section's heading.
PagesAreOfText ==
    \A n \in ChunksMade : paged =>
        LET chunk == acc.chunks[n]
        IN  \A p \in chunk.pages : p \in {w.block : w \in ToSet(chunk.words)} \/ doc[p].level > 0
=============================================================================
