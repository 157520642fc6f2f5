---- MODULE Chunking ----
(***************************************************************************)
(* RagService.split_into_chunks and what it calls: how the text of an      *)
(* uploaded document is cut into the chunks that are embedded and found.   *)
(* A character is a letter (anything that is neither blank nor one of the  *)
(* separators), the space, the newline or the full stop, which stands for  *)
(* the six marks that end a sentence.                                      *)
(***************************************************************************)
EXTENDS Integers, FiniteSets, Sequences, SequencesExt, Selection

CONSTANTS
    Letters,                   \* the other characters
    Space, NewLine, Stop,
    chunk_size,                \* settings.RAG_CHUNK_SIZE
    RAG_CHUNK_OVERLAP,
    RAG_MIN_CHUNK_SIZE

ASSUME CharactersAssumption ==
    Letters \cap {Space, NewLine, Stop} = {} /\ Stop \notin {Space, NewLine}
ASSUME SizeAssumption == chunk_size \in Nat \ {0}
ASSUME SettingsAssumption == RAG_CHUNK_OVERLAP \in Nat /\ RAG_MIN_CHUNK_SIZE \in Nat

Least(a, b) == IF a <= b THEN a ELSE b

chunk_overlap == Least(RAG_CHUNK_OVERLAP, chunk_size - 1)
min_chunk_size == Least(RAG_MIN_CHUNK_SIZE, chunk_size)

RECURSIVE_CHUNK_SEPARATORS == << <<NewLine, NewLine>>, <<NewLine>>, <<Stop>> >>

Texts == Seq(Letters \cup {Space, NewLine, Stop})

----
(* Methods of str. *)

Blank(text) == Range(text) \subseteq {Space, NewLine}

Strip(text) ==
    LET solid == {i \in DOMAIN text : text[i] \notin {Space, NewLine}}
    IN IF solid = {} THEN <<>> ELSE SubSeq(text, Min(solid), Max(solid))

(* Where the separator is.  It never overlaps itself: Normalized leaves no  *)
(* three newlines in a row.                                                 *)
Occurrences(text, separator) ==
    {i \in 1 .. Len(text) - Len(separator) + 1 :
        SubSeq(text, i, i + Len(separator) - 1) = separator}

----
(* Line ends and surrounding blanks are normalised, and no more than two    *)
(* newlines left in a row.                                                  *)
Normalized(text) ==
    LET line == Strip(text)
        Third(i) == i > 2 /\ \A j \in i - 2 .. i : line[j] = NewLine
    IN Selected(line, {i \in DOMAIN line : ~Third(i)})

(* _split_with_separator: a separator stays with the piece before it and    *)
(* goes with it when the piece is blank.                                    *)
Parts(text, separator) ==
    LET at == Occurrences(text, separator)
        last == Cardinality(at) + 1
        Start(k) == IF k = 1 THEN 1 ELSE Nth(at, k - 1) + Len(separator)
        Piece(k) == SubSeq(text, Start(k), IF k = last THEN Len(text) ELSE Nth(at, k) - 1)
        Part(k) == IF k = last THEN Piece(k) ELSE Piece(k) \o separator
    IN Selected([k \in 1 .. last |-> Part(k)], {k \in 1 .. last : ~Blank(Piece(k))})

(* _fixed_length_split *)
FixedLengthSplit(text) ==
    LET Slice(k) == SubSeq(text, (k - 1) * chunk_size + 1, Least(k * chunk_size, Len(text)))
        slices == [k \in 1 .. (Len(text) + chunk_size - 1) \div chunk_size |-> Strip(Slice(k))]
    IN Selected(slices, {k \in DOMAIN slices : slices[k] # <<>>})

(* One part of _merge_small_chunks: a short chunk takes the next one in. *)
Merge(chunks, part) ==
    CASE Blank(part) -> chunks
      [] Len(Strip(part)) > chunk_size -> chunks \o FixedLengthSplit(Strip(part))
      [] /\ ~Blank(part) /\ Len(Strip(part)) <= chunk_size
         /\ chunks # <<>>
         /\ Len(Last(chunks)) < min_chunk_size
         /\ Len(Last(chunks)) + Len(Strip(part)) <= chunk_size
           -> Append(Front(chunks), Last(chunks) \o Strip(part))
      [] OTHER -> Append(chunks, Strip(part))

MergeSmallChunks(parts) ==
    LET merged[i \in 0 .. Len(parts)] ==
            IF i = 0 THEN <<>> ELSE Merge(merged[i - 1], parts[i])
        chunks == merged[Len(parts)]
        n == Len(chunks)
    IN IF n > 1 /\ Len(chunks[n]) < min_chunk_size /\ Len(chunks[n - 1]) + Len(chunks[n]) <= chunk_size
       THEN Append(SubSeq(chunks, 1, n - 2), chunks[n - 1] \o chunks[n])
       ELSE chunks

(* One level of _recursive_split; finer splits at the separators after it. *)
SplitLevel(index, untrimmed, finer) ==
    LET text == Strip(untrimmed)
        fits == Len(text) <= chunk_size
        parts == Parts(text, RECURSIVE_CHUNK_SEPARATORS[index])
        Resplit(part) == IF Len(part) > chunk_size THEN finer[part] ELSE <<part>>
    IN CASE text = <<>> -> <<>>
         [] text # <<>> /\ index > Len(RECURSIVE_CHUNK_SEPARATORS) ->
              IF fits THEN <<text>> ELSE FixedLengthSplit(text)
         [] text # <<>> /\ index <= Len(RECURSIVE_CHUNK_SEPARATORS) ->
              IF Len(parts) = 1
              THEN IF fits THEN <<text>> ELSE finer[text]
              ELSE MergeSmallChunks(FlattenSeq([i \in DOMAIN parts |-> Resplit(parts[i])]))

RecursiveSplit[index \in 1 .. Len(RECURSIVE_CHUNK_SEPARATORS) + 1] ==
    [untrimmed \in Texts |->
        SplitLevel(index, untrimmed,
                   IF index <= Len(RECURSIVE_CHUNK_SEPARATORS) THEN RecursiveSplit[index + 1] ELSE <<>>)]

(* Mistake: without a test of room, previous[-0:] is all of previous. *)
OverlapUntested(previous, chunk) ==
    LET length == Least(Least(chunk_overlap, chunk_size - Len(chunk)), Len(previous))
    IN IF length = 0 THEN previous
       ELSE SubSeq(previous, Len(previous) - length + 1, Len(previous))

(* The last characters of the previous chunk, as many as fit in. *)
Overlap(previous, chunk) ==
    LET length == Least(Least(chunk_overlap, chunk_size - Len(chunk)), Len(previous))
    IN SubSeq(previous, Len(previous) - length + 1, Len(previous))

(* Mistake: the overlap is taken from a chunk that has one already. *)
AddToOverlapped(chunks) ==
    FoldLeft(LAMBDA done, chunk :
                 Append(done, IF done = <<>> THEN chunk ELSE Overlap(Last(done), chunk) \o chunk),
             <<>>, chunks)

(* _add_chunk_overlap *)
AddChunkOverlap(chunks) ==
    [i \in DOMAIN chunks |->
        IF i = 1 THEN chunks[1] ELSE Overlap(chunks[i - 1], chunks[i]) \o chunks[i]]

(* The document's own text in its chunks. *)
Pieces(text) ==
    LET chunks == RecursiveSplit[1][Normalized(text)]
    IN Selected(chunks, {i \in DOMAIN chunks : ~Blank(chunks[i])})

SplitIntoChunks(text) == AddChunkOverlap(Pieces(text))
====
