---------------------------- MODULE RetrievalIndex ----------------------------
(***************************************************************************)
(* labs/hybrid-retrieval: documents are cut into chunks (chunking.py) and  *)
(* kept under ids made of the document and a position (index.py); a search *)
(* fuses two rankings (fusion.py, lexical.py), rescores what is left       *)
(* (reranker.py) and is judged against labels (evaluation.py).  A text is  *)
(* a sequence of fragments [of, len]: len characters of sentence `of`, one *)
(* space between two; sentences are single words.  The scores a query gets *)
(* are any.                                                                *)
(***************************************************************************)
EXTENDS Integers, Sequences, FiniteSets, SequencesExt

CONSTANTS
  Documents,
  Texts,           \* sequences of paragraphs [heading, sentences]
  MaxChars, Overlap,
  FetchK, K,       \* at most 3: the ranks are weighed exactly up to there
  MaxAdds          \* bound

VARIABLES
  chunks,          \* _chunks in insertion order: [id, heading, text, version]
  latest,          \* document -> the texts ever added, in order
  signals,         \* of the query: [bm25, cosine, phrase] per chunk
  results          \* of the search: places in chunks
indexVars == <<chunks, latest, signals, results>>

IndexInit == chunks = <<>> /\ latest = [d \in Documents |-> <<>>] /\ signals = <<>> /\ results = <<>>

\* Lengths: fragments and the spaces between them
EndOf(text, i) == FoldLeft(LAMBDA sum, f : sum + f.len + 1, -1, SubSeq(text, 1, i))
Size(text) == IF text = <<>> THEN 0 ELSE EndOf(text, Len(text))

\* text[-n:].strip()
Tail_(text, n) ==
  LET cut == Size(text) - n
      from == CHOOSE i \in DOMAIN text : EndOf(text, i) > cut /\ (i = 1 \/ EndOf(text, i - 1) <= cut)
      left == EndOf(text, from) - cut
  IN  IF n = 0 THEN <<>>
      ELSE <<[text[from] EXCEPT !.len = IF @ < left THEN @ ELSE left]>>
             \o SubSeq(text, from + 1, Len(text))

\* _split_long_paragraph(): sentences together while they fit
Grown(so_far, sentence) ==
  IF so_far.current # <<>> /\ Size(Append(so_far.current, sentence)) > MaxChars
  THEN [pieces |-> Append(so_far.pieces, so_far.current), current |-> <<sentence>>]
  ELSE [so_far EXCEPT !.current = Append(@, sentence)]
Pieces(paragraph) ==
  LET split == FoldLeft(Grown, [pieces |-> <<>>, current |-> <<>>], paragraph.sentences)
  IN  IF Size(paragraph.sentences) > MaxChars THEN Append(split.pieces, split.current)
      ELSE <<paragraph.sentences>>

\* flush() and the loops of chunk_document()
Flushed(so_far) ==
  IF so_far.text = <<>> THEN so_far
  ELSE [so_far EXCEPT !.chunks = Append(@, [heading |-> so_far.heading, text |-> so_far.text]),
                      !.text = <<>>]
FitsPiece(so_far, piece) ==
  IF so_far.text # <<>> /\ Size(so_far.text \o piece) > MaxChars
  THEN [Flushed(so_far) EXCEPT !.text = Tail_(so_far.text, Overlap) \o piece]
  ELSE [so_far EXCEPT !.text = @ \o piece]
TakesParagraphOver(so_far, paragraph) ==     \* mutant: a new section does not flush
  FoldLeft(FitsPiece, [so_far EXCEPT !.heading = paragraph.heading], Pieces(paragraph))
TakesParagraph(so_far, paragraph) ==
  LET section == IF paragraph.heading # so_far.heading THEN Flushed(so_far) ELSE so_far
  IN  FoldLeft(FitsPiece, [section EXCEPT !.heading = paragraph.heading], Pieces(paragraph))
chunk_document(text) ==
  Flushed(FoldLeft(TakesParagraph, [chunks |-> <<>>, heading |-> "none", text |-> <<>>], text)).chunks

\* add_document(): a chunk of an id that exists takes its place in the dict
Place(index, id) == {i \in DOMAIN index : index[i].id = id}
Stored(index, chunk) ==
  IF Place(index, chunk.id) = {} THEN Append(index, chunk)
  ELSE [i \in DOMAIN index |-> IF index[i].id = chunk.id THEN chunk ELSE index[i]]
Adds == FoldLeft(LAMBDA sum, d : sum + Len(latest[d]), 0, SetToSeq(Documents))
AddDocument(d, text) ==
  LET new == chunk_document(text)
      stored == [i \in DOMAIN new |-> [id |-> <<d, i - 1>>, heading |-> new[i].heading,
                                       text |-> new[i].text, version |-> Len(latest[d]) + 1]]
  IN  /\ results = <<>> /\ Adds < MaxAdds
      /\ chunks' = FoldLeft(Stored, chunks, stored)
      /\ latest' = [latest EXCEPT ![d] = Append(@, text)]
      /\ UNCHANGED <<signals, results>>

\* sorted(..., reverse=True) is stable: ties keep the order they came in
Sorted(values) ==
  SetToSortSeq(DOMAIN values, LAMBDA i, j : \/ values[i] > values[j]
                                            \/ values[i] = values[j] /\ i < j)
By(places, value) ==
  LET order == Sorted([i \in DOMAIN places |-> value[places[i]]])
  IN  [i \in DOMAIN order |-> places[order[i]]]
Cut(list, n) == SubSeq(list, 1, IF Len(list) < n THEN Len(list) ELSE n)

\* 1 / (60 + rank), times 61 * 62 * 63
Credit(ranking, place) ==
  LET ranks == {i \in DOMAIN ranking : ranking[i] = place}
  IN  IF ranks = {} THEN 0 ELSE 238266 \div (60 + CHOOSE i \in ranks : TRUE)
Fused(lexical, vector) ==
  LET ranked == lexical \o SelectSeq(vector, LAMBDA p : \A i \in DOMAIN lexical : lexical[i] # p)
  IN  By(ranked, [p \in ToSet(ranked) |-> Credit(lexical, p) + Credit(vector, p)])

\* rerank(): 0.6 of the normalised bm25, 0.3 of the cosine, 0.1 for the phrase
Normalized(scores, places, p) ==
  LET positive == {scores[q].bm25 : q \in {places[i] : i \in DOMAIN places}} \ {0}
      lo == CHOOSE a \in positive : \A b \in positive : a <= b
      hi == CHOOSE a \in positive : \A b \in positive : a >= b
  IN  IF scores[p].bm25 = 0 THEN 0
      ELSE IF hi = lo THEN 12 ELSE (12 * (scores[p].bm25 - lo)) \div (hi - lo)
\* 0.6, 0.3 and 0.1 of bm25, cosine and phrase, times 20; a cosine of 1 here is one half
Combined(scores, places, p) ==
  Normalized(scores, places, p) + 3 * scores[p].cosine + (IF scores[p].phrase THEN 2 ELSE 0)

\* search(), with the scores of every chunk
Found(scores) ==
  LET all == [i \in DOMAIN scores |-> i]
      matching == SelectSeq(all, LAMBDA p : scores[p].bm25 > 0)
      lexical == Cut(By(matching, [p \in DOMAIN scores |-> scores[p].bm25]), FetchK)
      vector == Cut(By(all, [p \in DOMAIN scores |-> scores[p].cosine]), FetchK)
      candidates == Cut(Fused(lexical, vector), FetchK)
  IN  Cut(By(candidates, [p \in ToSet(candidates) |-> Combined(scores, candidates, p)]), K)
Search ==
  /\ results = <<>> /\ chunks # <<>> /\ Len(chunks) <= 3
  /\ \E scores \in [DOMAIN chunks -> [bm25 : 0..2, cosine : 0..1, phrase : BOOLEAN]] :
       signals' = scores /\ results' = Found(scores)
  /\ UNCHANGED <<chunks, latest>>

IndexNext == Search \/ \E d \in Documents, text \in Texts : AddDocument(d, text)

\* evaluate() for one case: what precision counts, what recall counts, and the
\* rank of the first hit
hits(labels) == SelectSeq(results, LAMBDA p : p \in labels)
recalled(labels) == {results[i] : i \in DOMAIN results} \cap labels
first_rank(labels) ==
  LET ranks == {i \in DOMAIN results : results[i] \in labels}
  IN  IF ranks = {} THEN 0 ELSE CHOOSE i \in ranks : \A j \in ranks : i <= j
-------------------------------------------------------------------------------
Whole(text, chunked) == \E i \in DOMAIN chunked : \E a, b \in 1..Len(chunked[i].text) :
  SubSeq(chunked[i].text, a, b) = text
Of(chunk) == [i \in DOMAIN chunk.text |-> chunk.text[i].of]
CutWell == \A text \in Texts : LET cut == chunk_document(text) IN
  /\ \A p \in DOMAIN text :
       IF Size(text[p].sentences) <= MaxChars THEN Whole(text[p].sentences, cut)
       ELSE \A i \in DOMAIN text[p].sentences : Whole(<<text[p].sentences[i]>>, cut)
  /\ \A c \in DOMAIN cut :
       /\ \A i \in 1..(Len(cut[c].text) - 1) : Of(cut[c])[i + 1] = Of(cut[c])[i] + 1
       /\ \A i \in DOMAIN cut[c].text : \E p \in DOMAIN text : text[p].heading = cut[c].heading
            /\ \E s \in DOMAIN text[p].sentences : text[p].sentences[s].of = Of(cut[c])[i]
       /\ \/ Size(cut[c].text) <= MaxChars
          \/ \E p \in DOMAIN text : \E q \in DOMAIN Pieces(text[p]) :
               Size(cut[c].text) <= Overlap + 1 + Size(Pieces(text[p])[q])
KeptAsAdded == \A d \in Documents, v \in 1..MaxAdds : v <= Len(latest[d]) =>
  LET cut == chunk_document(latest[d][v])
      later(i) == \E w \in (v + 1)..Len(latest[d]) : Len(chunk_document(latest[d][w])) >= i
  IN  \A i \in DOMAIN cut :
        Cardinality(Place(chunks, <<d, i - 1>>)) = 1 /\
        (~later(i) => \E c \in Place(chunks, <<d, i - 1>>) : chunks[c].text = cut[i].text)
\* What a reader gets of the documents (chunking.py:61-113, index.py:52-73,
\* fusion.py:8, reranker.py:22): a paragraph is whole in one chunk unless it is
\* longer than a chunk may be, and then its sentences are; a chunk is a run of
\* its document in order, from one heading, and over the limit by the overlap
\* it carries and its one piece at most; what is kept under an id is the last
\* text added that has such a chunk, and every chunk of the last text is kept
\* (a search changes none of it, so this is said of the states before one).
\* A search finds no chunk twice, so precision and recall count the same hits,
\* and none that another one beats in both scores unless that one comes first.
FoundAsWritten ==
  /\ results = <<>> => CutWell /\ KeptAsAdded
  /\ \A labels \in SUBSET DOMAIN signals : Len(hits(labels)) = Cardinality(recalled(labels))
  /\ \A b \in DOMAIN results, a \in DOMAIN signals :
       LET worse == signals[results[b]] IN
       signals[a].bm25 > worse.bm25 /\ signals[a].cosine > worse.cosine /\ (worse.phrase => signals[a].phrase)
         => first_rank({a}) \in 1..(b - 1)
===============================================================================
