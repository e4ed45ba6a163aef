----------------------------- MODULE DocumentText -----------------------------
(***************************************************************************)
(* What becomes of a document's text: the chunks of GraphRAG               *)
(* (graph/graph_rag.py) and of the episodes of a build                     *)
(* (graph_service/domain/episode_builder.py), and the evidence Thinker     *)
(* takes from texts (thinker/orchestrator.py).  A text is a sequence of    *)
(* characters; a chunk is [from, to), as Python slices it.                 *)
(***************************************************************************)
EXTENDS Integers, SequencesExt, FiniteSetsExt, Selection

Blank == {" ", "\n"}

(* The separators of _chunk_text, in the order it tries them.              *)
Separators == <<<<".", " ">>, <<".", "\n">>, <<"\n", "\n">>, <<"\n">>>>

Slice(text, from, to) == SubSeq(text, from + 1, to)

(* rfind within [start, end), every place of it.                           *)
Finds(text, sep, start, end) ==
  {i \in start .. end - Len(sep) : Slice(text, i, i + Len(sep)) = sep}

(* Where the chunk that begins at start ends: after the last place of the  *)
(* first separator that has one beyond the start.                          *)
ChunkEnd(text, size, start) ==
  LET end == Min({start + size, Len(text)})
      breaks == Those(Separators, {sep \in ToSet(Separators) :
                                     \E i \in Finds(text, sep, start, end) : i > start})
  IN  IF end = Len(text) \/ breaks = <<>> THEN end
      ELSE Max(Finds(text, breaks[1], start, end)) + Len(breaks[1])

(* A chunk that does not advance is appended for ever.                     *)
Advances(text, size) == \A start \in 0 .. Len(text) - 1 : ChunkEnd(text, size, start) > start

Chunks(text, size) ==
  LET from[start \in 0 .. Len(text)] ==
        IF start = Len(text) THEN <<>>
        ELSE LET end == ChunkEnd(text, size, start)
             IN  <<[from |-> start, to |-> end]>> \o from[end]
  IN  from[0]

RagChunks(text, size) ==
  IF Advances(text, size) THEN [ends |-> TRUE, chunks |-> Chunks(text, size)]
  ELSE [ends |-> FALSE, chunks |-> <<>>]

(* str.strip, of the text between two positions.                           *)
Stripped(text, from, to) ==
  LET ink == {i \in from .. to - 1 : text[i + 1] \notin Blank}
  IN  IF ink = {} THEN [from |-> from, to |-> from]
      ELSE [from |-> Min(ink), to |-> Max(ink) + 1]

(* Faulty variant: an overlap below 0 is taken as it is.                   *)
StepWithGaps(size, overlap) == Max({1, Max({1, size}) - overlap})

(* How far apart the episodes begin: always on, and never past a gap.      *)
StepOf(size, overlap) == Max({1, Max({1, size}) - Max({0, overlap})})

(* chunk_text of the episodes: a blank chunk is dropped.                   *)
EpisodeChunks(text, size, overlap) ==
  LET step == StepOf(size, overlap)
      all == [i \in 1 .. (Len(text) + step - 1) \div step |->
                LET from == (i - 1) * step
                IN  Stripped(text, from, Min({from + Max({1, size}), Len(text)}))]
  IN  Those(all, {c \in ToSet(all) : c.to > c.from})

Strip(text) == LET s == Stripped(text, 0, Len(text)) IN Slice(text, s.from, s.to)

-----------------------------------------------------------------------------
NotBlank(text) == Strip(text) # <<>>
NotEmpty(texts) == Those(texts, ToSet(texts) \ {<<>>})
StrippedOf(texts) == NotEmpty([i \in DOMAIN texts |-> Strip(texts[i])])

(* The beginning of a text that fits, its blanks at the end cut off.       *)
CutTo(text, left) == Strip(Slice(text, 0, Min({left, Len(text)})))

Take(acc, text) ==
  IF acc.left = 0 THEN acc
  ELSE [evidence |-> Append(acc.evidence, CutTo(text, acc.left)),
        left |-> acc.left - Len(CutTo(text, acc.left))]

(* _build_upload_evidence: the files, or the seed text if all are blank.   *)
UploadSources(files, seed) ==
  IF StrippedOf(files) # <<>> THEN StrippedOf(files) ELSE StrippedOf(<<seed>>)

UploadEvidence(files, seed, budget) ==
  FoldLeft(Take, [evidence |-> <<>>, left |-> budget], UploadSources(files, seed)).evidence

(* _collect_topic_evidence: a hit is its title, its snippet and the        *)
(* summary scraped of it; what is not blank is joined.  Every hit becomes  *)
(* a reference, evidence or not.                                           *)
TopicEvidence(hits, most) ==
  LET taken == Slice(hits, 0, Min({most, Len(hits)}))
  IN  [references |-> Len(taken),
       evidence |-> NotEmpty([i \in DOMAIN taken |-> StrippedOf(taken[i])])]

(* _build_polymarket_evidence: the summary, or else what there is of the   *)
(* title, the description and the outcomes.                                *)
PolymarketEvidence(event) ==
  IF NotBlank(event.summary) THEN <<Strip(event.summary)>> ELSE StrippedOf(event.parts)

-----------------------------------------------------------------------------
SumOfLengths(texts) == FoldLeft(LAMBDA n, t : n + Len(t), 0, texts)

(* The chunks of GraphRAG are the text, cut into pieces of 1..size         *)
(* characters, where a piece that could be longer ends with a separator;   *)
(* but there is no end of them when the size is 0.                         *)
RagChunksCover(text, size, answer) ==
  LET cs == answer.chunks
      EndsAtBreak(c) == \E i \in DOMAIN Separators :
        LET sep == Separators[i]
        IN  c.to - Len(sep) > c.from /\ Slice(text, c.to - Len(sep), c.to) = sep
  IN  /\ answer.ends <=> size > 0 \/ text = <<>>
      /\ answer.ends /\ text # <<>> =>
           /\ cs[1].from = 0 /\ Last(cs).to = Len(text)
           /\ \A i \in DOMAIN cs : cs[i].to - cs[i].from \in 1..size
           /\ \A i \in 1 .. Len(cs) - 1 :
                /\ cs[i].to = cs[i+1].from
                /\ cs[i].to - cs[i].from = size \/ EndsAtBreak(cs[i])

(* The episodes of a build hold every character that is no blank, in       *)
(* order, none of them blank at an end or too long, and two neighbours     *)
(* share no more than the overlap, whatever size and overlap were asked    *)
(* for.                                                                    *)
EpisodesCover(text, size, overlap, cs) ==
  /\ \A i \in DOMAIN text :
       text[i] \notin Blank => \E k \in DOMAIN cs : i \in cs[k].from + 1 .. cs[k].to
  /\ \A k \in DOMAIN cs :
       /\ cs[k].to - cs[k].from \in 1 .. Max({1, size})
       /\ {text[cs[k].from + 1], text[cs[k].to]} \intersect Blank = {}
  /\ \A k \in 1 .. Len(cs) - 1 :
       /\ cs[k].from =< cs[k+1].from
       /\ cs[k].to - cs[k+1].from =< Max({0, overlap})

(* A piece of a text for which so much is left: all of it, or as much of   *)
(* its beginning as fits, but for blanks.                                  *)
Filled(piece, text, left) ==
  /\ piece # <<>> /\ IsPrefix(piece, text)
  /\ piece # text =>
       left < Len(text) /\ \A p \in Len(piece) + 1 .. left : text[p] \in Blank

(* The evidence of an upload keeps within the budget and gives it away in  *)
(* order: a text is cut only where what is left of the budget ends, blanks *)
(* aside, and is left out only if nothing is left.                         *)
EvidenceWithinBudget(files, seed, budget, evidence) ==
  LET sources == UploadSources(files, seed)
      total == SumOfLengths(evidence)
      Left(i) == budget - SumOfLengths(SubSeq(evidence, 1, i - 1))
  IN  /\ total =< budget
      /\ Len(evidence) =< Len(sources)
      /\ \A i \in DOMAIN evidence : Filled(evidence[i], sources[i], Left(i))
      /\ Len(evidence) < Len(sources) => total = budget
=============================================================================
