---------------------------- MODULE ThinkerRequests ----------------------------
(***************************************************************************)
(* From what a caller of Thinker sends to the evidence a job starts with:  *)
(* the parsing of a request (thinker/api.py), the reading of files         *)
(* (thinker/file_ingest.py), the normalisation of a Polymarket event and   *)
(* of search results (thinker/providers).  A text is a sequence of         *)
(* characters; what is absent is the empty text.                           *)
(***************************************************************************)
EXTENDS DocumentText

(* Joined, without what is put between the parts.                          *)
Joined(texts) == FoldLeft(LAMBDA acc, t : acc \o t, <<>>, texts)

(* The first alternative that says anything: _first_text, and "or".        *)
FirstIn(texts) == IF texts = <<>> THEN <<>> ELSE texts[1]
FirstText(texts) == FirstIn(StrippedOf(texts))
FirstGiven(texts) == FirstIn(NotEmpty(texts))

-----------------------------------------------------------------------------
Supported == {".pdf", ".md", ".markdown", ".txt"}

Readable(file) == file.suffix \in Supported /\ (file.suffix = ".pdf" => file.sound)

(* A PDF is its pages that are not blank, with a blank line between two; a *)
(* text is decoded as it is.                                               *)
ExtractText(file) ==
  IF file.suffix # ".pdf" THEN Joined(file.pages)
  ELSE FoldLeft(LAMBDA acc, page : IF acc = <<>> THEN page ELSE acc \o <<"\n", "\n">> \o page,
                <<>>, StrippedOf(file.pages))

Refused(code) == [code |-> code]
Accepted(mode, seed, texts, event) ==
  [code |-> 200, mode |-> mode, seed |-> seed, texts |-> texts, event |-> event]

(* What the request's model requires: a direction of research, and a name  *)
(* of every file that comes as JSON.                                       *)
Complete(r) == r.direction /\ (r.body = "json" => \A i \in DOMAIN r.files : r.files[i].named)

(* An upload needs a text, an event must be one and not the empty object.  *)
ValidateJobCreateRequest(r, texts) ==
  IF \/ ~ Complete(r)
     \/ r.mode \notin {"topic_only", "upload", "polymarket"}
     \/ r.event.json = "no object"
     \/ r.mode = "upload" /\ StrippedOf(texts \o <<r.seed>>) = <<>>
     \/ r.mode = "polymarket" /\ r.event.json \in {"none", "empty"}
  THEN Refused(422)
  ELSE Accepted(r.mode, r.seed, texts, r.event)

(* The files of a form are read for an upload only; JSON brings the texts  *)
(* themselves, for any mode.                                               *)
ParseJobCreateRequest(r) ==
  LET read == IF r.mode = "upload" THEN r.files ELSE <<>>
      texts == [i \in DOMAIN read |-> ExtractText(read[i])]
  IN  CASE r.body = "broken" -> Refused(400)
        [] r.body = "json" ->
             ValidateJobCreateRequest(r, [i \in DOMAIN r.files |-> Joined(r.files[i].pages)])
        [] r.body = "form" /\ r.event.json = "broken" -> Refused(400)
        [] r.body = "form" /\ \E i \in DOMAIN read : ~Readable(read[i]) -> Refused(400)
        [] OTHER -> ValidateJobCreateRequest(r, texts)

-----------------------------------------------------------------------------
(* _normalize_outcomes: of a list, of JSON text or of one outcome.         *)
NormalizeOutcomes(outcomes) == StrippedOf(outcomes)

(* A market without a question is left out, its outcomes with it.          *)
MarketSummaries(markets) ==
  LET Said(m) == FirstText(<<m.question, m.title>>) \o Joined(NormalizeOutcomes(m.outcomes))
      asked == Those(markets, {m \in ToSet(markets) : FirstText(<<m.question, m.title>>) # <<>>})
  IN  [i \in DOMAIN asked |-> Said(asked[i])]

NormalizeEvent(e) ==
  LET title == FirstText(<<e.title, e.question, e.name>>)
      description == FirstText(<<e.description, e.subtitle>>)
  IN  [summary |-> Joined(<<title, description>> \o MarketSummaries(e.markets)),
       parts |-> <<title, description, Joined(NormalizeOutcomes(e.outcomes))>>]

(* A result without an address is left out; one without a title has its    *)
(* address for a title.                                                    *)
SearchHits(results) ==
  LET Address(r) == FirstGiven(<<r.url, r.link>>)
      found == Those(results, {r \in ToSet(results) : Address(r) # <<>>})
  IN  [i \in DOMAIN found |->
         [title |-> FirstGiven(<<found[i].title, found[i].name, Address(found[i])>>),
          snippet |-> FirstGiven(<<found[i].snippet, found[i].description>>)]]

(* What the job of an accepted request goes to the LLM with.               *)
RequestEvidence(job, budget) ==
  CASE job.mode = "upload" -> UploadEvidence(job.texts, job.seed, budget)
    [] job.mode = "polymarket" -> PolymarketEvidence(NormalizeEvent(job.event))
    [] OTHER -> <<>>

-----------------------------------------------------------------------------
Says(text) == \E i \in DOMAIN text : text[i] \notin Blank
Ink(text) == Those(text, ToSet(text) \ Blank)
SaysAny(texts) == \E i \in DOMAIN texts : Says(texts[i])

(* A request that can be read is accepted if and only if it has all that   *)
(* is required and, for an upload, anything to say in its files or its     *)
(* seed text; an event must be there where one is asked for.  The job of   *)
(* an upload has every character of the files to go by, and the evidence   *)
(* of an event is nothing only if neither the event nor the question of    *)
(* one of its markets says anything.                                       *)
RequestIsHeard(r, budget, job) ==
  LET given == \/ Says(r.seed)
               \/ \E i \in DOMAIN r.files : SaysAny(r.files[i].pages)
      told == \/ SaysAny(<<r.event.title, r.event.question, r.event.name, r.event.description,
                           r.event.subtitle>> \o r.event.outcomes)
              \/ \E i \in DOMAIN r.event.markets :
                   SaysAny(<<r.event.markets[i].question, r.event.markets[i].title>>)
      unread == \/ r.body = "broken"
                \/ r.body = "form" /\ r.event.json = "broken"
                \/ r.body = "form" /\ r.mode = "upload" /\ \E i \in DOMAIN r.files : ~ Readable(r.files[i])
      proper == /\ Complete(r) /\ r.event.json # "no object"
                /\ \/ r.mode = "topic_only"
                   \/ r.mode = "upload" /\ given
                   \/ r.mode = "polymarket" /\ r.event.json \notin {"none", "empty"}
  IN  /\ job.code = IF unread THEN 400 ELSE IF proper THEN 200 ELSE 422
      /\ job.code = 200 =>
           LET evidence == RequestEvidence(job, budget)
           IN  /\ \A i \in DOMAIN evidence : NotBlank(evidence[i])
               /\ job.mode = "upload" =>
                    /\ evidence # <<>>
                    /\ \A i \in DOMAIN r.files : Ink(job.texts[i]) = Ink(Joined(r.files[i].pages))
               /\ job.mode = "polymarket" => (evidence # <<>> <=> told)
=============================================================================
