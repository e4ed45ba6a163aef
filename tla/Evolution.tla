------------------------------ MODULE Evolution ------------------------------
(***************************************************************************)
(* What one simulation hands to the next (evolution/): memories marked in  *)
(* MongoDB, read back by importance, ranked, and put into a prompt; and    *)
(* predictions that are scored when a simulation is over.                  *)
(***************************************************************************)
EXTENDS Integers, SequencesExt, FiniteSets, Selection

CONSTANTS Most, Utc

ASSUME MostIsANumber == Most \in Nat

(* mark_cross_sim_available: one document for each id that was given,      *)
(* whether it is marked already or not; insert_many stores the first n of  *)
(* them when it fails, all when only its reply is lost.                    *)
Mark(col, docs, n) == col \o SubSeq(docs, 1, n)

(* In descending order of key; a sort keeps the order of equals, and so    *)
(* does the database of this model.  At n is whom n - 1 others precede.    *)
Preceding(s, key, i) ==
  {j \in DOMAIN s : key[s[j]] > key[s[i]] \/ (key[s[j]] = key[s[i]] /\ j < i)}

Descending(s, key) ==
  [n \in DOMAIN s |-> s[CHOOSE i \in DOMAIN s : Cardinality(Preceding(s, key, i)) = n - 1]]

MostImportant(s) == Descending(s, [m \in ToSet(s) |-> m.importance])

Limited(s, n) == IF n = 0 THEN s ELSE SubSeq(s, 1, IF n < Len(s) THEN n ELSE Len(s))

(* The filters that are given, all of them; the most important first.      *)
QueryHistorical(col, agent, topic, sims, limit) ==
  LET fitting == {m \in ToSet(col) : /\ m.agent = agent
                                     /\ topic = "any" \/ topic \in ToSet(m.topics)
                                     /\ sims = {} \/ m.sim \in sims}
  IN  Limited(MostImportant(Those(col, fitting)), limit)

(* The tags of the memories at some places, as often as they have them: a  *)
(* tag is the place of a memory and its own in the list of that memory.    *)
Tags(memories, places) == UNION {{<<i, j>> : j \in DOMAIN memories[i].topics} : i \in places}
Tag(memories, p) == memories[p[1]].topics[p[2]]

TopicDistribution(memories) ==
  LET tags == Tags(memories, DOMAIN memories)
  IN  [t \in {Tag(memories, p) : p \in tags} |->
         Cardinality({p \in tags : Tag(memories, p) = t})]

(* get_simulation_summary, of a simulation that is registered.             *)
SimulationSummary(col, registered, sim) ==
  LET memories == MostImportant(Those(col, {m \in ToSet(col) : m.sim = sim}))
  IN  IF sim \notin registered THEN [found |-> FALSE]
      ELSE [found |-> TRUE, count |-> Len(memories), top |-> Limited(memories, 10),
            topics |-> TopicDistribution(memories)]

(* get_evolution_summary: of the hundred most important memories.          *)
EvolutionSummary(col, agent) ==
  LET memories == QueryHistorical(col, agent, "any", {}, 100)
  IN  [sims |-> {memories[i].sim : i \in DOMAIN memories}, total |-> Len(memories),
       topics |-> TopicDistribution(memories)]

-----------------------------------------------------------------------------
(* compute_time_decay, with ages in half-lives.                            *)
TimeDecay(age) ==
  LET left[n \in 0..age] == IF n = 0 THEN Most ELSE left[n-1] \div 2
  IN  IF age =< 0 THEN Most ELSE left[age]

Score(m, relevance, w) ==
  w.relevance * relevance[m.id] + w.decay * TimeDecay(m.age) + w.importance * m.importance

(* rank_memories raises at a date without a time zone: it is subtracted    *)
(* from one with.                                                          *)
Subtractable(memories) == \A i \in DOMAIN memories : memories[i].zone = Utc

RankMemories(memories, relevance, w) ==
  Descending(memories, [m \in ToSet(memories) |-> Score(m, relevance, w)])

(* Faulty variant: no more candidates than lines.                          *)
InjectNarrow(col, agent, relevance, w, k) ==
  LET raw == QueryHistorical(col, agent, "any", {}, k)
  IN  [raised |-> ~ Subtractable(raw),
       lines |-> IF Subtractable(raw) THEN RankMemories(raw, relevance, w) ELSE <<>>]

(* inject_historical_memory: the 3 k most important, of which the k best;  *)
(* without a search every relevance is 0.                                  *)
Inject(col, agent, relevance, w, k) ==
  LET raw == QueryHistorical(col, agent, "any", {}, 3 * k)
  IN  [raised |-> ~ Subtractable(raw),
       lines |-> IF Subtractable(raw) THEN SubSeq(RankMemories(raw, relevance, w), 1,
                                             IF k < Len(raw) THEN k ELSE Len(raw))
                 ELSE <<>>]

-----------------------------------------------------------------------------
(* compute_accuracy: a prediction without content is not scored, one whose *)
(* scoring fails scores 0.  Scores are 0..10, and 7 is accurate.           *)
Scored(predictions) ==
  Those(predictions, {p \in ToSet(predictions) : p.content = "text"})

Total(scores) == FoldLeft(LAMBDA n, x : n + x, 0, scores)

ComputeAccuracy(predictions, outcomes) ==
  LET detail == IF outcomes = 0 THEN <<>> ELSE
                  [i \in DOMAIN Scored(predictions) |-> Scored(predictions)[i].score]
  IN  [predictions |-> Len(predictions), detail |-> detail,
       accurate |-> Cardinality({i \in DOMAIN detail : detail[i] >= 7}),
       total |-> Total(detail)]

(* generate_feedback: by the average, 0 for want of one.                   *)
Feedback(accuracy) ==
  LET n == IF accuracy.detail = <<>> THEN 1 ELSE Len(accuracy.detail)
  IN  IF accuracy.total < 4 * n THEN "low" ELSE IF accuracy.total < 7 * n THEN "moderate" ELSE "well"

(* validate_predictions: no record of a simulation without predictions, or *)
(* of one whose predictions could not be had.                              *)
ValidatePredictions(predictions, outcomes) ==
  IF predictions = <<>> THEN [recorded |-> 0, feedback |-> "none", detail |-> <<>>]
  ELSE LET accuracy == ComputeAccuracy(predictions, outcomes)
       IN  [recorded |-> 1, feedback |-> Feedback(accuracy), detail |-> accuracy.detail]

-----------------------------------------------------------------------------
Times(s, x) == Cardinality({i \in DOMAIN s : s[i] = x})

(* An injection that answers gives the k best of its candidates, in order, *)
(* and no memory that is less important than a candidate is one; with up   *)
(* to 3 k memories it misses none that is better than what it gives.  A    *)
(* memory shows twice only if it was marked twice.  It fails exactly when  *)
(* it has a candidate with a date as MongoDB gives it back.                *)
InjectionIsBest(col, agent, relevance, w, k, answer) ==
  LET own == Those(col, {m \in ToSet(col) : m.agent = agent})
      given == ToSet(answer.lines)
      left == {m \in ToSet(own) : Times(answer.lines, m) < Times(own, m)}
  IN  IF answer.raised THEN answer.lines = <<>> /\ \E m \in ToSet(own) : m.zone # Utc
      ELSE /\ Len(answer.lines) = IF k < Len(own) THEN k ELSE Len(own)
           /\ given \subseteq ToSet(own)
           /\ \A m \in given : Times(answer.lines, m) =< Times(own, m)
           /\ \A i \in 1 .. Len(answer.lines) - 1 :
                Score(answer.lines[i], relevance, w) >= Score(answer.lines[i+1], relevance, w)
           /\ \A m \in given, x \in left :
                \/ Score(m, relevance, w) >= Score(x, relevance, w)
                \/ Len(own) > 3 * k /\ x.importance =< m.importance

(* A simulation has a summary if and only if it is registered, whatever is *)
(* marked for it.  The summary counts each of its memories and each of     *)
(* their tags as often as it was marked, and shows the ten most important, *)
(* none of them more often than it was marked.  The simulations of an      *)
(* agent are such as it has a memory of.                                   *)
SummariesAgree(col, registered, agent, sim, answer) ==
  LET places == {i \in DOMAIN col : col[i].sim = sim}
      tags == Tags(col, places)
      shown(i) == Times(answer.top, col[i])
  IN  /\ answer.found <=> sim \in registered
      /\ answer.found =>
           /\ answer.count = Cardinality(places)
           /\ DOMAIN answer.topics = {Tag(col, p) : p \in tags}
           /\ \A t \in DOMAIN answer.topics :
                answer.topics[t] = Cardinality({p \in tags : Tag(col, p) = t})
           /\ Len(answer.top) = IF answer.count < 10 THEN answer.count ELSE 10
           /\ \A n \in DOMAIN answer.top : \E i \in places : answer.top[n] = col[i]
           /\ \A n \in 1 .. Len(answer.top) - 1 :
                answer.top[n].importance >= answer.top[n+1].importance
           /\ \A i \in places :
                /\ shown(i) =< Times(col, col[i])
                /\ shown(i) < Times(col, col[i]) =>
                     \A n \in DOMAIN answer.top : answer.top[n].importance >= col[i].importance
      /\ \A s \in EvolutionSummary(col, agent).sims :
           \E i \in DOMAIN col : col[i].sim = s /\ col[i].agent = agent

(* Feedback is good only where a prediction was accurate, always where all *)
(* were, and low where there was nothing to compare with.                  *)
FeedbackIsEarned(predictions, outcomes, answer) ==
  LET accurate == {i \in DOMAIN answer.detail : answer.detail[i] >= 7}
  IN  /\ Len(answer.detail) =< Len(predictions)
      /\ answer.feedback = "well" => accurate # {}
      /\ answer.detail # <<>> /\ accurate = DOMAIN answer.detail => answer.feedback = "well"
      /\ predictions # <<>> /\ outcomes = 0 => answer.feedback = "low"
      /\ answer.recorded = 0 <=> predictions = <<>>
=============================================================================
