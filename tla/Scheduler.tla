------------------------------ MODULE Scheduler ------------------------------
(***************************************************************************)
(* The scheduler's arithmetic: the score of a runtime and model for a      *)
(* slot, what was learned from earlier outcomes, and the order of the      *)
(* candidates.  A pipeline run reads the scores from the hub once and asks *)
(* for the candidates of each slot.                                        *)
(*                                                                         *)
(* The code's f64 are multiples of 1/Unit here.  Unit makes every quotient *)
(* below exact for records of up to nine outcomes, up to two capabilities  *)
(* and three halvings, so no result is rounded.                            *)
(*                                                                         *)
(* A definition ending in Bug is a mistake the code could have had.        *)
(***************************************************************************)
EXTENDS Integers, Sequences, FiniteSets

CONSTANT NoModel        \* None, as a preference's model

Unit == 20160000
Percent(p) == p * (Unit \div 100)
Hundredth(w, p) == w * p * (Unit \div 10000)      \* w percent of p percent

RuntimeType == {"claude_code", "codex", "gemini", "copilot", "claudex"}
SchedulerProfile == {"quality_first", "budget_first", "speed_first"}
ModelTier == {"free", "cheap", "standard", "premium", "local", "unknown"}

\* A slot: the capabilities it requires, the preferences in their order.
WorkflowSlot(slot) ==
    /\ Len(slot.required_capabilities) \in Nat
    /\ DOMAIN slot.required_capabilities = 1 .. Len(slot.required_capabilities)
    /\ Len(slot.preferred) \in Nat
    /\ DOMAIN slot.preferred = 1 .. Len(slot.preferred)
    /\ \A i \in DOMAIN slot.preferred : slot.preferred[i].runtime \in RuntimeType
-----------------------------------------------------------------------------
(* The parts of a score, in percent. *)
CapabilityMatch(slot) == IF slot.required_capabilities = <<>> THEN 100 ELSE 75

RuntimeQuality(runtime) ==
    CASE runtime \in {"claude_code", "codex"} -> 100
      [] runtime \in {"gemini", "copilot"}    -> 75
      [] runtime = "claudex"                  -> 65

CostEfficiency(model) ==
    IF model = NoModel THEN 50
    ELSE CASE model.tier \in {"free", "local"} -> 100
           [] model.tier = "cheap"             -> 85
           [] model.tier = "standard"          -> 65
           [] model.tier = "premium"           -> 35
           [] OTHER                            -> 50

ContextFit(model) ==
    IF model = NoModel \/ model.context_window = 0 THEN 70
    ELSE IF model.context_window >= 128000 THEN 100 ELSE 75

Latency(runtime) == IF runtime = "claudex" THEN 80 ELSE 70

BaseScore(slot, runtime, model) ==
    Hundredth(30, CapabilityMatch(slot)) + Hundredth(25, RuntimeQuality(runtime))
      + Hundredth(20, CostEfficiency(model)) + Hundredth(15, ContextFit(model))
      + Hundredth(10, Latency(runtime))

ProfileBoost(runtime, model, profile) ==
    CASE profile = "budget_first"  -> Hundredth(10, CostEfficiency(model))
      [] profile = "speed_first"   -> Hundredth(10, Latency(runtime))
      [] profile = "quality_first" -> Hundredth(10, RuntimeQuality(runtime))
-----------------------------------------------------------------------------
(* What was learned.  A record has its counts and its age in days.          *)
Outcomes(record) == record.success_count + record.failure_count

\* delta, halved so many times.
Halved(delta, times) ==
    LET half[i \in 0 .. times] == IF i = 0 THEN delta ELSE half[i - 1] \div 2
    IN  half[times]

\* Halved for every seven days once the record is older than seven.
Decayed(delta, record) ==
    IF record.age > 7 THEN Halved(delta, record.age \div 7) ELSE delta

\* Delta, had the rate not been centred.
DeltaBug(record) ==
    Decayed((2 * record.success_count * (Unit \div 10)) \div Outcomes(record), record)

\* Delta, had the failures been counted for successes.
DeltaOfFailuresBug(record) ==
    LET n == Outcomes(record)
    IN  Decayed(((2 * record.failure_count - n) * (Unit \div 10)) \div n, record)

\* (rate - 0.5) * 0.20, with the decay of time.
Delta(record) ==
    LET n == Outcomes(record)
    IN  Decayed(((2 * record.success_count - n) * (Unit \div 10)) \div n, record)

Total(deltas, n) ==
    LET total[i \in 0 .. n] == IF i = 0 THEN 0 ELSE total[i - 1] + deltas[i]
    IN  total[n]

\* The mean over the slot's capabilities that have five outcomes.
LearnedBoost(scores, runtime, model, capabilities) ==
    LET key(i)  == <<runtime, model.id, capabilities[i]>>
        counted == {i \in DOMAIN capabilities :
                       key(i) \in DOMAIN scores /\ Outcomes(scores[key(i)]) >= 5}
        deltas  == [i \in DOMAIN capabilities |->
                       IF i \in counted THEN Delta(scores[key(i)]) ELSE 0]
    IN  IF counted = {} THEN 0
        ELSE Total(deltas, Len(capabilities)) \div Cardinality(counted)

LearnedDelta(scores, slot, runtime, model) ==
    IF model = NoModel THEN 0
    ELSE LearnedBoost(scores, runtime, model, slot.required_capabilities)

Score(scores, slot, runtime, model, profile) ==
    BaseScore(slot, runtime, model) + ProfileBoost(runtime, model, profile)
      + LearnedDelta(scores, slot, runtime, model)
-----------------------------------------------------------------------------
(* The candidates.  models is a sequence, and a preference names a model by *)
(* its id or none; a model that is not in the list counts as none.          *)
ModelOf(models, id) ==
    LET found == {i \in DOMAIN models : models[i].id = id}
    IN  IF found = {} THEN NoModel
        ELSE models[CHOOSE i \in found : \A j \in found : i <= j]

PreferenceScore(scores, models, slot, p, profile) ==
    Score(scores, slot, p.runtime, ModelOf(models, p.model), profile)

\* What a model's source is parsed to, a runtime the code does not know among them.
SourceRuntime(source) == IF source \in RuntimeType THEN source ELSE "claude_code"

\* The first preference with the highest score; without preferences, the first
\* model of the list; without models, no assignment.
Assign(scores, models, slot, profile) ==
    LET ps == slot.preferred
        score == [i \in DOMAIN ps |-> PreferenceScore(scores, models, slot, ps[i], profile)]
        best == {i \in DOMAIN ps : \A j \in DOMAIN ps : score[j] <= score[i]}
    IN  IF ps # <<>> THEN <<ps[CHOOSE i \in best : \A j \in best : i <= j]>>
        ELSE IF models # <<>>
        THEN <<[runtime |-> SourceRuntime(models[1].runtime_source), model |-> models[1].id]>>
        ELSE <<>>

\* Candidates, had the sort put the later of two equals first.
CandidatesBug(scores, models, slot, profile) ==
    LET ps == slot.preferred
        score == [i \in DOMAIN ps |-> PreferenceScore(scores, models, slot, ps[i], profile)]
        Precedes(i, j) == score[i] > score[j] \/ (score[i] = score[j] /\ i > j)
        place(i) == 1 + Cardinality({j \in DOMAIN ps : Precedes(j, i)})
    IN  IF ps = <<>> THEN Assign(scores, models, slot, profile)
        ELSE [n \in DOMAIN ps |-> ps[CHOOSE i \in DOMAIN ps : place(i) = n]]

\* The preferences with the highest score first, those that score the same in
\* their order; the one assignment when there are none.
Candidates(scores, models, slot, profile) ==
    LET ps == slot.preferred
        score == [i \in DOMAIN ps |-> PreferenceScore(scores, models, slot, ps[i], profile)]
        Precedes(i, j) == score[i] > score[j] \/ (score[i] = score[j] /\ i < j)
        place(i) == 1 + Cardinality({j \in DOMAIN ps : Precedes(j, i)})
    IN  IF ps = <<>> THEN Assign(scores, models, slot, profile)
        ELSE [n \in DOMAIN ps |-> ps[CHOOSE i \in DOMAIN ps : place(i) = n]]
=============================================================================
