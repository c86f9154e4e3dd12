------------------------------- MODULE Verdicts -------------------------------
(***************************************************************************)
(* The rules of verification (verify/verdicts.py, entailment.py,           *)
(* tiering.py, admissibility.py, confidence.py): from what the models say  *)
(* of one claim and one citation to the verdict of the pair, and from the  *)
(* verdicts of a fact's pairs to its verification and its confidence.      *)
(*                                                                         *)
(* The code folds lists; every fold asks only which values occur, so a     *)
(* decomposition and a fact's pairs are sets here.                         *)
(***************************************************************************)
EXTENDS Naturals, FiniteSets

CONSTANTS
    Cited,         \* source ids that citations name
    Known,         \* those with a committed record
    Tier,          \* per known source, its tier
    Independent,   \* pairs of known sources that the records prove independent
    NoValue        \* no verdict, no since status, no confidence

ASSUME KnownAssumption == Known \subseteq Cited
ASSUME TierAssumption == Tier \in [Known -> {"A", "B", "C", "D"}]
ASSUME IndependentAssumption ==
    \A p \in Independent : p \in Known \X Known /\ p[1] # p[2] /\ <<p[2], p[1]>> \in Independent
ASSUME NoValueAssumption == NoValue \notin {"since-supported", "as-of-supported",
                                            "low", "medium", "high"}

PairVerdicts == {"source-unavailable", "locator-not-found", "supported", "partial",
                 "unsupported", "contradicted"}
SinceStatuses == {"since-supported", "as-of-supported", NoValue}

-----------------------------------------------------------------------------
(* One pair. *)

Assertion == [kind : {"presence", "syntax-form", "since", "qualifier"},
              status : {"supported", "not-supported", "contradicted"}]

\* EntailmentOut: the model never states a verdict of its own.
Answer == [assertions : SUBSET Assertion, since : SinceStatuses]

\* What the stages find of one citation of one claim, and what each model answers of it.
Case == [known : BOOLEAN, registry : BOOLEAN, shaped : BOOLEAN, declared : BOOLEAN,
         withinCap : BOOLEAN, ingested : BOOLEAN, resolves : BOOLEAN, quoted : BOOLEAN,
         ratio : {"high", "middle", "low"}, adjudged : {"ocr-noise", "fabrication"},
         elsewhere : BOOLEAN, sampled : BOOLEAN, mandatory : BOOLEAN, hasSince : BOOLEAN,
         primary : Answer, escalated : Answer, second : Answer]

Core(as) == {a \in as : a.kind = "presence"}
AllSupported(as) == \A a \in as : a.status = "supported"
Contradicts(as) == \E a \in as : a.status = "contradicted"

fold_assertions(as) ==
    CASE as = {} -> "unsupported"
      [] as # {} /\ Contradicts(as) -> "contradicted"
      [] as # {} /\ ~ Contradicts(as) /\ (Core(as) = {} \/ ~ AllSupported(Core(as))) ->
             "unsupported"
      [] OTHER -> IF AllSupported(as) THEN "supported" ELSE "partial"

is_inconsistent(out, hasSince) ==
    LET ofSince == {a \in out.assertions : a.kind = "since"}
    IN  \/ Core(out.assertions) = {}
        \/ hasSince /\ (ofSince = {} \/ (~ Contradicts(ofSince) /\ out.since = NoValue))
        \/ ~ hasSince /\ (ofSince # {} \/ out.since # NoValue)

\* Mutant: a contradiction stands as the primary model told it.
EscalateUnlessContradicted(out, hasSince, quoteMatched) ==
    LET verdict == fold_assertions(out.assertions)
    IN  \/ verdict = "partial"
        \/ verdict # "contradicted" /\ is_inconsistent(out, hasSince)
        \/ verdict = "unsupported" /\ quoteMatched

needs_escalation(out, hasSince, quoteMatched) ==
    LET verdict == fold_assertions(out.assertions)
    IN  \/ verdict \in {"partial", "contradicted"}
        \/ is_inconsistent(out, hasSince)
        \/ verdict = "unsupported" /\ quoteMatched

\* check_quote by the similarity ratio: below the band, inside it, above it.
CheckQuote(ratio) ==
    CASE ratio = "high" -> "pass" [] ratio = "middle" -> "adjudicate" [] ratio = "low" -> "mismatch"

\* Stage 2: no quote, a quote the passage or the whole source has, or none of either.
QuoteStage(c) ==
    LET check == CheckQuote(c.ratio)
        matches == check = "pass" \/ (check = "adjudicate" /\ c.adjudged = "ocr-noise")
    IN  CASE ~ c.quoted -> "none"
          [] c.quoted /\ matches -> "matched"
          [] c.quoted /\ ~ matches -> IF c.elsewhere THEN "elsewhere" ELSE "absent"

\* Which of the models' answers stands: the primary's, the escalated one, or a second
\* opinion that disagrees while second opinions are mandatory.
Stage3(c) ==
    LET primary == fold_assertions(c.primary.assertions)
        matched == QuoteStage(c) \in {"matched", "elsewhere"}
    IN  IF needs_escalation(c.primary, c.hasSince, matched) THEN c.escalated
        ELSE IF primary = "supported" /\ c.sampled /\ c.mandatory
                    /\ fold_assertions(c.second.assertions) # primary
             THEN c.second
             ELSE c.primary

\* run_stage0's refusals and its one pass.
Stage0(c) ==
    CASE ~ c.known -> "source-unavailable"
      [] c.known /\ c.registry -> "supported"
      [] c.known /\ ~ c.registry /\ ~ (c.shaped /\ c.declared) -> "locator-not-found"
      [] OTHER -> "go on"

\* verify_pair: the stages in their order, each able to end the pair.
verify_pair(c) ==
    CASE Stage0(c) # "go on" -> Stage0(c)
      [] Stage0(c) = "go on" /\ ~ c.withinCap -> "unsupported"
      [] Stage0(c) = "go on" /\ c.withinCap /\ ~ c.ingested -> "source-unavailable"
      [] Stage0(c) = "go on" /\ c.withinCap /\ c.ingested /\ ~ c.resolves -> "locator-not-found"
      [] OTHER -> IF QuoteStage(c) = "absent" THEN "unsupported"
                  ELSE fold_assertions(Stage3(c).assertions)

-----------------------------------------------------------------------------
(* One fact: a set of its pairs. *)

Pair == [source : Cited, verdict : PairVerdicts, since : SinceStatuses]

Backs(p) == p.source \in Known /\ Tier[p.source] \in {"A", "B"}
Supports(p) == p.verdict = "supported"
HasBacking(pairs) == \E p \in pairs : Supports(p) /\ Backs(p)

\* The best support of a load-bearing field: 0 none, 1 partial, 2 supported.
BaseSupport(p) == CASE p.verdict = "supported" -> 2 [] p.verdict = "partial" -> 1 [] OTHER -> 0
SinceSupport(p) ==
    CASE p.since = "since-supported" -> 2 [] p.since = "as-of-supported" -> 1 [] OTHER -> 0

fold_verification(pairs, hasSince) ==
    CASE pairs = {} -> "unverified"
      [] pairs # {} /\ ~ HasBacking(pairs) -> "failed"
      [] OTHER -> IF (\E p \in pairs : BaseSupport(p) = 2)
                        /\ (hasSince => \E p \in pairs : SinceSupport(p) = 2)
                  THEN "verified" ELSE "partially-verified"

\* D66: a since that the sources only bound from above must be the version one of them
\* documents; `documents` are the sources that document it.
Eligible(pairs) == {p \in pairs : p.verdict \in {"supported", "partial"} /\ Backs(p)}
AsOfOnly(pairs) ==
    /\ \A p \in Eligible(pairs) : p.since # "since-supported"
    /\ \E p \in Eligible(pairs) : p.since = "as-of-supported"
Bounded(pairs, documents) ==
    \E p \in Eligible(pairs) : p.since = "as-of-supported" /\ p.source \in documents
BreaksBound(pairs, hasSince, documents) ==
    HasBacking(pairs) /\ hasSince /\ AsOfOnly(pairs) /\ ~ Bounded(pairs, documents)

Admissible(pairs, hasSince, documents) ==
    HasBacking(pairs) /\ ~ BreaksBound(pairs, hasSince, documents)

Verification(pairs, hasSince, documents) ==
    IF BreaksBound(pairs, hasSince, documents) THEN "failed" ELSE fold_verification(pairs, hasSince)

Supporting(pairs) == {p.source : p \in {q \in pairs : Supports(q)}} \cap Known
Backing(pairs) ==
    LET strong == {s \in Supporting(pairs) : Tier[s] \in {"A", "B"}}
    IN  IF strong # {} THEN strong ELSE {s \in Supporting(pairs) : Tier[s] = "C"}
Corroborated(pairs) ==
    \E s \in Backing(pairs), t \in Supporting(pairs) : <<s, t>> \in Independent

derive_confidence(verification, pairs, absent) ==
    LET strong == \E s \in Supporting(pairs) : Tier[s] \in {"A", "B"}
        level == IF strong THEN IF Corroborated(pairs) THEN "high" ELSE "medium"
                 ELSE IF Corroborated(pairs) THEN "medium" ELSE "low"
    IN  CASE verification \in {"unverified", "failed"} -> NoValue
          [] verification = "partially-verified" -> "low"
          [] OTHER -> IF Backing(pairs) = {} THEN NoValue
                      ELSE IF absent /\ Cardinality(Supporting(pairs)) = 1 /\ level = "high"
                           THEN "medium" ELSE level

\* Which failure a bounce names: the worst verdict among the pairs.
BouncePriority == <<"contradicted", "unsupported", "partial", "locator-not-found",
                    "source-unavailable">>
Worst(pairs) ==
    LET present == {i \in 1 .. 5 : \E p \in pairs : p.verdict = BouncePriority[i]}
    IN  IF present = {} THEN NoValue
        ELSE BouncePriority[CHOOSE i \in present : \A j \in present : i <= j]

\* The citations that mint a contradiction: only beside a backing that stands.
Minted(pairs, admissible) ==
    IF admissible THEN {p.source : p \in {q \in pairs : q.verdict = "contradicted"}} ELSE {}
=============================================================================
