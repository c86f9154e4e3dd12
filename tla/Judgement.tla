------------------------------- MODULE Judgement -------------------------------
(***************************************************************************)
(* A fact under verification (verify/pipeline.py, admissibility.py,        *)
(* confidence.py): a first citation goes through the stages of Verdicts,   *)
(* further ones bring in whatever verdict they come to, and after each the *)
(* fact is decided.                                                        *)
(***************************************************************************)
EXTENDS Verdicts

CONSTANTS
    Cases,        \* bound: what the stages may find of the first citation
    Dated,        \* the sources that document the version the fact claims
    MaxCitations  \* bound: citations of the fact

ASSUME CasesAssumption == Cases \subseteq Case

VARIABLES
    claim,        \* what the fact claims: since a version, the absence of a feature
    first,        \* the case of the first citation, while it is the only one
    pairs         \* the verdicts so far

judgementVars == <<claim, first, pairs>>

Claim == [hasSince : BOOLEAN, absent : BOOLEAN]

JudgementOK ==
    /\ claim \in Claim
    /\ first = NoValue \/ first.hasSince = claim.hasSince
    /\ pairs \subseteq Pair

JudgementInit == claim \in Claim /\ first = NoValue /\ pairs = {}

\* since_status travels with the answer that stands; the early ends have none.
SinceOf(c) ==
    IF Stage0(c) = "go on" /\ c.withinCap /\ c.ingested /\ c.resolves /\ QuoteStage(c) # "absent"
    THEN Stage3(c).since ELSE NoValue

VerifyFirst(s, c) ==
    /\ c.hasSince = claim.hasSince /\ c.known = (s \in Known)
    /\ pairs' = {[source |-> s, verdict |-> verify_pair(c), since |-> SinceOf(c)]}
    /\ first' = c
    /\ UNCHANGED claim

\* What verify_pair can answer: the early ends carry no since, and a source without a
\* record has one of them.
Answerable(p) ==
    /\ p.source \notin Known => p.verdict = "source-unavailable"
    /\ p.verdict \in {"source-unavailable", "locator-not-found"} => p.since = NoValue

VerifyFurther(p) ==
    /\ Answerable(p)
    /\ pairs # {} /\ Cardinality(pairs) < MaxCitations
    /\ pairs' = pairs \cup {p}
    /\ first' = NoValue
    /\ UNCHANGED claim

JudgementNext ==
    \/ pairs = {} /\ \E s \in Cited, c \in Cases : VerifyFirst(s, c)
    \/ \E p \in Pair : VerifyFurther(p)

-----------------------------------------------------------------------------
Documents == {s \in Cited : s \in Dated}
Verified(ps) == Verification(ps, claim.hasSince, Documents)
Confidence(ps) == derive_confidence(Verified(ps), ps, claim.absent)

-----------------------------------------------------------------------------
(* Properties. *)

\* Confidence high is verified support by two sources the records prove independent, one
\* of them of tier A or B (confidence.py:11), whatever else the citations came to.
HighNeedsTwo ==
    Confidence(pairs) = "high" =>
        /\ Verified(pairs) = "verified"
        /\ \E p, q \in pairs :
              /\ Supports(p) /\ Supports(q) /\ Backs(p)
              /\ <<p.source, q.source>> \in Independent

\* A verdict that a source contradicts the claim mints a contradiction, so it never rests
\* on the primary model alone: a second model has read the passage too (tiering.py:12).
ConflictsAreReread ==
    first # NoValue /\ (\E p \in pairs : p.verdict = "contradicted") =>
        \/ fold_assertions(first.escalated.assertions) = "contradicted"
        \/ first.mandatory /\ fold_assertions(first.second.assertions) = "contradicted"

\* What is admitted went through the whole ladder: an ingested source, a locator that
\* resolves, a quote that is there, and an answer that supports every assertion of a
\* decomposition with a core; only the record's own existence is answered without it.
SupportIsEarned ==
    first # NoValue /\ (\E p \in pairs : Supports(p)) =>
        \/ first.known /\ first.registry
        \/ /\ first.known /\ first.shaped /\ first.declared /\ first.ingested /\ first.resolves
           /\ first.quoted => first.withinCap /\ QuoteStage(first) # "absent"
           /\ \E out \in {first.primary, first.escalated, first.second} :
                 Core(out.assertions) # {} /\ AllSupported(out.assertions)

\* What the folds make of a fact is earned at every rank, whichever models answered and
\* whatever the further citations came to: support, high confidence, a contradiction.
AdmissionEarned == JudgementOK /\ SupportIsEarned /\ HighNeedsTwo /\ ConflictsAreReread
=============================================================================
