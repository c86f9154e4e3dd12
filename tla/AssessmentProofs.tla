--------------------------- MODULE AssessmentProofs ---------------------------
(***************************************************************************)
(* Proofs about Judgement and Controversy: what an admission has behind    *)
(* it, for any sources, tiers and cases of a citation; and what the levels *)
(* of a record have behind them, for any record, workers and findings.     *)
(***************************************************************************)
EXTENDS Judgement, Controversy, NaturalsInduction, WellFoundedInduction, TLAPS

(***************************************************************************)
(* Judgement.  The invariant keeps where the one pair of a first citation  *)
(* comes from; the rest is what the rules of Verdicts make of it.          *)
(***************************************************************************)
JudgementSpec == JudgementInit /\ [][JudgementNext]_judgementVars

FirstPair(c, s) == [source |-> s, verdict |-> verify_pair(c), since |-> SinceOf(c)]
FirstHolds ==
    first # NoValue =>
        /\ first \in Case
        /\ \E s \in Cited : first.known = (s \in Known) /\ pairs = {FirstPair(first, s)}
JudgementInv == JudgementOK /\ FirstHolds

\* The verdict of a pair, and its since status, are among the ones there are (verify_pair).
LEMMA VerdictType == ASSUME NEW c \in Case
                     PROVE  /\ verify_pair(c) \in PairVerdicts
                            /\ SinceOf(c) \in SinceStatuses
                            /\ Stage3(c) \in {c.primary, c.escalated, c.second}
<1>1. Stage3(c) \in {c.primary, c.escalated, c.second}
  BY DEF Stage3
<1>2. /\ c.primary \in Answer /\ c.escalated \in Answer /\ c.second \in Answer
      /\ c.known \in BOOLEAN /\ c.registry \in BOOLEAN /\ c.shaped \in BOOLEAN
      /\ c.declared \in BOOLEAN
  BY DEF Case
<1>3. Stage3(c).since \in SinceStatuses
  BY <1>1, <1>2 DEF Answer
<1>4. SinceOf(c) \in SinceStatuses
  BY <1>3 DEF SinceOf, SinceStatuses
<1>5. \A as : fold_assertions(as) \in PairVerdicts
  BY DEF fold_assertions, PairVerdicts
<1>6. Stage0(c) \in PairVerdicts \cup {"go on"}
  BY <1>2 DEF Stage0, PairVerdicts
<1>7. verify_pair(c) \in PairVerdicts
  BY <1>5, <1>6 DEF verify_pair, PairVerdicts
<1> QED
  BY <1>1, <1>4, <1>7

LEMMA JudgementStep == ASSUME JudgementInv, [JudgementNext]_judgementVars
                       PROVE  JudgementInv'
<1>1. CASE UNCHANGED judgementVars
  BY <1>1 DEF judgementVars, JudgementInv, JudgementOK, FirstHolds, FirstPair
<1>2. ASSUME NEW s \in Cited, NEW c \in Cases, VerifyFirst(s, c)
      PROVE  JudgementInv'
  <2>1. c \in Case
    BY CasesAssumption
  <2>2. /\ first' = c /\ claim' = claim /\ pairs' = {FirstPair(c, s)}
        /\ c.hasSince = claim.hasSince /\ c.known = (s \in Known)
    BY <1>2 DEF VerifyFirst, FirstPair
  <2>3. FirstPair(c, s) \in Pair
    BY <2>1, VerdictType DEF FirstPair, Pair
  <2> QED
    BY <2>1, <2>2, <2>3 DEF JudgementInv, JudgementOK, FirstHolds
<1>3. ASSUME NEW p \in Pair, VerifyFurther(p)
      PROVE  JudgementInv'
  BY <1>3 DEF VerifyFurther, JudgementInv, JudgementOK, FirstHolds
<1> QED
  BY <1>1, <1>2, <1>3 DEF JudgementNext

\* High confidence has two independent supports, one of tier A or B (confidence.py:11).
LEMMA HighHasTwo == ASSUME JudgementOK
                    PROVE  HighNeedsTwo
<1> SUFFICES ASSUME Confidence(pairs) = "high"
             PROVE  /\ Verified(pairs) = "verified"
                    /\ \E p, q \in pairs :
                          /\ Supports(p) /\ Supports(q) /\ Backs(p)
                          /\ <<p.source, q.source>> \in Independent
  BY DEF HighNeedsTwo
<1> DEFINE strong == \E s \in Supporting(pairs) : Tier[s] \in {"A", "B"}
           ver == Verified(pairs)
<1>1. ver \in {"unverified", "failed", "verified", "partially-verified"}
  BY DEF Verified, Verification, fold_verification
<1>2. NoValue # "high"
  BY NoValueAssumption
<1>3. derive_confidence(ver, pairs, claim.absent) = "high"
  BY DEF Confidence
<1> HIDE DEF ver
<1>4. ver = "verified"
  BY <1>1, <1>2, <1>3 DEF derive_confidence
<1>5. strong /\ Corroborated(pairs)
  BY <1>2, <1>3, <1>4 DEF derive_confidence
<1>6. PICK s \in Backing(pairs), t \in Supporting(pairs) : <<s, t>> \in Independent
  BY <1>5 DEF Corroborated
<1>7. s \in Supporting(pairs) /\ Tier[s] \in {"A", "B"}
  BY <1>5, <1>6 DEF Backing
<1>8. PICK p \in pairs : Supports(p) /\ p.source = s /\ s \in Known
  BY <1>7 DEF Supporting
<1>9. PICK q \in pairs : Supports(q) /\ q.source = t
  BY <1>6 DEF Supporting
<1>10. Backs(p)
  BY <1>7, <1>8 DEF Backs
<1> QED
  BY <1>4, <1>6, <1>8, <1>9, <1>10 DEF ver

\* A contradiction that stands was read by a second model (tiering.py:12).
LEMMA ContradictedTwice == ASSUME JudgementInv
                           PROVE  ConflictsAreReread
<1> SUFFICES ASSUME first # NoValue, NEW p \in pairs, p.verdict = "contradicted"
             PROVE  \/ fold_assertions(first.escalated.assertions) = "contradicted"
                    \/ first.mandatory /\ fold_assertions(first.second.assertions) = "contradicted"
  BY DEF ConflictsAreReread
<1>1. first \in Case /\ verify_pair(first) = "contradicted"
  BY DEF JudgementInv, FirstHolds, FirstPair
<1>2. Stage0(first) \in {"source-unavailable", "supported", "locator-not-found", "go on"}
  BY <1>1 DEF Stage0, Case
<1>3. fold_assertions(Stage3(first).assertions) = "contradicted"
  BY <1>1, <1>2 DEF verify_pair
<1>4. CASE Stage3(first) = first.escalated
  BY <1>3, <1>4
<1>5. CASE Stage3(first) # first.escalated
  <2>1. \A m : ~ needs_escalation(first.primary, first.hasSince, m) =>
                   fold_assertions(first.primary.assertions) # "contradicted"
    BY DEF needs_escalation
  <2> QED
    BY <1>3, <1>5, <2>1 DEF Stage3
<1> QED
  BY <1>4, <1>5

\* Support is a registry's own, or came through every stage (verify_pair).
LEMMA SupportClimbs == ASSUME JudgementInv
                       PROVE  SupportIsEarned
<1> SUFFICES ASSUME first # NoValue, NEW p \in pairs, Supports(p)
             PROVE  \/ first.known /\ first.registry
                    \/ /\ first.known /\ first.shaped /\ first.declared /\ first.ingested
                       /\ first.resolves
                       /\ first.quoted => first.withinCap /\ QuoteStage(first) # "absent"
                       /\ \E out \in {first.primary, first.escalated, first.second} :
                             Core(out.assertions) # {} /\ AllSupported(out.assertions)
  BY DEF SupportIsEarned
<1>1. first \in Case /\ verify_pair(first) = "supported"
  BY DEF JudgementInv, FirstHolds, FirstPair, Supports
<1>2. CASE Stage0(first) # "go on"
  BY <1>1, <1>2 DEF verify_pair, Stage0, Case
<1>3. CASE Stage0(first) = "go on"
  <2>1. /\ first.withinCap /\ first.ingested /\ first.resolves
        /\ QuoteStage(first) # "absent"
        /\ fold_assertions(Stage3(first).assertions) = "supported"
    BY <1>1, <1>3 DEF verify_pair
  <2>2. first.known /\ first.shaped /\ first.declared
    BY <1>1, <1>3 DEF Stage0, Case
  <2>3. Core(Stage3(first).assertions) # {} /\ AllSupported(Stage3(first).assertions)
    BY <2>1 DEF fold_assertions
  <2>4. Stage3(first) \in {first.primary, first.escalated, first.second}
    BY <1>1, VerdictType
  <2> QED
    BY <2>1, <2>2, <2>3, <2>4
<1> QED
  BY <1>2, <1>3

\* What the folds make of a fact is earned at every rank (verify/pipeline.py, confidence.py):
\* support went through the whole ladder, high confidence has two independent supports, and
\* a contradiction was read twice; for any sources, tiers and cases of a citation.
THEOREM AdmissionHolds == JudgementSpec => []AdmissionEarned
<1>1. JudgementInit => JudgementInv
  BY DEF JudgementInit, JudgementInv, JudgementOK, FirstHolds
<1>2. JudgementInv /\ [JudgementNext]_judgementVars => JudgementInv'
  BY JudgementStep
<1>3. JudgementInv => AdmissionEarned
  BY HighHasTwo, ContradictedTwice, SupportClimbs DEF AdmissionEarned, JudgementInv
<1> QED
  BY <1>1, <1>2, <1>3, PTL DEF JudgementSpec
(***************************************************************************)
(* Controversy.  The invariant says, besides types: that a worker's rows   *)
(* and drafts are the same assessments; that an entry is known by its run, *)
(* so that what a worker has rendered is nowhere until it writes it; that  *)
(* a landing no other crosses has its own text in the file and on HEAD     *)
(* until it pushes it; and that what a worker is about to remember of a    *)
(* contested fact has been told.                                           *)
(***************************************************************************)
ControversySpec == ControversyInit /\ [][ControversyNext]_controversyVars

Outcomes == {"none", "resolved", "dissent"}
Statuses == {"none", "open", "confirmed-open", "dissolved"}
AllInputs ==
    {[debate |-> d, contradiction |-> c, verdicts |-> verdict_rows(ps),
      strength |-> source_strength(ps)] : d \in Outcomes, c \in Statuses, ps \in SUBSET Pair}
Row == [fact : Derived, level : 0 .. 3, reviewed : BOOLEAN, run : 1 .. MaxRuns, inputs : AllInputs]
LedgerRow == [level : 0 .. 3, reviewed : BOOLEAN, run : 1 .. MaxRuns, inputs : AllInputs]
Busy == [pc : {"assess", "review", "land", "flush"} \cup Landing, run : 1 .. MaxRuns, base : Record,
         seen : [debate : Outcomes, dispute : Statuses], todo : SUBSET Derived,
         asked : AllInputs \cup {NoValue}, drafts : [Keys -> Assessment \cup {NoValue}],
         rows : Seq(Row)]

RecordTypes == /\ main \in Record /\ clone \in Record /\ file \in Record /\ fork \in Record
               /\ landed \subseteq Record
WorldTypes == /\ verdicts \in [Derived -> SUBSET Pair]
              /\ dispute \in Statuses /\ debate \in Outcomes
              /\ ledger \in [Derived -> LedgerRow \cup {NoValue}]
              /\ runs \in 0 .. MaxRuns /\ alone \subseteq 1 .. MaxRuns
              /\ changes \in 0 .. MaxChanges
CrossTypes == /\ pull \in {"none", "rebased", "crossed"} /\ crossed \subseteq Workers
              /\ blind \in BOOLEAN
WorkerTypes == /\ worker \in [Workers -> Busy \cup {IdleWorker}]
               /\ told \in [Workers -> SUBSET (Derived \X (0 .. 3))]
Types == RecordTypes /\ WorldTypes /\ CrossTypes /\ WorkerTypes

Underway(w) == worker[w].pc # "idle"
Writing(w) == worker[w].pc \in {"assess", "review", "land", "write"}
Lands(w) == worker[w].pc \in Landing

\* Every text of the record there is, and the runs whose entries are in one.
TextsNow == {main, clone, file, fork} \cup landed
                \cup {worker[w].base : w \in {p \in Workers : Underway(p)}}
Holds(r, n) == \E k \in Keys : r.block[k] # NoValue /\ r.block[k].run = n
Reviewed(r, solo) ==
    \A k \in Keys : r.block[k] # NoValue /\ r.block[k].level = 3 =>
        r.block[k].reviewed \/ r.block[k].run \in solo

\* The record: every level 3 is reviewed, or of a run without a reviewer.
RecordInv == /\ NoOrphanLevel
             /\ Reviewed(main, alone) /\ Reviewed(clone, alone)
             /\ Reviewed(file, alone) /\ Reviewed(fork, alone)

\* The runs: a worker's own run is in no text before it writes it.
RunsInv ==
    /\ \A r \in TextsNow, n \in 1 .. MaxRuns : Holds(r, n) => n <= runs
    /\ \A w \in Workers : Underway(w) => worker[w].run <= runs
    /\ \A w, p \in Workers :
          Underway(w) /\ Underway(p) /\ worker[w].run = worker[p].run => w = p
    /\ \A w \in Workers : Writing(w) => \A r \in TextsNow : ~ Holds(r, worker[w].run)

\* A landing no other crosses: its text is in the file, then on HEAD, and not yet on main.
Ours(w, r) ==
    /\ r.facts \in {fork.facts, worker[w].base.facts}
    /\ \A k \in Keys :
          /\ worker[w].drafts[k] = NoValue => r.block[k] \in {fork.block[k], worker[w].base.block[k]}
          /\ worker[w].drafts[k] # NoValue /\ worker[w].drafts[k].level > 0 =>
                 r.block[k] = Rendered(w).block[k]
Unmixed(w) ==
    /\ At(w, "write") => file = worker[w].base
    /\ At(w, "commit") => file = Rendered(w)
    /\ worker[w].pc \in {"rebase", "push"} => file = clone /\ Ours(w, clone)
    /\ ~ Holds(main, worker[w].run) /\ ~ Holds(fork, worker[w].run)
LandInv == /\ \A w \in Workers : Lands(w) /\ w \notin crossed => Unmixed(w)
           /\ pull = "rebased" => file = clone

\* The assessments of a worker: each row is a fact done with, and the draft of its key.
Drafted(x, row) ==
    /\ row.fact \notin x.todo
    /\ ~ SharesKey(x.base, row.fact) =>
           /\ x.drafts[Key[row.fact]] # NoValue
           /\ x.drafts[Key[row.fact]].fact = row.fact
           /\ x.drafts[Key[row.fact]].level = row.level
Tidy(x, solo) ==
    /\ x.todo \subseteq x.base.facts
    /\ Reviewed(x.base, solo)
    /\ x.pc = "review" => x.todo # {} /\ x.asked \in AllInputs
    /\ x.pc \in {"land", "flush"} \cup Landing => x.rows # <<>>
    /\ x.rows = <<>> => x.drafts = NoDrafts
    /\ \A k \in Keys : x.drafts[k] # NoValue /\ x.drafts[k].level = 3 =>
           x.drafts[k].reviewed \/ x.run \in solo
    /\ \A i \in 1 .. Len(x.rows) : x.rows[i].level = 3 =>
           x.rows[i].reviewed \/ x.rows[i].run \in solo
    /\ x.pc # "flush" => \A i \in 1 .. Len(x.rows) : Drafted(x, x.rows[i])
WorkersInv == \A w \in Workers : Underway(w) => Tidy(worker[w], alone)

\* A contested level about to be remembered has been told.
ToldRow(w, row) ==
    row.level > 0 /\ ~ SharesKey(worker[w].base, row.fact) => <<row.fact, row.level>> \in told[w]
ToldInv == \A w \in Workers : At(w, "flush") /\ w \notin crossed =>
               \A i \in 1 .. Len(worker[w].rows) : ToldRow(w, worker[w].rows[i])

LedgerInv == \A f \in Derived : ledger[f] # NoValue /\ ledger[f].level = 3 =>
                 ledger[f].reviewed \/ ledger[f].run \in alone

ControversyInv ==
    Types /\ RecordInv /\ RunsInv /\ LandInv /\ WorkersInv /\ ToldInv /\ LedgerInv

-----------------------------------------------------------------------------
(* What the operators of the model are given, and what they make of it. *)

\* A worker under way is one of Busy, and an idle one is not.
LEMMA WorkerIs == ASSUME WorkerTypes, NEW w \in Workers
                  PROVE  /\ Underway(w) => worker[w] \in Busy
                         /\ ~ Underway(w) => worker[w] = IdleWorker
                         /\ IdleWorker.pc = "idle" /\ IdleWorker \notin Busy
                         /\ \A x \in Busy : x.pc # "idle"
BY DEF WorkerTypes, Underway, IdleWorker, Busy, Landing

\* Order and Key reach what they are taken to: a fact of Derived, a key of Keys.
LEMMA KeyOfFact == ASSUME NEW f \in Derived
                   PROVE  Key[f] \in Keys
BY DEF Keys

\* The first of some facts is one of them (run.py assess_record's loop).
LEMMA FirstIsOne == ASSUME NEW facts \in SUBSET Derived, facts # {}
                    PROVE  First(facts) \in facts
<1> DEFINE S == {i \in 1 .. Len(Order) : Order[i] \in facts}
<1>1. Len(Order) \in Nat
  BY RecordAssumption
<1>2. S # {} /\ S \in SUBSET Nat
  <2>1. PICK f \in Derived : f \in facts
    OBVIOUS
  <2>2. PICK i \in 1 .. Len(Order) : Order[i] = f
    BY <2>1 DEF Derived
  <2> QED
    BY <1>1, <2>1, <2>2
<1>3. PICK i \in S : \A y \in S : <<y, i>> \notin OpToRel(<, Nat)
  BY ONLY <1>2, NatLessThanWellFounded, WFMin
<1>4. \A y \in S : ~ (y < i)
  BY <1>2, <1>3 DEF OpToRel
<1>5. Order[i] \in facts /\ \A j \in 1 .. (i - 1) : Order[j] \notin facts
  BY <1>1, <1>4
<1> HIDE DEF S
<1>6. i \in 1 .. Len(Order)
  BY DEF S
<1> QED
  BY <1>5, <1>6 DEF First

\* What a worker asks the models about is a set of inputs there can be (assemble.py).
LEMMA InputsType == ASSUME Types, NEW w \in Workers, Underway(w), NextFact(w) \in Derived
                    PROVE  Inputs(w) \in AllInputs
<1>1. worker[w].seen \in [debate : Outcomes, dispute : Statuses]
  BY WorkerIs DEF Types, Busy
<1>2. contradiction_projection(worker[w].seen.dispute) \in Statuses
  BY <1>1 DEF contradiction_projection, Statuses
<1>3. verdicts[NextFact(w)] \in SUBSET Pair
  BY DEF Types, WorldTypes
<1> DEFINE c == contradiction_projection(worker[w].seen.dispute)
           d == worker[w].seen.debate
           ps == verdicts[NextFact(w)]
<1>4. d \in Outcomes
  BY <1>1
<1>5. Inputs(w) = [debate |-> d, contradiction |-> c, verdicts |-> verdict_rows(ps),
                   strength |-> source_strength(ps)]
  BY DEF Inputs, assemble_inputs
<1> HIDE DEF c, d, ps
<1> QED
  BY <1>2, <1>3, <1>4, <1>5 DEF AllInputs, c, ps

\* What a rebase makes of a text: of each part, the side that changed it (land.py).
LEMMA RebasedText == ASSUME RecordTypes, NEW ours \in Record
                     PROVE  /\ Rebased(ours) \in Record
                            /\ Rebased(ours).facts = IF ours.facts = fork.facts THEN main.facts
                                                     ELSE ours.facts
                            /\ \A k \in Keys : Rebased(ours).block[k] =
                                  IF ours.block[k] = fork.block[k] THEN main.block[k]
                                  ELSE ours.block[k]
BY DEF RecordTypes, Record, Rebased

\* What a worker renders: its drafts, as entries of its run, over the text it read (block.py).
LEMMA RenderedText ==
    ASSUME NEW w \in Workers, worker[w] \in Busy
    PROVE  /\ Rendered(w) \in Record
           /\ Rendered(w).facts = worker[w].base.facts
           /\ \A k \in Keys : Rendered(w).block[k] =
                 IF worker[w].drafts[k] = NoValue THEN worker[w].base.block[k]
                 ELSE IF worker[w].drafts[k].level = 0 THEN NoValue
                 ELSE [fact |-> worker[w].drafts[k].fact, level |-> worker[w].drafts[k].level,
                       reviewed |-> worker[w].drafts[k].reviewed, run |-> worker[w].run]
<1> DEFINE x == worker[w]
           entry(k) == IF x.drafts[k] = NoValue THEN x.base.block[k]
                       ELSE IF x.drafts[k].level = 0 THEN NoValue
                       ELSE [fact |-> x.drafts[k].fact, level |-> x.drafts[k].level,
                             reviewed |-> x.drafts[k].reviewed, run |-> x.run]
<1>1. x.base \in Record /\ x.run \in 1 .. MaxRuns
      /\ x.drafts \in [Keys -> Assessment \cup {NoValue}]
  BY DEF Busy
<1>2. Rendered(w) = [x.base EXCEPT !.block = [k \in Keys |-> entry(k)]]
  BY DEF Rendered, merge_block
<1>3. ASSUME NEW k \in Keys
      PROVE  entry(k) \in Entry \cup {NoValue}
  <2>1. CASE x.drafts[k] = NoValue
    BY <1>1, <2>1 DEF Record
  <2>2. CASE x.drafts[k] # NoValue
    <3>1. x.drafts[k] \in Assessment
      BY <1>1, <2>2
    <3> QED
      BY <1>1, <2>2, <3>1 DEF Assessment, Entry
  <2> QED
    BY <2>1, <2>2
<1>4. [k \in Keys |-> entry(k)] \in [Keys -> Entry \cup {NoValue}]
  BY <1>3
<1>5. \A k \in Keys : [j \in Keys |-> entry(j)][k] = entry(k)
  OBVIOUS
<1> DEFINE block == [k \in Keys |-> entry(k)]
<1> HIDE DEF entry, block
<1>6. Rendered(w) = [x.base EXCEPT !.block = block] /\ block \in [Keys -> Entry \cup {NoValue}]
  BY <1>2, <1>4 DEF block
<1>7. Rendered(w) \in Record /\ Rendered(w).facts = x.base.facts /\ Rendered(w).block = block
  BY <1>1, <1>6 DEF Record
<1> QED
  BY <1>5, <1>7 DEF block, entry

\* The worker with one more assessment (run.py assess_record).
LEMMA WithWhat ==
    ASSUME NEW w \in Workers, worker[w] \in Busy, NEW a \in Assessment, NEW inputs \in AllInputs
    PROVE  LET x == worker[w]
               y == With(w, a, inputs)
           IN  /\ y \in Busy
               /\ y.pc = "assess" /\ y.run = x.run /\ y.base = x.base
               /\ y.todo = x.todo \ {NextFact(w)}
               /\ y.drafts = [x.drafts EXCEPT ![Key[a.fact]] = a]
               /\ y.rows = Append(x.rows, [fact |-> a.fact, level |-> a.level,
                                           reviewed |-> a.reviewed, run |-> x.run,
                                           inputs |-> inputs])
<1> DEFINE x == worker[w]
           y == With(w, a, inputs)
           row == [fact |-> a.fact, level |-> a.level, reviewed |-> a.reviewed,
                   run |-> x.run, inputs |-> inputs]
           todo == x.todo \ {NextFact(w)}
           drafts == [x.drafts EXCEPT ![Key[a.fact]] = a]
           rows == Append(x.rows, row)
<1>1. a.fact \in Derived /\ row \in Row
  BY DEF Assessment, Row, Busy
<1>2. Key[a.fact] \in Keys
  BY <1>1, KeyOfFact
<1>3. x.todo \in SUBSET Derived /\ x.drafts \in [Keys -> Assessment \cup {NoValue}]
      /\ x.rows \in Seq(Row)
  BY DEF Busy
<1>4. todo \in SUBSET Derived /\ drafts \in [Keys -> Assessment \cup {NoValue}]
      /\ rows \in Seq(Row)
  <2>1. rows \in Seq(Row)
    BY <1>1, <1>3
  <2>2. drafts \in [Keys -> Assessment \cup {NoValue}]
    BY <1>2, <1>3
  <2> QED
    BY <1>3, <2>1, <2>2
<1>5. x.drafts = [k \in Keys |-> x.drafts[k]]
  BY <1>3
<1>6. y = [x EXCEPT !.pc = "assess", !.asked = NoValue, !.todo = todo,
                    !.drafts = drafts, !.rows = rows]
  BY DEF With
<1> HIDE DEF todo, drafts, rows, y
<1>7. y \in Busy /\ y.pc = "assess" /\ y.run = x.run /\ y.base = x.base /\ y.todo = todo
      /\ y.drafts = drafts /\ y.rows = rows
  BY <1>4, <1>6 DEF Busy
<1> QED
  BY <1>7 DEF todo, drafts, rows, y

-----------------------------------------------------------------------------
(* What a worker's step makes of the worker. *)

Moved(w) ==
    /\ \A p \in Workers \ {w} : worker'[p] = worker[p]
    /\ \/ worker'[w] = IdleWorker
       \/ /\ Underway(w) /\ worker'[w] \in Busy /\ Tidy(worker'[w], alone)
          /\ worker'[w].run = worker[w].run /\ worker'[w].base = worker[w].base
          /\ worker'[w].pc \in {"assess", "review", "land", "write"} => Writing(w)
    /\ worker' \in [Workers -> Busy \cup {IdleWorker}]

LEMMA BecameIdle == ASSUME WorkerTypes, NEW w \in Workers, Become(w, IdleWorker)
                    PROVE  Moved(w)
BY DEF WorkerTypes, Become, Moved

LEMMA BecameBusy == ASSUME WorkerTypes, NEW w \in Workers, Underway(w), NEW y \in Busy,
                           Become(w, y), Tidy(y, alone), y.run = worker[w].run,
                           y.base = worker[w].base,
                           y.pc \in {"assess", "review", "land", "write"} => Writing(w)
                    PROVE  Moved(w) /\ worker'[w] = y
<1>1. /\ worker'[w] = y
      /\ \A p \in Workers \ {w} : worker'[p] = worker[p]
      /\ worker' \in [Workers -> Busy \cup {IdleWorker}]
  BY DEF WorkerTypes, Become
<1> QED
  BY <1>1 DEF Moved

\* One more assessment keeps the worker tidy: the row is new, and facts that do not share
\* a key have drafts of their own.
LEMMA WithTidy ==
    ASSUME Types, WorkersInv, NEW w \in Workers, Writing(w), worker[w].todo # {},
           NEW a \in Assessment, a.fact = NextFact(w), a.level = 3 => a.reviewed \/ worker[w].run \in alone,
           NEW inputs \in AllInputs, Become(w, With(w, a, inputs))
    PROVE  Moved(w) /\ worker'[w].pc = "assess"
<1> DEFINE x == worker[w]
           y == With(w, a, inputs)
           row == [fact |-> a.fact, level |-> a.level, reviewed |-> a.reviewed,
                   run |-> x.run, inputs |-> inputs]
<1>1. Underway(w) /\ x \in Busy /\ Tidy(x, alone) /\ x.pc # "flush"
  BY WorkerIs DEF Types, WorkersInv, Writing, Underway
<1>2. /\ y \in Busy /\ y.pc = "assess" /\ y.run = x.run /\ y.base = x.base
      /\ y.todo = x.todo \ {a.fact} /\ y.drafts = [x.drafts EXCEPT ![Key[a.fact]] = a]
      /\ y.rows = Append(x.rows, row)
  <2>1. worker[w] \in Busy
    BY <1>1
  <2> HIDE DEF x
  <2> QED
    BY ONLY <2>1, WithWhat, a \in Assessment, inputs \in AllInputs, w \in Workers,
       a.fact = NextFact(w) DEF x
<1>3. x.todo \in SUBSET Derived /\ x.rows \in Seq(Row) /\ x.base.facts \in SUBSET Derived
      /\ x.drafts \in [Keys -> Assessment \cup {NoValue}] /\ x.run \in 1 .. MaxRuns
  BY <1>1 DEF Busy, Record
<1>4. a.fact \in x.todo /\ x.todo \subseteq x.base.facts
  BY <1>1, <1>3, FirstIsOne DEF NextFact, Tidy
<1>5. row \in Row /\ a.fact \in Derived /\ Key[a.fact] \in Keys
  <2>1. a.fact \in Derived /\ a.level \in 0 .. 3 /\ a.reviewed \in BOOLEAN
    BY DEF Assessment
  <2>2. row \in Row
    BY <1>3, <2>1 DEF Row
  <2> QED
    BY <2>1, <2>2, KeyOfFact
<1>6. /\ \A k \in Keys : y.drafts[k] = IF k = Key[a.fact] THEN a ELSE x.drafts[k]
      /\ Len(y.rows) = Len(x.rows) + 1 /\ Len(x.rows) \in Nat
      /\ \A i \in 1 .. Len(x.rows) : y.rows[i] = x.rows[i] /\ x.rows[i] \in Row
      /\ y.rows[Len(x.rows) + 1] = row
  BY <1>2, <1>3, <1>5
<1> HIDE DEF row, y
<1>7. /\ row.fact = a.fact /\ row.level = a.level /\ row.reviewed = a.reviewed /\ row.run = x.run
  BY DEF row
<1>8. a # NoValue
  BY NothingAssumption
<1>9. Drafted(y, row)
  BY <1>2, <1>5, <1>6, <1>7, <1>8 DEF Drafted
<1>10. ASSUME NEW i \in 1 .. Len(x.rows)
       PROVE  Drafted(y, x.rows[i])
  <2>1. Drafted(x, x.rows[i])
    BY <1>1, <1>10 DEF Tidy
  <2>2. x.rows[i].fact \in Derived /\ x.rows[i].fact # a.fact /\ Key[x.rows[i].fact] \in Keys
    BY <1>4, <1>6, <2>1, KeyOfFact DEF Drafted, Row
  <2>3. ~ SharesKey(x.base, x.rows[i].fact) => Key[x.rows[i].fact] # Key[a.fact]
    BY <1>4, <2>2 DEF SharesKey
  <2> QED
    BY <1>2, <1>6, <2>1, <2>2, <2>3 DEF Drafted
<1>11. \A i \in 1 .. Len(y.rows) : Drafted(y, y.rows[i]) /\ (y.rows[i].level = 3 => y.rows[i].reviewed \/ y.rows[i].run \in alone)
  <2> TAKE i \in 1 .. Len(y.rows)
  <2>1. CASE i = Len(x.rows) + 1
    BY <1>6, <1>7, <1>9, <2>1
  <2>2. CASE i \in 1 .. Len(x.rows)
    BY <1>1, <1>6, <1>10, <2>2 DEF Tidy
  <2> QED
    BY <1>6, <2>1, <2>2
<1>12. \A k \in Keys : y.drafts[k] # NoValue /\ y.drafts[k].level = 3 =>
           y.drafts[k].reviewed \/ y.run \in alone
  BY <1>1, <1>2, <1>6 DEF Tidy
<1>13. y.rows # <<>> /\ y.todo \subseteq y.base.facts /\ Reviewed(y.base, alone)
  <2>1. Len(y.rows) # 0
    BY <1>6
  <2>2. y.rows # <<>>
    BY <2>1
  <2> QED
    BY <1>1, <1>2, <1>4, <2>2 DEF Tidy
<1>14. Tidy(y, alone)
  BY <1>2, <1>11, <1>12, <1>13 DEF Tidy
<1>15. Become(w, y)
  BY DEF y
<1>16. WorkerTypes /\ Writing(w) /\ y.run = worker[w].run /\ y.base = worker[w].base
  BY <1>2 DEF Types
<1> HIDE DEF x
<1>17. Moved(w) /\ worker'[w] = y
  BY <1>1, <1>2, <1>14, <1>15, <1>16, BecameBusy
<1> QED
  BY <1>2, <1>17

LEMMA SkipMoves == ASSUME Types, WorkersInv, NEW w \in Workers, Skip(w)
                   PROVE  Moved(w) /\ worker'[w].pc = "assess"
<1> DEFINE x == worker[w]
           todo == x.todo \ {NextFact(w)}
           y == [x EXCEPT !.todo = todo]
<1>1. x.pc = "assess" /\ Underway(w) /\ x \in Busy /\ Tidy(x, alone) /\ Writing(w)
  BY WorkerIs DEF Types, WorkersInv, Skip, Assessing, At, Writing, Underway
<1>2. Become(w, y)
  BY DEF Skip
<1>3. todo \in SUBSET Derived /\ todo \subseteq x.todo
  BY <1>1 DEF Busy
<1> HIDE DEF todo
<1>4. /\ y \in Busy /\ y.pc = x.pc /\ y.run = x.run /\ y.base = x.base /\ y.todo = todo
      /\ y.drafts = x.drafts /\ y.rows = x.rows
  BY <1>1, <1>3 DEF Busy
<1> HIDE DEF y
<1>5. Tidy(y, alone)
  BY <1>1, <1>3, <1>4 DEF Tidy, Drafted
<1> QED
  BY <1>1, <1>2, <1>4, <1>5, BecameBusy DEF Types

LEMMA AssessMoves ==
    ASSUME Types, WorkersInv, NEW w \in Workers,
           NEW f \in Derived, NEW level \in Levels, NEW torn \in BOOLEAN,
           Assess(w, [fact |-> f, level |-> level, reviewed |-> FALSE, torn |-> torn])
    PROVE  Moved(w) /\ worker'[w].pc \in {"assess", "review"}
<1> DEFINE x == worker[w]
           a == [fact |-> f, level |-> level, reviewed |-> FALSE, torn |-> torn]
           asked == Inputs(w)
           y == [x EXCEPT !.pc = "review", !.asked = asked]
<1>1. x.pc = "assess" /\ x.todo # {} /\ a.fact = NextFact(w)
  BY DEF Assess, Assessing, At
<1>2. Underway(w) /\ x \in Busy /\ Tidy(x, alone) /\ Writing(w)
  BY <1>1, WorkerIs DEF Types, WorkersInv, Writing, Underway
<1>3. a \in Assessment
  BY LevelsAssumption DEF Assessment
<1>4. asked \in AllInputs
  BY <1>1, <1>2, InputsType
<1>5. CASE needs_escalation_of(a) /\ x.run \notin alone
  <2>1. Become(w, y)
    BY <1>5 DEF Assess
  <2> HIDE DEF asked
  <2>2. /\ y \in Busy /\ y.pc = "review" /\ y.run = x.run /\ y.base = x.base /\ y.todo = x.todo
        /\ y.drafts = x.drafts /\ y.rows = x.rows /\ y.asked = asked
    BY <1>2, <1>4 DEF Busy
  <2> HIDE DEF y
  <2>3. Tidy(y, alone)
    BY <1>1, <1>2, <1>4, <2>2 DEF Tidy, Drafted, Landing
  <2> QED
    BY <1>2, <2>1, <2>2, <2>3, BecameBusy DEF Types
<1>6. CASE ~ (needs_escalation_of(a) /\ x.run \notin alone)
  <2>1. Become(w, With(w, a, Inputs(w))) /\ (a.level # 3 \/ x.run \in alone)
    BY <1>6 DEF Assess, needs_escalation_of
  <2> HIDE DEF a
  <2>2. Moved(w) /\ worker'[w].pc = "assess"
    BY <1>1, <1>2, <1>3, <1>4, <2>1, WithTidy
  <2> QED
    BY <2>2
<1> QED
  BY <1>5, <1>6

LEMMA EscalateMoves ==
    ASSUME Types, WorkersInv, NEW w \in Workers, NEW level \in Levels, escalate(w, level)
    PROVE  Moved(w) /\ worker'[w].pc = "assess"
<1> DEFINE x == worker[w]
           a == [fact |-> NextFact(w), level |-> level, reviewed |-> TRUE, torn |-> FALSE]
           inputs == x.asked
<1>1. x.pc = "review" /\ Become(w, With(w, a, inputs))
  BY DEF escalate, At
<1>2. Underway(w) /\ x \in Busy /\ Tidy(x, alone) /\ Writing(w)
  BY <1>1, WorkerIs DEF Types, WorkersInv, Writing, Underway
<1>3. x.todo # {} /\ inputs \in AllInputs /\ x.todo \in SUBSET Derived
  BY <1>1, <1>2 DEF Tidy, Busy
<1>4. NextFact(w) \in Derived
  BY <1>3, FirstIsOne DEF NextFact
<1>5. a \in Assessment /\ a.fact = NextFact(w) /\ a.reviewed
  BY <1>4, LevelsAssumption DEF Assessment
<1> HIDE DEF a, inputs
<1>6. Moved(w) /\ worker'[w].pc = "assess"
  BY <1>1, <1>2, <1>3, <1>5, WithTidy
<1> QED
  BY <1>6

\* A worker that is done with its facts goes on through its landing, to remember them.
LEMMA GoesOn ==
    ASSUME Types, WorkersInv, NEW w \in Workers, Underway(w), ~ At(w, "flush"),
           worker[w].rows # <<>>,
           NEW point \in {"land", "flush"} \cup Landing, point \in {"land", "write"} => Writing(w),
           Become(w, [worker[w] EXCEPT !.pc = point])
    PROVE  /\ Moved(w) /\ worker'[w].pc = point /\ Rendered(w)' = Rendered(w)
           /\ worker'[w].rows = worker[w].rows /\ worker'[w].base = worker[w].base
           /\ worker'[w].drafts = worker[w].drafts /\ worker'[w].run = worker[w].run
<1> DEFINE x == worker[w]
           y == [x EXCEPT !.pc = point]
<1>1. x \in Busy /\ Tidy(x, alone) /\ x.pc # "flush"
  BY WorkerIs DEF Types, WorkersInv, At
<1>2. /\ y \in Busy /\ y.pc = point /\ y.run = x.run /\ y.base = x.base /\ y.todo = x.todo
      /\ y.drafts = x.drafts /\ y.rows = x.rows
  BY <1>1 DEF Busy
<1>3. Become(w, y)
  OBVIOUS
<1>4. point \notin {"assess", "review"}
  BY DEF Landing
<1> HIDE DEF y
<1>5. Tidy(y, alone)
  BY <1>1, <1>2, <1>4 DEF Tidy, Drafted
<1>6. y.pc \in {"assess", "review", "land", "write"} => Writing(w)
  BY <1>2, <1>4
<1>7. Moved(w) /\ worker'[w] = y
  BY <1>1, <1>2, <1>3, <1>5, <1>6, BecameBusy DEF Types
<1>8. Rendered(w)' = Rendered(w)
  BY <1>2, <1>7 DEF Rendered
<1> QED
  BY <1>2, <1>7, <1>8

LEMMA FinishMoves == ASSUME Types, WorkersInv, NEW w \in Workers, Finish(w)
                     PROVE  /\ Moved(w)
                            /\ worker'[w].pc \in {"idle", "land", "flush"}
                            /\ worker'[w].pc = "flush" =>
                                  /\ Writing(w) /\ Rendered(w) = worker[w].base
                                  /\ worker'[w].rows = worker[w].rows
<1>1. Writing(w) /\ Underway(w) /\ ~ At(w, "flush") /\ Tidy(worker[w], alone)
  BY DEF WorkersInv, Finish, At, Writing, Underway
<1>2. CASE worker[w].drafts = NoDrafts
  <2>1. Become(w, IdleWorker)
    BY <1>2 DEF Finish
  <2>2. worker'[w] = IdleWorker
    BY <2>1 DEF Become, Types, WorkerTypes
  <2> QED
    BY <2>1, <2>2, BecameIdle DEF Types, IdleWorker
<1>3. CASE worker[w].drafts # NoDrafts
  <2>1. worker[w].rows # <<>>
    BY <1>1, <1>3 DEF Tidy
  <2>2. CASE Rendered(w) = worker[w].base
    <3>1. Become(w, [worker[w] EXCEPT !.pc = "flush"])
      BY <1>3, <2>2 DEF Finish
    <3> QED
      BY <1>1, <2>1, <2>2, <3>1, GoesOn
  <2>3. CASE Rendered(w) # worker[w].base
    <3>1. Become(w, [worker[w] EXCEPT !.pc = "land"])
      BY <1>3, <2>3 DEF Finish
    <3> QED
      BY <1>1, <2>1, <3>1, GoesOn
  <2> QED
    BY <2>2, <2>3
<1> QED
  BY <1>2, <1>3

LEMMA TailOf == ASSUME NEW S, NEW seq \in Seq(S), Len(seq) > 1
                PROVE  /\ Tail(seq) \in Seq(S) /\ Len(Tail(seq)) = Len(seq) - 1
                       /\ Len(Tail(seq)) > 0
                       /\ \A i \in 1 .. Len(Tail(seq)) :
                             i + 1 \in 1 .. Len(seq) /\ Tail(seq)[i] = seq[i + 1]
OBVIOUS

LEMMA FlushMoves == ASSUME Types, WorkersInv, NEW w \in Workers, Flush(w)
                    PROVE  /\ Moved(w)
                           /\ Head(worker[w].rows) = worker[w].rows[1]
                           /\ 1 \in 1 .. Len(worker[w].rows) /\ worker[w].rows[1] \in Row
                           /\ worker'[w].pc = "flush" =>
                                 \A i \in 1 .. Len(worker'[w].rows) :
                                     /\ i + 1 \in 1 .. Len(worker[w].rows)
                                     /\ worker'[w].rows[i] = worker[w].rows[i + 1]
<1> DEFINE x == worker[w]
           rows == Tail(x.rows)
           y == [x EXCEPT !.rows = rows]
<1>1. Underway(w) /\ x \in Busy /\ Tidy(x, alone) /\ x.pc = "flush" /\ x.rows # <<>>
  BY WorkerIs DEF Types, WorkersInv, Flush, At, Underway, Tidy
<1>2. x.rows \in Seq(Row) /\ Len(x.rows) \in Nat /\ Len(x.rows) > 0
  <2>1. x.rows \in Seq(Row)
    BY <1>1 DEF Busy
  <2> QED
    BY <1>1, <2>1
<1>3. Head(x.rows) = x.rows[1] /\ 1 \in 1 .. Len(x.rows) /\ x.rows[1] \in Row
  BY <1>2
<1>4. CASE Len(x.rows) = 1
  <2>1. Become(w, IdleWorker)
    BY <1>4 DEF Flush
  <2>2. worker'[w] = IdleWorker
    BY <2>1 DEF Become, Types, WorkerTypes
  <2> QED
    BY <1>3, <2>1, <2>2, BecameIdle DEF Types, IdleWorker
<1>5. CASE Len(x.rows) # 1
  <2>1. Become(w, y)
    BY <1>5 DEF Flush
  <2>2. /\ rows \in Seq(Row) /\ Len(rows) = Len(x.rows) - 1 /\ Len(rows) > 0
        /\ \A i \in 1 .. Len(rows) : i + 1 \in 1 .. Len(x.rows) /\ rows[i] = x.rows[i + 1]
    <3>1. Len(x.rows) > 1
      <4> DEFINE n == Len(x.rows)
      <4>1. n \in Nat /\ n > 0 /\ n # 1
        BY <1>2, <1>5
      <4> HIDE DEF n
      <4>2. n > 1
        BY <4>1
      <4> QED
        BY <4>2 DEF n
    <3> QED
      BY <1>2, <3>1, TailOf
  <2>3. rows # <<>>
    <3> HIDE DEF rows
    <3> QED
      BY <2>2
  <2> HIDE DEF rows
  <2>4. /\ y \in Busy /\ y.pc = "flush" /\ y.run = x.run /\ y.base = x.base /\ y.todo = x.todo
        /\ y.drafts = x.drafts /\ y.rows = rows
    BY <1>1, <2>2 DEF Busy
  <2> HIDE DEF y
  <2>5. Tidy(y, alone)
    BY <1>1, <2>2, <2>3, <2>4 DEF Tidy
  <2>6. Moved(w) /\ worker'[w] = y
    BY <1>1, <2>1, <2>4, <2>5, BecameBusy DEF Types
  <2> QED
    BY <1>3, <2>2, <2>4, <2>6
<1> QED
  BY <1>4, <1>5

-----------------------------------------------------------------------------
(* The kinds of step: most steps of a worker change nothing but the worker. *)

Quiet(w) ==
    /\ Moved(w)
    /\ UNCHANGED <<recordVars, ledger, worldVars, runVars, changes, crossVars, told>>
    /\ worker'[w].pc = "flush" =>
          /\ Writing(w)
          /\ Rendered(w) \in {worker[w].base} \cup landed
          /\ worker'[w].rows = worker[w].rows
    /\ worker'[w].pc \in Landing =>
          \/ worker'[w].pc = "write" /\ Writing(w) /\ file = worker[w].base
          \/ /\ worker'[w].pc = "rebase" /\ At(w, "push")
             /\ worker'[w].drafts = worker[w].drafts /\ Rendered(w)' = Rendered(w)
Elsewhere ==
    /\ UNCHANGED <<recordVars, ledger, worker, runVars, crossed, blind, told>>
    /\ verdicts' \in [Derived -> SUBSET Pair]
    /\ dispute' \in Statuses /\ debate' \in Outcomes /\ changes' \in 0 .. MaxChanges
    /\ pull' \in {pull, "none"}
Goes(w) == Write(w) \/ Commit(w) \/ Rebase(w) \/ Land(w)
StepKind ==
    \/ \E w \in Workers : \/ \E escalating \in BOOLEAN : Start(w, escalating)
                          \/ Quiet(w) \/ Goes(w) \/ Flush(w)
    \/ \E facts \in Versions : EditClaims(facts)
    \/ Revert \/ PullRebase \/ PullPush \/ Elsewhere

LEMMA ChangeCounts == ASSUME WorldTypes, Change
                      PROVE  changes' \in 0 .. MaxChanges
BY BoundsAssumption DEF WorldTypes, Change

LEMMA IdleIsQuiet == ASSUME Types, NEW w \in Workers, Become(w, IdleWorker),
                            UNCHANGED <<recordVars, ledger, worldVars, runVars, changes,
                                        crossVars, told>>
                     PROVE  Quiet(w)
<1>1. worker'[w] = IdleWorker /\ Moved(w)
  BY BecameIdle DEF Types, WorkerTypes, Become
<1> QED
  BY <1>1 DEF Quiet, IdleWorker, Landing

LEMMA KindOfStep == ASSUME Types, WorkersInv, [ControversyNext]_controversyVars
                    PROVE  StepKind
<1>1. ASSUME NEW w \in Workers, AssessRecord(w)
      PROVE  StepKind
  <2>1. CASE (\E escalating \in BOOLEAN : Start(w, escalating)) \/ Goes(w) \/ Flush(w)
    BY <2>1 DEF StepKind
  <2>2. CASE Skip(w)
    <3>1. Quiet(w)
      BY <2>2, SkipMoves DEF Quiet, Skip, Landing
    <3> QED
      BY <3>1 DEF StepKind
  <2>3. CASE Abandon(w) \/ LoseRace(w) \/ Refused(w)
    <3>1. Become(w, IdleWorker)
          /\ UNCHANGED <<recordVars, ledger, worldVars, runVars, changes, crossVars, told>>
      BY <2>3 DEF Abandon, LoseRace, Refused
    <3>2. Quiet(w)
      BY <3>1, IdleIsQuiet
    <3> QED
      BY <3>2 DEF StepKind
  <2>4. CASE Finish(w)
    <3>1. Quiet(w)
      BY <2>4, FinishMoves DEF Quiet, Finish, Landing
    <3> QED
      BY <3>1 DEF StepKind
  <2>5. CASE LandAgain(w) \/ Check(w)
    <3>1. Writing(w) /\ Underway(w) /\ worker[w].pc = "land" /\ ~ At(w, "flush")
          /\ file = worker[w].base
      BY <2>5 DEF LandAgain, Check, Fresh, At, Writing, Underway
    <3>2. worker[w].rows # <<>>
      BY <3>1 DEF WorkersInv, Tidy
    <3>3. CASE LandAgain(w)
      <4>1. Become(w, [worker[w] EXCEPT !.pc = "flush"])
        BY <3>3 DEF LandAgain
      <4>2. Moved(w) /\ worker'[w].rows = worker[w].rows /\ worker'[w].pc = "flush"
        BY <3>1, <3>2, <4>1, GoesOn
      <4>3. Quiet(w)
        BY <3>1, <3>3, <4>2 DEF Quiet, LandAgain, Landing
      <4> QED
        BY <4>3 DEF StepKind
    <3>4. CASE Check(w)
      <4>1. Become(w, [worker[w] EXCEPT !.pc = "write"]) /\ "write" \in Landing
        BY <3>4 DEF Check, Landing
      <4>2. Moved(w) /\ worker'[w].pc = "write"
        BY <3>1, <3>2, <4>1, GoesOn
      <4>3. Quiet(w)
        BY <3>1, <3>4, <4>2 DEF Quiet, Check
      <4> QED
        BY <4>3 DEF StepKind
    <3> QED
      BY <2>5, <3>3, <3>4
  <2>6. CASE Rejected(w)
    <3>1. At(w, "push") /\ Underway(w) /\ ~ At(w, "flush") /\ "push" \in Landing
          /\ "rebase" \in Landing
      BY <2>6 DEF Rejected, At, Underway, Landing
    <3>2. worker[w].rows # <<>> /\ Become(w, [worker[w] EXCEPT !.pc = "rebase"])
      BY <2>6, <3>1 DEF WorkersInv, Tidy, Rejected, At
    <3>3. Moved(w) /\ worker'[w].drafts = worker[w].drafts /\ worker'[w].pc = "rebase"
          /\ Rendered(w)' = Rendered(w)
      BY <3>1, <3>2, GoesOn
    <3>4. Quiet(w)
      BY <2>6, <3>1, <3>3 DEF Quiet, Rejected
    <3> QED
      BY <3>4 DEF StepKind
  <2>7. ASSUME NEW f \in Derived, NEW level \in Levels, NEW torn \in BOOLEAN,
               Assess(w, [fact |-> f, level |-> level, reviewed |-> FALSE, torn |-> torn])
        PROVE  StepKind
    <3>1. Moved(w) /\ worker'[w].pc \in {"assess", "review"}
      BY <2>7, AssessMoves
    <3>2. UNCHANGED <<recordVars, ledger, worldVars, runVars, changes, crossVars, told>>
      BY <2>7 DEF Assess
    <3>3. Quiet(w)
      BY <3>1, <3>2 DEF Quiet, Landing
    <3> QED
      BY <3>3 DEF StepKind
  <2>8. ASSUME NEW level \in Levels, escalate(w, level)
        PROVE  StepKind
    <3>1. Quiet(w)
      BY <2>8, EscalateMoves DEF Quiet, escalate, Landing
    <3> QED
      BY <3>1 DEF StepKind
  <2> QED
    BY <1>1, <2>1, <2>2, <2>3, <2>4, <2>5, <2>6, <2>7, <2>8 DEF AssessRecord, Goes
<1>2. CASE World
  <2>1. CASE (\E facts \in Versions : EditClaims(facts)) \/ Revert \/ PullRebase \/ PullPush
    BY <2>1 DEF StepKind
  <2>2. ASSUME NEW f \in Derived, NEW ps \in Findings, Reverify(f, ps)
        PROVE  Elsewhere
    <3>1. verdicts' \in [Derived -> SUBSET Pair]
      BY <2>2, FindingsAssumption DEF Reverify, Types, WorldTypes
    <3>2. changes' \in 0 .. MaxChanges
      BY <2>2, ChangeCounts DEF Reverify, Types
    <3> QED
      BY <2>2, <3>1, <3>2 DEF Reverify, Elsewhere, crossVars, Types, WorldTypes
  <2>3. ASSUME NEW status \in {"open", "confirmed-open", "dissolved"}, Dispute(status)
        PROVE  Elsewhere
    <3>1. changes' \in 0 .. MaxChanges
      BY <2>3, ChangeCounts DEF Dispute, Types
    <3> QED
      BY <2>3, <3>1 DEF Dispute, Elsewhere, crossVars, Types, WorldTypes, Statuses
  <2>4. ASSUME NEW outcome \in {"resolved", "dissent"}, Debate(outcome)
        PROVE  Elsewhere
    <3>1. changes' \in 0 .. MaxChanges
      BY <2>4, ChangeCounts DEF Debate, Types
    <3> QED
      BY <2>4, <3>1 DEF Debate, Elsewhere, crossVars, Types, WorldTypes, Outcomes
  <2>5. CASE PullStop
    <3>1. Elsewhere
      BY <2>5 DEF PullStop, Elsewhere, worldVars, Types, WorldTypes
    <3> QED
      BY <3>1 DEF StepKind
  <2> QED
    BY <1>2, <2>1, <2>2, <2>3, <2>4, <2>5 DEF World, StepKind
<1>3. CASE UNCHANGED controversyVars
  <2>1. Elsewhere
    BY <1>3 DEF controversyVars, recordVars, worldVars, runVars, crossVars, Elsewhere,
                Types, WorldTypes
  <2> QED
    BY <2>1 DEF StepKind
<1> QED
  BY <1>1, <1>2, <1>3 DEF ControversyNext

-----------------------------------------------------------------------------
(* Types. *)

LEMMA TellsType == ASSUME NEW r \in Record
                   PROVE  Tells(r) \in SUBSET (Derived \X (0 .. 3))
<1>1. \A f \in Derived : Level(r, f) \in 0 .. 3
  <2> TAKE f \in Derived
  <2>1. r.block[Key[f]] \in Entry \cup {NoValue}
    BY KeyOfFact DEF Record
  <2> QED
    BY <2>1 DEF Level, Entry
<1> QED
  BY <1>1 DEF Tells

LEMMA TellType == ASSUME WorkerTypes, main' \in Record, Tell
                  PROVE  /\ told' \in [Workers -> SUBSET (Derived \X (0 .. 3))]
                         /\ \A w \in Workers : told'[w] = told[w] \cup Tells(main')
<1>1. Tells(main') \in SUBSET (Derived \X (0 .. 3))
  BY TellsType
<1>2. \A w \in Workers : told'[w] = told[w] \cup Tells(main')
  BY DEF Tell
<1>3. \A w \in Workers : told[w] \in SUBSET (Derived \X (0 .. 3))
  BY DEF WorkerTypes
<1>4. \A w \in Workers : told'[w] \in SUBSET (Derived \X (0 .. 3))
  BY <1>1, <1>2, <1>3
<1>5. told' = [w \in Workers |-> told'[w]]
  BY DEF Tell
<1> QED
  BY <1>2, <1>4, <1>5

\* A worker that writes, commits, rebases or pushes goes on with its landing.
LEMMA GoesMoves == ASSUME Types, WorkersInv, NEW w \in Workers, Goes(w)
                   PROVE  /\ Moved(w) /\ Underway(w) /\ Lands(w) /\ worker[w] \in Busy
                          /\ worker'[w].pc \in {"commit", "rebase", "push", "flush"}
                          /\ Rendered(w) \in Record /\ Rendered(w)' = Rendered(w)
                          /\ worker'[w].rows = worker[w].rows /\ worker'[w].run = worker[w].run
                          /\ worker'[w].base = worker[w].base
                          /\ worker'[w].drafts = worker[w].drafts
<1>1. PICK point \in {"commit", "rebase", "push", "flush"} :
          Become(w, [worker[w] EXCEPT !.pc = point])
  <2>1. CASE Write(w)
    BY <2>1 DEF Write
  <2>2. CASE Commit(w)
    BY <2>2 DEF Commit
  <2>3. CASE Rebase(w)
    BY <2>3 DEF Rebase
  <2>4. CASE Land(w)
    BY <2>4 DEF Land
  <2> QED
    BY <2>1, <2>2, <2>3, <2>4 DEF Goes
<1>2. Lands(w) /\ Underway(w) /\ ~ At(w, "flush")
  <2>1. worker[w].pc \in Landing
    BY DEF Goes, Write, Commit, Rebase, Land, At, Landing
  <2> QED
    BY <2>1 DEF Lands, Underway, At, Landing
<1>3. worker[w].rows # <<>>
  BY <1>2 DEF WorkersInv, Tidy, Lands
<1>4. point \in {"land", "flush"} \cup Landing /\ (point \in {"land", "write"} => Writing(w))
  BY DEF Landing
<1>5. worker[w] \in Busy
  BY <1>2, WorkerIs DEF Types
<1>6. /\ Moved(w) /\ worker'[w].pc = point /\ Rendered(w)' = Rendered(w)
      /\ worker'[w].rows = worker[w].rows /\ worker'[w].base = worker[w].base
      /\ worker'[w].drafts = worker[w].drafts /\ worker'[w].run = worker[w].run
  BY <1>1, <1>2, <1>3, <1>4, GoesOn
<1> QED
  BY <1>2, <1>5, <1>6, RenderedText

\* Before its first fact a worker has read the file, and nothing else (run.py).
LEMMA StartMakes == ASSUME Types, NEW w \in Workers, NEW escalating \in BOOLEAN, Start(w, escalating)
                    PROVE  /\ worker'[w] \in Busy /\ worker'[w].pc = "assess"
                           /\ worker'[w].run = runs + 1 /\ worker'[w].base = file
                           /\ worker'[w].todo = file.facts
                           /\ worker'[w].drafts = NoDrafts /\ worker'[w].rows = <<>>
                           /\ \A p \in Workers \ {w} : worker'[p] = worker[p]
                           /\ worker' \in [Workers -> Busy \cup {IdleWorker}]
                           /\ runs' = runs + 1 /\ runs' \in 1 .. MaxRuns
                           /\ alone' \in {alone, alone \cup {runs + 1}} /\ crossed' = crossed \ {w}
<1> DEFINE y == [pc |-> "assess", run |-> runs + 1, base |-> file,
                 seen |-> [debate |-> debate, dispute |-> dispute],
                 todo |-> file.facts,
                 asked |-> NoValue, drafts |-> NoDrafts, rows |-> <<>>]
<1>1. runs' = runs + 1 /\ runs + 1 \in 1 .. MaxRuns
  BY BoundsAssumption DEF Start, Types, WorldTypes
<1>2. /\ file \in Record /\ file.facts \in SUBSET Derived
      /\ NoDrafts \in [Keys -> Assessment \cup {NoValue}]
  BY DEF Types, RecordTypes, Record, NoDrafts
<1>3. y \in Busy
  BY <1>1, <1>2 DEF Types, WorldTypes, Busy
<1>4. Become(w, y)
  BY DEF Start
<1>5. /\ y.pc = "assess" /\ y.run = runs + 1 /\ y.base = file /\ y.todo = file.facts
      /\ y.drafts = NoDrafts /\ y.rows = <<>>
  OBVIOUS
<1> HIDE DEF y
<1>6. /\ worker'[w] = y /\ \A p \in Workers \ {w} : worker'[p] = worker[p]
      /\ worker' \in [Workers -> Busy \cup {IdleWorker}]
  BY <1>3, <1>4 DEF Types, WorkerTypes, Become
<1>7. alone' \in {alone, alone \cup {runs + 1}} /\ crossed' = crossed \ {w}
  BY DEF Start
<1> QED
  BY <1>1, <1>3, <1>5, <1>6, <1>7

LEMMA EditText == ASSUME Types, NEW facts \in Versions, EditClaims(facts)
                  PROVE  /\ main' \in Record /\ main'.facts = facts
                         /\ \A k \in Keys : \/ main'.block[k] = NoValue
                                            \/ /\ main'.block[k] = main.block[k]
                                               /\ main'.block[k].fact \in facts
<1> DEFINE block == [k \in Keys |-> IF main.block[k] # NoValue /\ main.block[k].fact \notin facts
                                    THEN NoValue ELSE main.block[k]]
<1>1. main' = [facts |-> facts, block |-> block]
  BY DEF EditClaims
<1>2. block \in [Keys -> Entry \cup {NoValue}]
  BY DEF Types, RecordTypes, Record
<1>3. facts \in SUBSET Derived
  BY RecordAssumption
<1>4. \A k \in Keys : \/ block[k] = NoValue
                      \/ block[k] = main.block[k] /\ block[k].fact \in facts
  OBVIOUS
<1> HIDE DEF block
<1>5. main' \in Record /\ main'.facts = facts /\ main'.block = block
  BY <1>1, <1>2, <1>3 DEF Record
<1> QED
  BY <1>4, <1>5

LEMMA RevertText == ASSUME Types, Revert
                    PROVE  /\ main' \in Record /\ main'.facts = main.facts
                           /\ \A k \in Keys : main'.block[k] = NoValue
<1>1. main' = [main EXCEPT !.block = NoDrafts]
  BY DEF Revert
<1>2. NoDrafts \in [Keys -> Entry \cup {NoValue}] /\ \A k \in Keys : NoDrafts[k] = NoValue
  BY DEF NoDrafts
<1> QED
  BY <1>1, <1>2 DEF Types, RecordTypes, Record

\* A landing that is crossed is one of a worker's (land.py has no lock).
LEMMA CrossedType == ASSUME CrossTypes, NEW landers \in SUBSET Workers, CrossesWorkers(landers)
                     PROVE  crossed' \subseteq Workers
BY DEF CrossTypes, CrossesWorkers

LEMMA CrossesType == ASSUME CrossTypes, NEW w \in Workers, Crosses(w)
                     PROVE  /\ crossed' \subseteq Workers /\ pull' \in {"none", "rebased", "crossed"}
                            /\ pull' # "rebased"
                            /\ w \in crossed' <=> w \in crossed
                            /\ \A p \in Workers \ {w} : Lands(p) => p \in crossed'
                            /\ crossed \subseteq crossed'
<1>1. crossed' = crossed \cup {p \in Workers \ {w} : Lands(p)}
  BY DEF Crosses, CrossesWorkers, Lands
<1>2. pull' = IF pull = "rebased" THEN "crossed" ELSE pull
  BY DEF Crosses, CrossesPull
<1>3. pull' \in {"none", "rebased", "crossed"} /\ pull' # "rebased"
  BY <1>2 DEF CrossTypes
<1> QED
  BY <1>1, <1>3 DEF CrossTypes

LEMMA TypesStep == ASSUME Types, WorkersInv, StepKind
                   PROVE  Types'
<1>1. ASSUME NEW w \in Workers, NEW escalating \in BOOLEAN, Start(w, escalating)
      PROVE  Types'
  <2>1. Tells(file) \in SUBSET (Derived \X (0 .. 3))
    BY TellsType DEF Types, RecordTypes
  <2>2. told' \in [Workers -> SUBSET (Derived \X (0 .. 3))]
    BY <1>1, <2>1 DEF Start, Types, WorkerTypes
  <2>3. worker' \in [Workers -> Busy \cup {IdleWorker}] /\ runs' \in 0 .. MaxRuns
        /\ alone' \subseteq 1 .. MaxRuns
    <3>1. /\ worker' \in [Workers -> Busy \cup {IdleWorker}]
          /\ runs' = runs + 1 /\ runs' \in 1 .. MaxRuns
          /\ alone' \in {alone, alone \cup {runs + 1}}
      BY <1>1, StartMakes
    <3>2. alone \subseteq 1 .. MaxRuns
      BY DEF Types, WorldTypes
    <3> QED
      BY <3>1, <3>2
  <2>4. RecordTypes' /\ CrossTypes'
    BY <1>1 DEF Start, Types, RecordTypes, CrossTypes, recordVars
  <2>5. WorldTypes'
    BY <1>1, <2>3 DEF Start, Types, WorldTypes, worldVars
  <2> QED
    BY <2>2, <2>3, <2>4, <2>5 DEF Types, WorkerTypes
<1>2. ASSUME NEW w \in Workers, Quiet(w)
      PROVE  Types'
  BY <1>2 DEF Quiet, Moved, Types, RecordTypes, WorldTypes, CrossTypes, WorkerTypes,
              recordVars, worldVars, runVars, crossVars
<1>3. ASSUME NEW w \in Workers, Goes(w)
      PROVE  Types'
  <2>1. Moved(w) /\ Rendered(w) \in Record
    BY <1>3, GoesMoves
  <2>2. Crosses(w) /\ blind' \in BOOLEAN
    BY <1>3 DEF Goes, Write, Commit, Rebase, Land, Types, CrossTypes
  <2>3. CrossTypes'
    BY <2>2, CrossesType DEF Types, CrossTypes
  <2>4. RecordTypes' /\ told' \in [Workers -> SUBSET (Derived \X (0 .. 3))]
    <3>1. CASE Write(w)
      BY <2>1, <3>1 DEF Write, Types, RecordTypes, WorkerTypes
    <3>2. CASE Commit(w)
      BY <2>1, <3>2 DEF Commit, Types, RecordTypes, WorkerTypes
    <3>3. CASE Rebase(w)
      <4>1. Rebased(clone) \in Record
        BY RebasedText DEF Types, RecordTypes
      <4> QED
        BY <3>3, <4>1 DEF Rebase, RebaseClone, Types, RecordTypes, WorkerTypes
    <3>4. CASE Land(w)
      <4>1. main' \in Record /\ RecordTypes' /\ Tell
        BY <3>4 DEF Land, PushClone, Types, RecordTypes
      <4> QED
        BY <4>1, TellType DEF Types
    <3> QED
      BY <1>3, <3>1, <3>2, <3>3, <3>4 DEF Goes
  <2>5. WorldTypes'
    BY <1>3 DEF Goes, Write, Commit, Rebase, Land, Types, WorldTypes, worldVars, runVars
  <2> QED
    BY <2>1, <2>3, <2>4, <2>5 DEF Moved, Types, WorkerTypes
<1>4. ASSUME NEW w \in Workers, Flush(w)
      PROVE  Types'
  <2> DEFINE a == Head(worker[w].rows)
             row == [level |-> a.level, reviewed |-> a.reviewed, run |-> a.run, inputs |-> a.inputs]
  <2>1. Moved(w) /\ a \in Row
    BY <1>4, FlushMoves
  <2>2. row \in LedgerRow /\ a.fact \in Derived
    BY <2>1 DEF Row, LedgerRow
  <2>3. ledger' = [ledger EXCEPT ![a.fact] = row]
    BY <1>4 DEF Flush
  <2> HIDE DEF a, row
  <2>4. ledger' \in [Derived -> LedgerRow \cup {NoValue}]
    BY <2>2, <2>3 DEF Types, WorldTypes
  <2> QED
    BY <1>4, <2>1, <2>4 DEF Flush, Moved, Types, RecordTypes, WorldTypes, CrossTypes, WorkerTypes,
                            recordVars, worldVars, runVars, crossVars
<1>5. CASE PullRebase
  <2>1. RecordTypes'
    BY <1>5, RebasedText DEF PullRebase, RebaseClone, Types, RecordTypes
  <2>2. CrossTypes'
    BY <1>5, CrossedType DEF PullRebase, Types, CrossTypes
  <2> QED
    BY <1>5, <2>1, <2>2 DEF PullRebase, Types, WorldTypes, WorkerTypes, worldVars, runVars
<1>6. ASSUME NEW facts \in Versions, EditClaims(facts)
      PROVE  Types'
  <2>1. main' \in Record /\ changes' \in 0 .. MaxChanges /\ Tell
    BY <1>6, EditText, ChangeCounts DEF EditClaims, Types
  <2>2. told' \in [Workers -> SUBSET (Derived \X (0 .. 3))]
    BY <2>1, TellType DEF Types
  <2> QED
    BY <1>6, <2>1, <2>2 DEF EditClaims, Types, RecordTypes, WorldTypes, CrossTypes, WorkerTypes,
                            worldVars, runVars, crossVars
<1>7. CASE Revert
  <2>1. main' \in Record /\ changes' \in 0 .. MaxChanges /\ Tell
    BY <1>7, RevertText, ChangeCounts DEF Revert, Types
  <2>2. told' \in [Workers -> SUBSET (Derived \X (0 .. 3))]
    BY <2>1, TellType DEF Types
  <2> QED
    BY <1>7, <2>1, <2>2 DEF Revert, Types, RecordTypes, WorldTypes, CrossTypes, WorkerTypes,
                            worldVars, runVars, crossVars
<1>8. CASE PullPush
  <2>1. main' \in Record /\ RecordTypes' /\ Tell
    BY <1>8 DEF PullPush, PushClone, Types, RecordTypes
  <2>2. told' \in [Workers -> SUBSET (Derived \X (0 .. 3))]
    BY <2>1, TellType DEF Types
  <2>3. CrossTypes'
    BY <1>8, CrossedType DEF PullPush, Types, CrossTypes
  <2> QED
    BY <1>8, <2>1, <2>2, <2>3 DEF PullPush, Types, WorldTypes, WorkerTypes, worldVars, runVars
<1>9. CASE Elsewhere
  BY <1>9 DEF Elsewhere, Types, RecordTypes, WorldTypes, CrossTypes, WorkerTypes, recordVars,
              runVars
<1> QED
  BY <1>1, <1>2, <1>3, <1>4, <1>5, <1>6, <1>7, <1>8, <1>9 DEF StepKind

-----------------------------------------------------------------------------
(* The record and the workers. *)

\* What was reviewed stays so when more runs are typed without a reviewer.
LEMMA ReviewedStays == ASSUME NEW r, NEW solo, NEW more, solo \subseteq more, Reviewed(r, solo)
                       PROVE  Reviewed(r, more)
BY DEF Reviewed

LEMMA TidyStays == ASSUME NEW x, NEW solo, NEW more, solo \subseteq more, Tidy(x, solo)
                   PROVE  Tidy(x, more)
BY ReviewedStays DEF Tidy

\* A rebase brings only entries of either side, so what is reviewed stays reviewed.
LEMMA RebasedReviewed ==
    ASSUME RecordTypes, NEW ours \in Record, Reviewed(ours, alone), Reviewed(main, alone)
    PROVE  Reviewed(Rebased(ours), alone)
BY RebasedText DEF Reviewed

LEMMA RenderedReviewed == ASSUME NEW w \in Workers, worker[w] \in Busy, Tidy(worker[w], alone)
                          PROVE  Reviewed(Rendered(w), alone)
<1> SUFFICES ASSUME NEW k \in Keys
             PROVE  Rendered(w).block[k] # NoValue /\ Rendered(w).block[k].level = 3 =>
                        Rendered(w).block[k].reviewed \/ Rendered(w).block[k].run \in alone
  BY DEF Reviewed
<1> DEFINE x == worker[w]
<1>1. Rendered(w).block[k] =
          IF x.drafts[k] = NoValue THEN x.base.block[k]
          ELSE IF x.drafts[k].level = 0 THEN NoValue
          ELSE [fact |-> x.drafts[k].fact, level |-> x.drafts[k].level,
                reviewed |-> x.drafts[k].reviewed, run |-> x.run]
  BY RenderedText
<1>2. x.drafts[k] # NoValue /\ x.drafts[k].level = 3 => x.drafts[k].reviewed \/ x.run \in alone
  BY DEF Tidy
<1>3. x.base.block[k] # NoValue /\ x.base.block[k].level = 3 =>
          x.base.block[k].reviewed \/ x.base.block[k].run \in alone
  BY DEF Tidy, Reviewed
<1> HIDE DEF x
<1> QED
  BY <1>1, <1>2, <1>3 DEF Reviewed

\* A push that is not crossed pushes what its validators have read.
LEMMA PushedValid == ASSUME MayPush, PushClone, file = clone
                     PROVE  \A k \in Keys : main'.block[k] # NoValue =>
                                main'.block[k].fact \in main'.facts
BY DEF MayPush, PushClone, Valid

LEMMA RecordStep == ASSUME ControversyInv, StepKind, Types'
                    PROVE  RecordInv'
<1> USE DEF ControversyInv
<1>1. ASSUME UNCHANGED recordVars, blind' = blind, alone \subseteq alone'
      PROVE  RecordInv'
  <2>1. /\ Reviewed(main, alone') /\ Reviewed(clone, alone')
        /\ Reviewed(file, alone') /\ Reviewed(fork, alone')
    BY <1>1, ReviewedStays DEF RecordInv
  <2>2. main' = main /\ clone' = clone /\ file' = file /\ fork' = fork
    BY <1>1 DEF recordVars
  <2> QED
    BY <1>1, <2>1, <2>2 DEF RecordInv, NoOrphanLevel, Reviewed
<1>2. ASSUME NEW w \in Workers,
             (\E escalating \in BOOLEAN : Start(w, escalating)) \/ Quiet(w) \/ Flush(w)
      PROVE  RecordInv'
  <2>1. UNCHANGED recordVars /\ blind' = blind
    BY <1>2 DEF Start, Quiet, Flush, crossVars
  <2>2. alone \subseteq alone'
    BY <1>2 DEF Start, Quiet, Flush, runVars
  <2> QED
    BY <1>1, <2>1, <2>2
<1>3. ASSUME NEW w \in Workers, Write(w)
      PROVE  RecordInv'
  <2>1. Goes(w)
    BY <1>3 DEF Goes
  <2>2. worker[w] \in Busy /\ Tidy(worker[w], alone)
    BY <2>1, GoesMoves DEF WorkersInv
  <2>3. Reviewed(Rendered(w), alone)
    BY <2>2, RenderedReviewed
  <2>4. /\ main' = main /\ clone' = clone /\ fork' = fork /\ file' = Rendered(w)
        /\ alone' = alone /\ blind' = blind
    BY <1>3 DEF Write, runVars
  <2> QED
    BY <2>3, <2>4 DEF RecordInv, NoOrphanLevel, Reviewed
<1>4. ASSUME NEW w \in Workers, Commit(w)
      PROVE  RecordInv'
  <2>1. /\ main' = main /\ clone' = file /\ fork' = fork /\ file' = file
        /\ alone' = alone /\ blind' = blind
    BY <1>4 DEF Commit, runVars
  <2> QED
    BY <2>1 DEF RecordInv, NoOrphanLevel, Reviewed
<1>5. ASSUME RebaseClone, main' = main, alone' = alone, blind' = blind
      PROVE  RecordInv'
  <2>1. Reviewed(Rebased(clone), alone)
    BY RebasedReviewed DEF Types, RecordTypes, RecordInv
  <2>2. clone' = Rebased(clone) /\ file' = Rebased(clone) /\ fork' = main
    BY <1>5 DEF RebaseClone
  <2> QED
    BY <1>5, <2>1, <2>2 DEF RecordInv, NoOrphanLevel, Reviewed
<1>6. ASSUME PushClone, clone' = clone, file' = file, alone' = alone,
             blind' \/ \A k \in Keys : main'.block[k] # NoValue => main'.block[k].fact \in main'.facts
      PROVE  RecordInv'
  <2>1. main' = clone /\ fork' = clone
    BY <1>6 DEF PushClone
  <2>2. NoOrphanLevel'
    BY <1>6 DEF NoOrphanLevel
  <2> QED
    BY <1>6, <2>1, <2>2 DEF RecordInv, Reviewed
<1>7. ASSUME NEW w \in Workers, Rebase(w)
      PROVE  RecordInv'
  BY <1>5, <1>7 DEF Rebase, runVars
<1>8. ASSUME NEW w \in Workers, Land(w)
      PROVE  RecordInv'
  <2>1. PushClone /\ MayPush /\ clone' = clone /\ file' = file /\ alone' = alone
        /\ blind' = (blind \/ w \in crossed)
    BY <1>8 DEF Land, runVars
  <2>2. w \notin crossed => file = clone
    BY <1>8 DEF Land, At, LandInv, Lands, Landing, Unmixed
  <2>3. blind' \/ \A k \in Keys : main'.block[k] # NoValue => main'.block[k].fact \in main'.facts
    BY <2>1, <2>2, PushedValid
  <2> QED
    BY <1>6, <2>1, <2>3
<1>9. CASE PullRebase
  BY <1>5, <1>9 DEF PullRebase, runVars
<1>10. CASE PullPush
  <2>1. PushClone /\ MayPush /\ clone' = clone /\ file' = file /\ alone' = alone
        /\ blind' = (blind \/ pull = "crossed") /\ pull # "none"
    BY <1>10 DEF PullPush, runVars
  <2>2. pull # "crossed" => file = clone
    BY <2>1 DEF LandInv, Types, CrossTypes
  <2>3. blind' \/ \A k \in Keys : main'.block[k] # NoValue => main'.block[k].fact \in main'.facts
    BY <2>1, <2>2, PushedValid
  <2> QED
    BY <1>6, <2>1, <2>3
<1>11. ASSUME NEW facts \in Versions, EditClaims(facts)
       PROVE  RecordInv'
  <2>1. clone' = clone /\ file' = file /\ fork' = fork /\ alone' = alone
    BY <1>11 DEF EditClaims, runVars
  <2>2. /\ main'.facts = facts
        /\ \A k \in Keys : \/ main'.block[k] = NoValue
                           \/ /\ main'.block[k] = main.block[k]
                              /\ main'.block[k].fact \in facts
    BY <1>11, EditText
  <2> QED
    BY <2>1, <2>2 DEF RecordInv, NoOrphanLevel, Reviewed
<1>12. CASE Revert
  <2>1. clone' = clone /\ file' = file /\ fork' = fork /\ alone' = alone
    BY <1>12 DEF Revert, runVars
  <2> QED
    BY <1>12, <2>1, RevertText DEF RecordInv, NoOrphanLevel, Reviewed
<1>13. CASE Elsewhere
  BY <1>1, <1>13 DEF Elsewhere, runVars
<1> QED
  BY <1>2, <1>3, <1>4, <1>7, <1>8, <1>9, <1>10, <1>11, <1>12, <1>13 DEF StepKind, Goes

LEMMA MovedTidy == ASSUME WorkersInv, NEW w \in Workers, Moved(w), alone' = alone
                   PROVE  WorkersInv'
<1> SUFFICES ASSUME NEW p \in Workers, Underway(p)'
             PROVE  Tidy(worker'[p], alone)
  BY DEF WorkersInv, Tidy, Reviewed, Drafted, SharesKey
<1>1. CASE p = w
  BY <1>1 DEF Moved, Underway, IdleWorker
<1>2. CASE p # w
  BY <1>2 DEF Moved, Underway, WorkersInv
<1> QED
  BY <1>1, <1>2

LEMMA WorkersStep == ASSUME ControversyInv, StepKind
                     PROVE  WorkersInv'
<1> USE DEF ControversyInv
<1>1. ASSUME NEW w \in Workers, NEW escalating \in BOOLEAN, Start(w, escalating)
      PROVE  WorkersInv'
  <2> SUFFICES ASSUME NEW p \in Workers, Underway(p)'
               PROVE  Tidy(worker'[p], alone')
    BY DEF WorkersInv, Tidy, Reviewed, Drafted, SharesKey
  <2>0. alone \subseteq alone'
    BY <1>1, StartMakes
  <2>1. CASE p = w
    <3>1. /\ worker'[w].pc = "assess" /\ worker'[w].base = file /\ worker'[w].todo = file.facts
          /\ worker'[w].drafts = NoDrafts /\ worker'[w].rows = <<>>
      BY <1>1, StartMakes
    <3>2. Len(worker'[w].rows) = 0
      BY <3>1
    <3>3. \A k \in Keys : worker'[w].drafts[k] = NoValue
      BY <3>1 DEF NoDrafts
    <3>4. Tidy(worker'[w], alone)
      BY <3>1, <3>2, <3>3 DEF Tidy, RecordInv, Landing
    <3> QED
      BY <2>0, <2>1, <3>4, TidyStays
  <2>2. CASE p # w
    <3>1. Tidy(worker'[p], alone)
      BY <1>1, <2>2, StartMakes DEF Underway, WorkersInv
    <3> QED
      BY <2>0, <3>1, TidyStays
  <2> QED
    BY <2>1, <2>2
<1>2. ASSUME NEW w \in Workers, Quiet(w)
      PROVE  WorkersInv'
  BY <1>2, MovedTidy DEF Quiet, runVars
<1>3. ASSUME NEW w \in Workers, Goes(w)
      PROVE  WorkersInv'
  <2>1. alone' = alone
    BY <1>3 DEF Goes, Write, Commit, Rebase, Land, runVars
  <2> QED
    BY <1>3, <2>1, GoesMoves, MovedTidy
<1>4. ASSUME NEW w \in Workers, Flush(w)
      PROVE  WorkersInv'
  <2>1. alone' = alone
    BY <1>4 DEF Flush, runVars
  <2> QED
    BY <1>4, <2>1, FlushMoves, MovedTidy
<1>5. CASE (\E facts \in Versions : EditClaims(facts)) \/ Revert \/ PullRebase \/ PullPush \/ Elsewhere
  <2>1. worker' = worker /\ alone' = alone
    BY <1>5 DEF EditClaims, Revert, PullRebase, PullPush, Elsewhere, runVars
  <2> QED
    BY <2>1 DEF WorkersInv, Underway
<1> QED
  BY <1>1, <1>2, <1>3, <1>4, <1>5 DEF StepKind

-----------------------------------------------------------------------------
(* The runs: where the entries of a run are. *)

LEMMA RebasedHolds == ASSUME RecordTypes, NEW ours \in Record, NEW n, Holds(Rebased(ours), n)
                      PROVE  Holds(ours, n) \/ Holds(main, n)
BY RebasedText DEF Holds

LEMMA RenderedHolds == ASSUME NEW w \in Workers, worker[w] \in Busy, NEW n, Holds(Rendered(w), n)
                       PROVE  Holds(worker[w].base, n) \/ n = worker[w].run
<1> DEFINE x == worker[w]
<1>1. PICK k \in Keys : Rendered(w).block[k] # NoValue /\ Rendered(w).block[k].run = n
  BY DEF Holds
<1>2. Rendered(w).block[k] =
          IF x.drafts[k] = NoValue THEN x.base.block[k]
          ELSE IF x.drafts[k].level = 0 THEN NoValue
          ELSE [fact |-> x.drafts[k].fact, level |-> x.drafts[k].level,
                reviewed |-> x.drafts[k].reviewed, run |-> x.run]
  BY RenderedText
<1> HIDE DEF x
<1>3. Holds(x.base, n) \/ n = x.run
  BY <1>1, <1>2 DEF Holds
<1> QED
  BY <1>3 DEF x

\* The runs stay apart when a step adds to the texts only entries that some text had, or
\* entries of a worker that is done writing.
LEMMA RunsMove ==
    ASSUME Types, Types', RunsInv, runs' = runs,
           \A w \in Workers : Underway(w)' => /\ Underway(w) /\ worker'[w].run = worker[w].run
                                              /\ Writing(w)' => Writing(w),
           \A r \in TextsNow', n \in 1 .. MaxRuns : Holds(r, n) =>
               \/ \E q \in TextsNow : Holds(q, n)
               \/ \E w \in Workers : Underway(w) /\ ~ Writing(w)' /\ n = worker[w].run
    PROVE  RunsInv'
<1>1. \A w \in Workers : Underway(w) => worker[w].run \in 1 .. MaxRuns
  BY WorkerIs DEF Types, Busy
<1>2. \A w \in Workers : Writing(w)' => Underway(w)'
  BY DEF Writing, Underway
<1>3. ASSUME NEW r \in TextsNow', NEW n \in 1 .. MaxRuns, Holds(r, n)
      PROVE  n <= runs'
  BY <1>3 DEF RunsInv
<1>4. ASSUME NEW w \in Workers, Writing(w)', NEW r \in TextsNow', Holds(r, worker'[w].run)
      PROVE  FALSE
  <2>1. Underway(w) /\ worker'[w].run = worker[w].run /\ Writing(w) /\ worker[w].run \in 1 .. MaxRuns
    BY <1>1, <1>2, <1>4
  <2>2. CASE \E q \in TextsNow : Holds(q, worker[w].run)
    BY <2>1, <2>2 DEF RunsInv
  <2>3. CASE \E p \in Workers : Underway(p) /\ ~ Writing(p)' /\ worker[w].run = worker[p].run
    BY <1>4, <2>1, <2>3 DEF RunsInv
  <2> QED
    BY <1>4, <2>1, <2>2, <2>3
<1>5. \A w \in Workers : Underway(w)' => worker'[w].run <= runs'
  BY DEF RunsInv
<1>6. \A w, p \in Workers :
          Underway(w)' /\ Underway(p)' /\ worker'[w].run = worker'[p].run => w = p
  BY DEF RunsInv
<1>7. \A r : \A n : Holds(r, n)' <=> Holds(r, n)
  BY DEF Holds
<1> QED
  BY <1>3, <1>4, <1>5, <1>6, <1>7 DEF RunsInv

\* A worker that moves keeps its run and its base, and does not begin to write.
LEMMA MovedRuns == ASSUME WorkerTypes, NEW w \in Workers, Moved(w)
                   PROVE  \A p \in Workers : Underway(p)' =>
                              /\ Underway(p) /\ worker'[p].run = worker[p].run
                              /\ worker'[p].base = worker[p].base
                              /\ Writing(p)' => Writing(p)
<1> TAKE p \in Workers
<1> SUFFICES ASSUME Underway(p)'
             PROVE  /\ Underway(p) /\ worker'[p].run = worker[p].run
                    /\ worker'[p].base = worker[p].base
                    /\ Writing(p)' => Writing(p)
  OBVIOUS
<1>1. CASE p = w
  BY <1>1 DEF Moved, Underway, Writing, IdleWorker
<1>2. CASE p # w
  BY <1>2 DEF Moved, Underway, Writing
<1> QED
  BY <1>1, <1>2

\* The texts after a step of the record: those of the record, and the bases there were.
LEMMA TextsAfter ==
    ASSUME \A p \in Workers : Underway(p)' => Underway(p) /\ worker'[p].base = worker[p].base,
           NEW r \in TextsNow'
    PROVE  r \in {main', clone', file', fork'} \cup landed' \/ r \in TextsNow
<1>1. CASE r \in {worker'[p].base : p \in {q \in Workers : Underway(q)'}}
  <2>1. PICK p \in Workers : Underway(p)' /\ r = worker'[p].base
    BY <1>1
  <2>2. Underway(p) /\ r = worker[p].base
    BY <2>1
  <2> QED
    BY <2>2 DEF TextsNow
<1>2. CASE r \notin {worker'[p].base : p \in {q \in Workers : Underway(q)'}}
  BY <1>2 DEF TextsNow
<1> QED
  BY <1>1, <1>2

LEMMA RunsStep == ASSUME ControversyInv, StepKind, Types'
                  PROVE  RunsInv'
<1> USE DEF ControversyInv
<1>1. ASSUME NEW w \in Workers, NEW escalating \in BOOLEAN, Start(w, escalating)
      PROVE  RunsInv'
  <2>1. /\ \A p \in Workers \ {w} : worker'[p] = worker[p]
        /\ worker'[w].run = runs + 1 /\ worker'[w].base = file /\ worker'[w].pc = "assess"
        /\ runs' = runs + 1
    BY <1>1, StartMakes
  <2>2. /\ main' = main /\ clone' = clone /\ file' = file /\ fork' = fork /\ landed' = landed
    BY <1>1 DEF Start, recordVars
  <2>3. ASSUME NEW r \in TextsNow'
        PROVE  r \in TextsNow
    <3>1. CASE r \in {worker'[p].base : p \in {q \in Workers : Underway(q)'}}
      <4>1. PICK p \in Workers : Underway(p)' /\ r = worker'[p].base
        BY <3>1
      <4>2. CASE p = w
        BY <2>1, <4>1, <4>2 DEF TextsNow
      <4>3. CASE p # w
        <5>1. Underway(p) /\ r = worker[p].base
          BY <2>1, <4>1, <4>3 DEF Underway
        <5> QED
          BY <5>1 DEF TextsNow
      <4> QED
        BY <4>2, <4>3
    <3>2. CASE r \notin {worker'[p].base : p \in {q \in Workers : Underway(q)'}}
      BY <2>2, <3>2 DEF TextsNow
    <3> QED
      BY <3>1, <3>2
  <2>4. runs \in Nat /\ \A p \in Workers : Underway(p) => worker[p].run \in 1 .. MaxRuns
    BY WorkerIs DEF Types, WorldTypes, Busy
  <2>5. \A p \in Workers \ {w} : /\ Underway(p)' => Underway(p) /\ worker'[p].run <= runs
                                                    /\ worker'[p].run = worker[p].run
                                                    /\ worker'[p].run \in 1 .. MaxRuns
                                 /\ Writing(p)' => Writing(p)
    BY <2>1, <2>4 DEF RunsInv, Underway, Writing
  <2>6. \A r : \A n : Holds(r, n)' <=> Holds(r, n)
    BY DEF Holds
  <2>7. \A r \in TextsNow', n \in 1 .. MaxRuns : Holds(r, n) => n <= runs
    BY <2>3 DEF RunsInv
  <2>8. runs + 1 \in 1 .. MaxRuns
    BY <1>1, StartMakes
  <2>9. \A r \in TextsNow' : ~ Holds(r, runs + 1)
    BY <2>4, <2>7, <2>8
  <2>10. \A p \in Workers \ {w} : Writing(p)' => \A r \in TextsNow' : ~ Holds(r, worker'[p].run)
    BY <2>1, <2>3, <2>5 DEF RunsInv
  <2>11. \A r \in TextsNow', n \in 1 .. MaxRuns : Holds(r, n) => n <= runs'
    BY <2>1, <2>4, <2>7
  <2>12. \A p \in Workers : Underway(p)' => worker'[p].run <= runs'
    BY <2>1, <2>4, <2>5
  <2>13. \A q, p \in Workers :
            Underway(q)' /\ Underway(p)' /\ worker'[q].run = worker'[p].run => q = p
    <3>1. \A p \in Workers \ {w} : Underway(p)' => worker'[p].run # worker'[w].run
      BY <2>1, <2>4, <2>5
    <3> QED
      BY <2>5, <3>1 DEF RunsInv
  <2>14. \A p \in Workers : Writing(p)' => \A r \in TextsNow' : ~ Holds(r, worker'[p].run)
    BY <2>1, <2>9, <2>10
  <2> QED
    BY <2>6, <2>11, <2>12, <2>13, <2>14 DEF RunsInv
<1>2. ASSUME NEW w \in Workers, Quiet(w) \/ Flush(w)
      PROVE  RunsInv'
  <2>1. Moved(w) /\ UNCHANGED recordVars /\ runs' = runs
    BY <1>2, FlushMoves DEF Quiet, Flush, runVars
  <2>2. \A p \in Workers : Underway(p)' => /\ Underway(p) /\ worker'[p].run = worker[p].run
                                           /\ worker'[p].base = worker[p].base
                                           /\ Writing(p)' => Writing(p)
    BY <2>1, MovedRuns DEF Types
  <2>3. \A r \in TextsNow' : r \in TextsNow
    BY <2>1, <2>2, TextsAfter DEF recordVars, TextsNow
  <2> QED
    BY <2>1, <2>2, <2>3, RunsMove
<1>3. ASSUME NEW w \in Workers, Goes(w)
      PROVE  RunsInv'
  <2>1. /\ Moved(w) /\ Underway(w) /\ worker[w] \in Busy
        /\ worker'[w].pc \in {"commit", "rebase", "push", "flush"}
    BY <1>3, GoesMoves
  <2>2. \A p \in Workers : Underway(p)' => /\ Underway(p) /\ worker'[p].run = worker[p].run
                                           /\ worker'[p].base = worker[p].base
                                           /\ Writing(p)' => Writing(p)
    BY <2>1, MovedRuns DEF Types
  <2>3. ~ Writing(w)' /\ runs' = runs
    BY <1>3, <2>1 DEF Writing, Goes, Write, Commit, Rebase, Land, runVars
  <2>4. /\ main' \in {main, clone} /\ clone' \in {clone, file, Rebased(clone)}
        /\ file' \in {file, Rendered(w), Rebased(clone)} /\ fork' \in {fork, main, clone}
        /\ landed' \subseteq landed \cup {Rendered(w)}
    <3>1. CASE Write(w)
      BY <3>1 DEF Write
    <3>2. CASE Commit(w)
      BY <3>2 DEF Commit
    <3>3. CASE Rebase(w)
      BY <3>3 DEF Rebase, RebaseClone
    <3>4. CASE Land(w)
      BY <3>4 DEF Land, PushClone
    <3> QED
      BY <1>3, <3>1, <3>2, <3>3, <3>4 DEF Goes
  <2>5. worker[w].base \in TextsNow
    BY <2>1 DEF TextsNow
  <2>6. ASSUME NEW r \in TextsNow', NEW n \in 1 .. MaxRuns, Holds(r, n)
        PROVE  \/ \E q \in TextsNow : Holds(q, n)
               \/ \E p \in Workers : Underway(p) /\ ~ Writing(p)' /\ n = worker[p].run
    <3>1. r \in {Rebased(clone), Rendered(w)} \/ r \in TextsNow
      BY <2>2, <2>4, TextsAfter DEF TextsNow
    <3>2. Holds(Rendered(w), n) => Holds(worker[w].base, n) \/ n = worker[w].run
      BY <2>1, RenderedHolds
    <3>3. Holds(Rebased(clone), n) => Holds(clone, n) \/ Holds(main, n)
      BY RebasedHolds DEF Types, RecordTypes
    <3>4. clone \in TextsNow /\ main \in TextsNow
      BY DEF TextsNow
    <3> QED
      BY <2>1, <2>3, <2>5, <2>6, <3>1, <3>2, <3>3, <3>4
  <2> QED
    BY <2>2, <2>3, <2>6, RunsMove
<1>4. ASSUME worker' = worker, runs' = runs, landed' = landed,
             {clone', file', fork'} \subseteq {main, clone, file, fork, Rebased(clone)},
             \A n \in 1 .. MaxRuns : Holds(main', n) => Holds(main, n) \/ Holds(clone, n)
      PROVE  RunsInv'
  <2>1. \A p \in Workers : Underway(p)' => /\ Underway(p) /\ worker'[p].run = worker[p].run
                                           /\ worker'[p].base = worker[p].base
                                           /\ Writing(p)' => Writing(p)
    BY <1>4 DEF Underway, Writing
  <2>2. \A r \in TextsNow', n \in 1 .. MaxRuns : Holds(r, n) => \E q \in TextsNow : Holds(q, n)
    <3> TAKE r \in TextsNow', n \in 1 .. MaxRuns
    <3>1. r \in {main', Rebased(clone)} \/ r \in TextsNow
      BY <1>4, <2>1, TextsAfter DEF TextsNow
    <3>2. Holds(Rebased(clone), n) => Holds(clone, n) \/ Holds(main, n)
      BY RebasedHolds DEF Types, RecordTypes
    <3>3. clone \in TextsNow /\ main \in TextsNow
      BY DEF TextsNow
    <3> QED
      BY <1>4, <3>1, <3>2, <3>3
  <2> QED
    BY <1>4, <2>1, <2>2, RunsMove
<1>5. CASE PullRebase
  <2>1. /\ clone' = Rebased(clone) /\ file' = Rebased(clone) /\ fork' = main /\ main' = main
        /\ worker' = worker /\ runs' = runs /\ landed' = landed
    BY <1>5 DEF PullRebase, RebaseClone, runVars
  <2> QED
    BY <1>4, <2>1
<1>6. CASE PullPush
  <2>1. /\ clone' = clone /\ file' = file /\ fork' = clone /\ main' = clone
        /\ worker' = worker /\ runs' = runs /\ landed' = landed
    BY <1>6 DEF PullPush, PushClone, runVars
  <2> QED
    BY <1>4, <2>1
<1>7. ASSUME NEW facts \in Versions, EditClaims(facts)
      PROVE  RunsInv'
  <2>1. \A n \in 1 .. MaxRuns : Holds(main', n) => Holds(main, n)
    BY <1>7, EditText DEF Holds
  <2>2. /\ clone' = clone /\ file' = file /\ fork' = fork
        /\ worker' = worker /\ runs' = runs /\ landed' = landed
    BY <1>7 DEF EditClaims, runVars
  <2> QED
    BY <1>4, <2>1, <2>2
<1>8. CASE Revert
  <2>1. \A n \in 1 .. MaxRuns : ~ Holds(main', n)
    BY <1>8, RevertText DEF Holds
  <2>2. /\ clone' = clone /\ file' = file /\ fork' = fork
        /\ worker' = worker /\ runs' = runs /\ landed' = landed
    BY <1>8 DEF Revert, runVars
  <2> QED
    BY <1>4, <2>1, <2>2
<1>9. CASE Elsewhere
  BY <1>4, <1>9 DEF Elsewhere, recordVars, runVars
<1> QED
  BY <1>1, <1>2, <1>3, <1>5, <1>6, <1>7, <1>8, <1>9 DEF StepKind

-----------------------------------------------------------------------------
(* The landings. *)

\* An assessed entry with a level is, in the text its worker renders, an entry of its run.
LEMMA DraftIsRendered ==
    ASSUME NEW w \in Workers, worker[w] \in Busy, NEW k \in Keys,
           worker[w].drafts[k] # NoValue, worker[w].drafts[k].level > 0
    PROVE  LET entry == Rendered(w).block[k]
           IN  /\ entry # NoValue /\ entry.run = worker[w].run
               /\ entry.fact = worker[w].drafts[k].fact
               /\ entry.level = worker[w].drafts[k].level
<1> DEFINE a == worker[w].drafts[k]
           run == worker[w].run
<1>1. a \in Assessment /\ a.level > 0 /\ run \in 1 .. MaxRuns
  BY DEF Busy
<1>2. a # NoValue
  OBVIOUS
<1>3. Rendered(w).block[k] =
          IF a = NoValue THEN worker[w].base.block[k]
          ELSE IF a.level = 0 THEN NoValue
          ELSE [fact |-> a.fact, level |-> a.level, reviewed |-> a.reviewed, run |-> run]
  BY RenderedText
<1> HIDE DEF a, run
<1>4. a.fact \in Derived /\ a.level \in 1 .. 3 /\ a.reviewed \in BOOLEAN /\ a.level # 0
  BY <1>1 DEF Assessment
<1> DEFINE entry == [fact |-> a.fact, level |-> a.level, reviewed |-> a.reviewed, run |-> run]
<1>5. Rendered(w).block[k] = entry
  BY <1>2, <1>3, <1>4
<1>6. entry \in Entry
  BY <1>1, <1>4 DEF Entry
<1>7. entry # NoValue
  BY <1>6, NothingAssumption
<1>8. entry.run = run /\ entry.fact = a.fact /\ entry.level = a.level
  OBVIOUS
<1> HIDE DEF entry
<1> QED
  BY <1>5, <1>7, <1>8 DEF a, run

\* What a worker renders is its own.
LEMMA RenderedOurs == ASSUME NEW w \in Workers, worker[w] \in Busy
                      PROVE  Ours(w, Rendered(w))
BY RenderedText DEF Ours

\* The rebase of a text that is a worker's own, onto a main without its entries, is so too.
LEMMA RebasedOurs ==
    ASSUME Types, NEW w \in Workers, worker[w] \in Busy, Ours(w, clone),
           ~ Holds(fork, worker[w].run), fork' = main, Rendered(w)' = Rendered(w),
           worker'[w].base = worker[w].base, worker'[w].drafts = worker[w].drafts,
           clone' = Rebased(clone)
    PROVE  Ours(w, clone)'
<1> DEFINE x == worker[w]
           r == Rebased(clone)
<1>1. clone \in Record /\ fork \in Record /\ main \in Record
  BY DEF Types, RecordTypes
<1>2. /\ r.facts = IF clone.facts = fork.facts THEN main.facts ELSE clone.facts
      /\ \A k \in Keys : r.block[k] = IF clone.block[k] = fork.block[k] THEN main.block[k]
                                      ELSE clone.block[k]
  BY <1>1, RebasedText DEF Types
<1> HIDE DEF r
<1>3. r.facts \in {main.facts, x.base.facts}
  BY <1>2 DEF Ours
<1>4. \A k \in Keys : x.drafts[k] = NoValue => r.block[k] \in {main.block[k], x.base.block[k]}
  BY <1>2 DEF Ours
<1>5. ASSUME NEW k \in Keys, x.drafts[k] # NoValue, x.drafts[k].level > 0
      PROVE  r.block[k] = Rendered(w).block[k]
  <2>1. clone.block[k] = Rendered(w).block[k]
    BY <1>5 DEF Ours
  <2>2. Rendered(w).block[k] # NoValue /\ Rendered(w).block[k].run = x.run
    BY <1>5, DraftIsRendered
  <2>3. clone.block[k] # fork.block[k]
    BY <2>1, <2>2 DEF Holds
  <2> QED
    BY <1>2, <2>1, <2>3
<1> QED
  BY <1>3, <1>4, <1>5 DEF Ours, r

LEMMA GoesUnmixed == ASSUME ControversyInv, NEW w \in Workers, Goes(w), Unmixed(w), Lands(w)'
                     PROVE  Unmixed(w)'
<1> USE DEF ControversyInv
<1>1. /\ worker[w] \in Busy /\ Rendered(w)' = Rendered(w)
      /\ worker'[w].run = worker[w].run /\ worker'[w].base = worker[w].base
      /\ worker'[w].drafts = worker[w].drafts /\ worker' \in [Workers -> Busy \cup {IdleWorker}]
  BY GoesMoves DEF Moved
<1>2. ~ Holds(main, worker[w].run) /\ ~ Holds(fork, worker[w].run)
  BY DEF Unmixed
<1>3. \A y : worker' = [worker EXCEPT ![w] = y] => worker'[w] = y
  BY DEF Types, WorkerTypes
<1>4. CASE Write(w)
  <2>1. At(w, "commit")' /\ file' = Rendered(w) /\ main' = main /\ fork' = fork
    BY <1>1, <1>3, <1>4 DEF Write, At, Become, Busy
  <2> QED
    BY <1>1, <1>2, <2>1 DEF Unmixed, At, Holds
<1>5. CASE Commit(w)
  <2>1. /\ At(w, "rebase")' /\ file' = file /\ clone' = file /\ main' = main /\ fork' = fork
        /\ At(w, "commit")
    BY <1>1, <1>3, <1>5 DEF Commit, At, Become, Busy
  <2>2. clone' = Rendered(w) /\ Ours(w, Rendered(w))
    BY <1>1, <2>1, RenderedOurs DEF Unmixed
  <2>3. Ours(w, clone)'
    BY <1>1, <2>1, <2>2 DEF Ours
  <2> QED
    BY <1>1, <1>2, <2>1, <2>3 DEF Unmixed, At, Holds
<1>6. CASE Rebase(w)
  <2>1. /\ At(w, "push")' /\ clone' = Rebased(clone) /\ file' = clone' /\ fork' = main
        /\ main' = main /\ At(w, "rebase")
    BY <1>1, <1>3, <1>6 DEF Rebase, RebaseClone, At, Become, Busy
  <2>2. Ours(w, clone)
    BY <2>1 DEF Unmixed, At
  <2>3. Ours(w, clone)'
    BY <1>1, <1>2, <2>1, <2>2, RebasedOurs
  <2> QED
    BY <1>1, <1>2, <2>1, <2>3 DEF Unmixed, At, Holds
<1>7. CASE Land(w)
  BY <1>1, <1>3, <1>7 DEF Land, Lands, Landing, Become, Busy
<1> QED
  BY <1>4, <1>5, <1>6, <1>7 DEF Goes

LEMMA LandStep == ASSUME ControversyInv, StepKind
                  PROVE  LandInv'
<1> USE DEF ControversyInv
<1>1. ASSUME NEW p \in Workers, worker'[p] = worker[p], Lands(p)', p \notin crossed',
             p \in crossed' <=> p \in crossed, clone' = clone, file' = file, fork' = fork,
             \A n : Holds(main', n) => Holds(main, n)
      PROVE  Unmixed(p)'
  <2>1. Unmixed(p)
    BY <1>1 DEF LandInv, Lands
  <2>2. ~ Holds(main', worker[p].run)
    BY <1>1, <2>1 DEF Unmixed
  <2>3. Rendered(p)' = Rendered(p)
    BY <1>1 DEF Rendered
  <2>4. Ours(p, clone)' <=> Ours(p, clone)
    BY <1>1, <2>3 DEF Ours
  <2>5. ~ Holds(main, worker[p].run)'
    BY <1>1, <2>2 DEF Holds
  <2>6. ~ Holds(fork, worker[p].run)'
    BY <1>1, <2>1 DEF Holds, Unmixed
  <2> QED
    BY <1>1, <2>1, <2>3, <2>4, <2>5, <2>6 DEF Unmixed, At
<1>2. ASSUME NEW w \in Workers, NEW escalating \in BOOLEAN, Start(w, escalating)
      PROVE  LandInv'
  <2>1. /\ \A p \in Workers \ {w} : worker'[p] = worker[p]
        /\ worker'[w].pc = "assess" /\ crossed' = crossed \ {w}
    BY <1>2, StartMakes
  <2>2. main' = main /\ clone' = clone /\ file' = file /\ fork' = fork /\ pull' = pull
    BY <1>2 DEF Start, recordVars
  <2>3. ~ Lands(w)'
    BY <2>1 DEF Lands, Landing
  <2> QED
    BY <1>1, <2>1, <2>2, <2>3 DEF LandInv
<1>3. ASSUME NEW w \in Workers, Quiet(w)
      PROVE  LandInv'
  <2>1. /\ \A p \in Workers \ {w} : worker'[p] = worker[p]
        /\ main' = main /\ clone' = clone /\ file' = file /\ fork' = fork
        /\ pull' = pull /\ crossed' = crossed
    BY <1>3 DEF Quiet, Moved, recordVars, crossVars
  <2>2. ASSUME Lands(w)', w \notin crossed
        PROVE  Unmixed(w)'
    <3>1. worker'[w].run = worker[w].run /\ worker'[w].base = worker[w].base
      BY <1>3, <2>2 DEF Quiet, Moved, Lands, Landing, IdleWorker
    <3>2. CASE worker'[w].pc = "write" /\ Writing(w) /\ file = worker[w].base
      <4>1. ~ Holds(main, worker[w].run) /\ ~ Holds(fork, worker[w].run)
        BY <3>2 DEF RunsInv, TextsNow
      <4> QED
        BY <2>1, <3>1, <3>2, <4>1 DEF Unmixed, At, Holds
    <3>3. CASE /\ worker'[w].pc = "rebase" /\ At(w, "push")
               /\ worker'[w].drafts = worker[w].drafts /\ Rendered(w)' = Rendered(w)
      <4>1. Unmixed(w) /\ worker[w].pc = "push"
        BY <2>2, <3>3 DEF LandInv, Lands, Landing, At
      <4>2. file = clone /\ Ours(w, clone)
        BY <4>1 DEF Unmixed
      <4>3. Ours(w, clone)'
        BY <2>1, <3>1, <3>3, <4>2 DEF Ours
      <4>4. ~ Holds(main, worker[w].run) /\ ~ Holds(fork, worker[w].run)
        BY <4>1 DEF Unmixed
      <4> QED
        BY <2>1, <3>1, <3>3, <4>2, <4>3, <4>4 DEF Unmixed, At, Holds
    <3> QED
      BY <1>3, <2>2, <3>2, <3>3 DEF Quiet, Lands
  <2> QED
    BY <1>1, <2>1, <2>2 DEF LandInv
<1>4. ASSUME NEW w \in Workers, Goes(w)
      PROVE  LandInv'
  <2>1. \A p \in Workers \ {w} : worker'[p] = worker[p]
    BY <1>4, GoesMoves DEF Moved
  <2>2. Crosses(w)
    BY <1>4 DEF Goes, Write, Commit, Rebase, Land
  <2>3. /\ pull' # "rebased" /\ (w \in crossed' <=> w \in crossed)
        /\ \A p \in Workers \ {w} : Lands(p) => p \in crossed'
    BY <2>2, CrossesType DEF Types
  <2>4. \A p \in Workers \ {w} : Lands(p)' => p \in crossed'
    BY <2>1, <2>3 DEF Lands
  <2>5. Lands(w)' /\ w \notin crossed' => Unmixed(w)'
    BY <1>4, <2>3, GoesMoves, GoesUnmixed DEF LandInv
  <2> QED
    BY <2>3, <2>4, <2>5 DEF LandInv
<1>5. ASSUME NEW w \in Workers, Flush(w)
      PROVE  LandInv'
  <2>1. /\ \A p \in Workers \ {w} : worker'[p] = worker[p]
        /\ main' = main /\ clone' = clone /\ file' = file /\ fork' = fork
        /\ pull' = pull /\ crossed' = crossed
    BY <1>5, FlushMoves DEF Flush, Moved, recordVars, crossVars
  <2>2. ~ Lands(w)'
    <3>1. worker[w] \in Busy /\ worker[w].pc = "flush"
      BY <1>5, WorkerIs DEF Types, Flush, At, Underway
    <3>2. worker'[w] \in {IdleWorker, [worker[w] EXCEPT !.rows = Tail(@)]}
      BY <1>5 DEF Flush, Become, Types, WorkerTypes
    <3>3. worker'[w].pc \in {"idle", "flush"}
      BY <3>1, <3>2 DEF IdleWorker, Busy
    <3> QED
      BY <3>3 DEF Lands, Landing
  <2> QED
    BY <1>1, <2>1, <2>2 DEF LandInv
<1>6. CASE PullRebase \/ PullPush
  <2>1. worker' = worker /\ CrossesWorkers(Workers)
    BY <1>6 DEF PullRebase, PullPush
  <2>2. \A p \in Workers : Lands(p)' => p \in crossed'
    BY <2>1 DEF CrossesWorkers, Lands
  <2>3. pull' = "rebased" => file' = clone'
    BY <1>6 DEF PullRebase, PullPush, RebaseClone
  <2> QED
    BY <2>2, <2>3 DEF LandInv
<1>7. ASSUME worker' = worker, crossed' = crossed, clone' = clone, file' = file, fork' = fork,
             pull' \in {pull, "none"}, \A n : Holds(main', n) => Holds(main, n)
      PROVE  LandInv'
  BY <1>1, <1>7 DEF LandInv
<1>8. ASSUME NEW facts \in Versions, EditClaims(facts)
      PROVE  LandInv'
  <2>1. \A n : Holds(main', n) => Holds(main, n)
    BY <1>8, EditText DEF Holds
  <2>2. /\ worker' = worker /\ crossed' = crossed /\ pull' = pull
        /\ clone' = clone /\ file' = file /\ fork' = fork
    BY <1>8 DEF EditClaims, crossVars
  <2> QED
    BY <1>7, <2>1, <2>2
<1>9. CASE Revert
  <2>1. \A n : Holds(main', n) => Holds(main, n)
    BY <1>9, RevertText DEF Holds
  <2>2. /\ worker' = worker /\ crossed' = crossed /\ pull' = pull
        /\ clone' = clone /\ file' = file /\ fork' = fork
    BY <1>9 DEF Revert, crossVars
  <2> QED
    BY <1>7, <2>1, <2>2
<1>10. CASE Elsewhere
  BY <1>7, <1>10 DEF Elsewhere, recordVars
<1> QED
  BY <1>2, <1>3, <1>4, <1>5, <1>6, <1>8, <1>9, <1>10 DEF StepKind

-----------------------------------------------------------------------------
(* What has been told. *)

\* A contested row of a fact with a key of its own is an assessed entry with its level.
LEMMA RowIsDrafted ==
    ASSUME Types, WorkersInv, NEW w \in Workers, Underway(w), ~ At(w, "flush"),
           NEW i \in 1 .. Len(worker[w].rows), worker[w].rows[i].level > 0,
           ~ SharesKey(worker[w].base, worker[w].rows[i].fact)
    PROVE  LET row == worker[w].rows[i]
               k == Key[row.fact]
           IN  /\ row \in Row /\ k \in Keys
               /\ worker[w].drafts[k] # NoValue /\ worker[w].drafts[k].level > 0
               /\ worker[w].drafts[k].fact = row.fact /\ worker[w].drafts[k].level = row.level
<1> DEFINE x == worker[w]
           row == x.rows[i]
           k == Key[row.fact]
<1>1. x \in Busy /\ Tidy(x, alone) /\ x.pc # "flush"
  BY WorkerIs DEF Types, WorkersInv, At
<1>2. x.rows \in Seq(Row)
  BY <1>1 DEF Busy
<1>3. row \in Row
  BY <1>2
<1>4. row.fact \in Derived
  BY <1>3 DEF Row
<1>5. k \in Keys
  BY <1>4, KeyOfFact
<1>6. x.drafts[k] # NoValue /\ x.drafts[k].fact = row.fact /\ x.drafts[k].level = row.level
  BY <1>1 DEF Tidy, Drafted
<1> QED
  BY <1>3, <1>5, <1>6

\* While a worker writes, an entry of its run is in none of the texts there are.
LEMMA RowIsNew ==
    ASSUME ControversyInv, NEW w \in Workers, Writing(w),
           NEW i \in 1 .. Len(worker[w].rows), worker[w].rows[i].level > 0,
           ~ SharesKey(worker[w].base, worker[w].rows[i].fact)
    PROVE  Rendered(w) \notin TextsNow
<1> DEFINE k == Key[worker[w].rows[i].fact]
<1>1. Underway(w) /\ ~ At(w, "flush")
  BY DEF Writing, Underway, At
<1>2. worker[w] \in Busy
  BY <1>1, WorkerIs DEF ControversyInv, Types
<1>3. k \in Keys /\ worker[w].drafts[k] # NoValue /\ worker[w].drafts[k].level > 0
  BY <1>1, RowIsDrafted DEF ControversyInv
<1> HIDE DEF k
<1>4. Rendered(w).block[k] # NoValue /\ Rendered(w).block[k].run = worker[w].run
  BY <1>2, <1>3, DraftIsRendered
<1>5. Holds(Rendered(w), worker[w].run)
  BY <1>3, <1>4 DEF Holds
<1>6. \A r \in TextsNow : ~ Holds(r, worker[w].run)
  BY DEF ControversyInv, RunsInv
<1> QED
  BY <1>5, <1>6

\* A landing no other crosses tells what its rows say.
LEMMA LandTells ==
    ASSUME ControversyInv, Types', NEW w \in Workers, Land(w), w \notin crossed,
           NEW i \in 1 .. Len(worker[w].rows), worker[w].rows[i].level > 0,
           ~ SharesKey(worker[w].base, worker[w].rows[i].fact)
    PROVE  <<worker[w].rows[i].fact, worker[w].rows[i].level>> \in told'[w]
<1> USE DEF ControversyInv
<1> DEFINE row == worker[w].rows[i]
           k == Key[row.fact]
<1>1. worker[w].pc = "push" /\ Underway(w) /\ ~ At(w, "flush") /\ Lands(w)
  BY DEF Land, At, Underway, Lands, Landing
<1>2. worker[w] \in Busy /\ Ours(w, clone)
  BY <1>1, WorkerIs DEF Types, LandInv, Unmixed
<1>3. main' = clone /\ Tell
  BY DEF Land, PushClone
<1>4. told'[w] = told[w] \cup Tells(main')
  BY <1>3, TellType DEF Types, RecordTypes
<1>5. /\ row \in Row /\ k \in Keys
      /\ worker[w].drafts[k] # NoValue /\ worker[w].drafts[k].level > 0
      /\ worker[w].drafts[k].fact = row.fact /\ worker[w].drafts[k].level = row.level
  BY <1>1, RowIsDrafted
<1>6. Key[row.fact] = k
  OBVIOUS
<1> HIDE DEF row, k
<1>7. clone.block[k] = Rendered(w).block[k]
  BY <1>2, <1>5 DEF Ours
<1>8. /\ Rendered(w).block[k] # NoValue
      /\ Rendered(w).block[k].fact = row.fact /\ Rendered(w).block[k].level = row.level
  BY <1>2, <1>5, DraftIsRendered
<1>9. Level(main', row.fact) = row.level /\ row.fact \in Derived
  BY <1>3, <1>5, <1>6, <1>7, <1>8 DEF Level, Row
<1>10. <<row.fact, row.level>> \in Tells(main')
  BY <1>9 DEF Tells
<1> QED
  BY <1>4, <1>10 DEF row

LEMMA ToldStep == ASSUME ControversyInv, StepKind, Types'
                  PROVE  ToldInv'
<1> USE DEF ControversyInv
<1>0. ASSUME NEW p \in Workers, worker'[p] = worker[p], told[p] \subseteq told'[p],
             At(p, "flush")', p \notin crossed, NEW i \in 1 .. Len(worker'[p].rows)
      PROVE  ToldRow(p, worker[p].rows[i])'
  <2>1. ToldRow(p, worker[p].rows[i])
    BY <1>0 DEF ToldInv, At
  <2> QED
    BY <1>0, <2>1 DEF ToldRow, SharesKey
<1>1. ASSUME NEW w \in Workers, Moved(w), \A p \in Workers : told[p] \subseteq told'[p],
             crossed \subseteq crossed',
             At(w, "flush")' /\ w \notin crossed =>
                 \A i \in 1 .. Len(worker'[w].rows) : ToldRow(w, worker[w].rows[i])'
      PROVE  ToldInv'
  <2> SUFFICES ASSUME NEW p \in Workers, At(p, "flush")', p \notin crossed',
                      NEW i \in 1 .. Len(worker'[p].rows)
               PROVE  ToldRow(p, worker[p].rows[i])'
    BY DEF ToldInv
  <2>1. CASE p = w
    BY <1>1, <2>1
  <2>2. CASE p # w
    <3>1. worker'[p] = worker[p] /\ told[p] \subseteq told'[p] /\ p \notin crossed
      BY <1>1, <2>2 DEF Moved
    <3> QED
      BY <1>0, <3>1
  <2> QED
    BY <2>1, <2>2
<1>2. ASSUME NEW w \in Workers, NEW escalating \in BOOLEAN, Start(w, escalating)
      PROVE  ToldInv'
  <2> SUFFICES ASSUME NEW p \in Workers, At(p, "flush")', p \notin crossed',
                      NEW i \in 1 .. Len(worker'[p].rows)
               PROVE  ToldRow(p, worker[p].rows[i])'
    BY DEF ToldInv
  <2>1. /\ p # w /\ worker'[p] = worker[p] /\ p \notin crossed
    BY <1>2, StartMakes DEF At
  <2>2. told'[p] = told[p]
    BY <1>2, <2>1 DEF Start, Types, WorkerTypes
  <2> QED
    BY <1>0, <2>1, <2>2
<1>3. ASSUME NEW w \in Workers, Quiet(w)
      PROVE  ToldInv'
  <2>1. ASSUME At(w, "flush")', NEW i \in 1 .. Len(worker'[w].rows)
        PROVE  ToldRow(w, worker[w].rows[i])'
    <3>1. /\ Writing(w) /\ Rendered(w) \in {worker[w].base} \cup landed
          /\ worker'[w].rows = worker[w].rows
      BY <1>3, <2>1 DEF Quiet, At
    <3>2. worker'[w].base = worker[w].base
      BY <1>3, <2>1 DEF Quiet, Moved, At, IdleWorker
    <3>3. Rendered(w) \in TextsNow
      BY <3>1 DEF TextsNow, Writing, Underway
    <3>4. ~ (worker[w].rows[i].level > 0 /\ ~ SharesKey(worker[w].base, worker[w].rows[i].fact))
      BY <2>1, <3>1, <3>3, RowIsNew
    <3> QED
      BY <3>1, <3>2, <3>4 DEF ToldRow, SharesKey
  <2>2. told' = told /\ Moved(w) /\ crossed' = crossed
    BY <1>3 DEF Quiet, crossVars
  <2> QED
    BY <1>1, <2>1, <2>2
<1>4. ASSUME NEW w \in Workers, Goes(w)
      PROVE  ToldInv'
  <2>1. /\ Moved(w) /\ worker'[w].rows = worker[w].rows /\ worker'[w].base = worker[w].base
    BY <1>4, GoesMoves
  <2>2. crossed \subseteq crossed'
    BY <1>4 DEF Goes, Write, Commit, Rebase, Land, Crosses, CrossesWorkers
  <2>3. \A p \in Workers : told[p] \subseteq told'[p]
    BY <1>4 DEF Goes, Write, Commit, Rebase, Land, PushClone, Tell
  <2>4. ASSUME At(w, "flush")', w \notin crossed, NEW i \in 1 .. Len(worker'[w].rows)
        PROVE  ToldRow(w, worker[w].rows[i])'
    <3>1. Land(w)
      <4>1. worker[w] \in Busy /\ \A y : worker' = [worker EXCEPT ![w] = y] => worker'[w] = y
        BY <1>4, GoesMoves DEF Types, WorkerTypes
      <4>2. ~ Write(w) /\ ~ Commit(w) /\ ~ Rebase(w)
        BY <2>4, <4>1 DEF Write, Commit, Rebase, Become, At, Busy
      <4> QED
        BY <1>4, <4>2 DEF Goes
    <3>2. i \in 1 .. Len(worker[w].rows)
      BY <2>1
    <3>3. worker[w].rows[i].level > 0 /\ ~ SharesKey(worker[w].base, worker[w].rows[i].fact) =>
              <<worker[w].rows[i].fact, worker[w].rows[i].level>> \in told'[w]
      BY <2>4, <3>1, <3>2, LandTells
    <3> QED
      BY <2>1, <3>3 DEF ToldRow, SharesKey
  <2> QED
    BY <1>1, <2>1, <2>2, <2>3, <2>4
<1>5. ASSUME NEW w \in Workers, Flush(w)
      PROVE  ToldInv'
  <2>1. told' = told /\ Moved(w) /\ At(w, "flush") /\ crossed' = crossed
    BY <1>5, FlushMoves DEF Flush, crossVars
  <2>2. ASSUME At(w, "flush")', w \notin crossed, NEW i \in 1 .. Len(worker'[w].rows)
        PROVE  ToldRow(w, worker[w].rows[i])'
    <3>1. i + 1 \in 1 .. Len(worker[w].rows) /\ worker'[w].rows[i] = worker[w].rows[i + 1]
      BY <1>5, <2>2, FlushMoves DEF At
    <3>2. worker'[w].base = worker[w].base
      BY <2>1, <2>2 DEF Moved, At, IdleWorker
    <3>3. ToldRow(w, worker[w].rows[i + 1])
      BY <2>1, <2>2, <3>1 DEF ToldInv
    <3> QED
      BY <2>1, <3>1, <3>2, <3>3 DEF ToldRow, SharesKey
  <2> QED
    BY <1>1, <2>1, <2>2
<1>6. ASSUME worker' = worker, crossed \subseteq crossed', \A p \in Workers : told[p] \subseteq told'[p]
      PROVE  ToldInv'
  <2> SUFFICES ASSUME NEW p \in Workers, At(p, "flush")', p \notin crossed',
                      NEW i \in 1 .. Len(worker'[p].rows)
               PROVE  ToldRow(p, worker[p].rows[i])'
    BY DEF ToldInv
  <2> QED
    BY <1>0, <1>6
<1>7. CASE (\E facts \in Versions : EditClaims(facts)) \/ Revert \/ PullRebase \/ PullPush \/ Elsewhere
  <2>1. worker' = worker /\ crossed \subseteq crossed'
    BY <1>7 DEF EditClaims, Revert, PullRebase, PullPush, Elsewhere, crossVars, CrossesWorkers
  <2>2. \A p \in Workers : told[p] \subseteq told'[p]
    BY <1>7 DEF EditClaims, Revert, PullRebase, PullPush, PushClone, Elsewhere, Tell
  <2> QED
    BY <1>6, <2>1, <2>2
<1> QED
  BY <1>2, <1>3, <1>4, <1>5, <1>7 DEF StepKind

\* Only a flush changes the ledger.
LEMMA OnlyFlushes == ASSUME StepKind, ledger' # ledger
                     PROVE  \E w \in Workers : Flush(w)
BY DEF StepKind, Start, Quiet, Goes, Write, Commit, Rebase, Land, EditClaims, Revert,
       PullRebase, PullPush, Elsewhere

\* A flush remembers the first of the worker's rows (ledger.py).
LEMMA FlushMakes ==
    ASSUME Types, WorkersInv, NEW w \in Workers, Flush(w)
    PROVE  LET row == worker[w].rows[1]
           IN  /\ row \in Row /\ row.fact \in Derived /\ 1 \in 1 .. Len(worker[w].rows)
               /\ ledger'[row.fact] = [level |-> row.level, reviewed |-> row.reviewed,
                                       run |-> row.run, inputs |-> row.inputs]
               /\ \A f \in Derived \ {row.fact} : ledger'[f] = ledger[f]
<1> DEFINE row == worker[w].rows[1]
<1>1. Head(worker[w].rows) = row /\ row \in Row /\ 1 \in 1 .. Len(worker[w].rows)
  BY FlushMoves
<1>2. ledger' = [ledger EXCEPT ![row.fact] =
                    [level |-> row.level, reviewed |-> row.reviewed,
                     run |-> row.run, inputs |-> row.inputs]]
  BY <1>1 DEF Flush
<1>3. ledger \in [Derived -> LedgerRow \cup {NoValue}] /\ row.fact \in Derived
  BY <1>1 DEF Types, WorldTypes, Row
<1> HIDE DEF row
<1> QED
  BY <1>1, <1>2, <1>3 DEF row

LEMMA LedgerStep == ASSUME ControversyInv, StepKind
                    PROVE  LedgerInv'
<1> USE DEF ControversyInv
<1>1. ASSUME NEW w \in Workers, Flush(w)
      PROVE  LedgerInv'
  <2> DEFINE row == worker[w].rows[1]
  <2>1. Underway(w) /\ Tidy(worker[w], alone)
    BY <1>1 DEF Flush, At, Underway, WorkersInv
  <2>2. /\ row.fact \in Derived
        /\ ledger'[row.fact] = [level |-> row.level, reviewed |-> row.reviewed,
                                run |-> row.run, inputs |-> row.inputs]
        /\ \A f \in Derived \ {row.fact} : ledger'[f] = ledger[f]
        /\ 1 \in 1 .. Len(worker[w].rows)
    BY <1>1, FlushMakes
  <2>3. row.level = 3 => row.reviewed \/ row.run \in alone
    BY <2>1, <2>2 DEF Tidy
  <2>4. alone' = alone
    BY <1>1 DEF Flush, runVars
  <2> HIDE DEF row
  <2>5. /\ ledger'[row.fact].level = row.level /\ ledger'[row.fact].reviewed = row.reviewed
        /\ ledger'[row.fact].run = row.run
    BY <2>2
  <2> QED
    BY <2>2, <2>3, <2>4, <2>5 DEF LedgerInv
<1>2. CASE ledger' = ledger
  <2>1. alone \subseteq alone'
    BY DEF StepKind, Start, Quiet, Goes, Write, Commit, Rebase, Land, Flush, EditClaims, Revert,
           PullRebase, PullPush, Elsewhere, runVars
  <2> QED
    BY <1>2, <2>1 DEF LedgerInv
<1> QED
  BY <1>1, <1>2, OnlyFlushes

-----------------------------------------------------------------------------
(* The theorems. *)

LEMMA ControversyStart == ASSUME ControversyInit
                          PROVE  ControversyInv
<1> DEFINE r == [facts |-> Present, block |-> NoDrafts]
<1>1. r \in Record /\ r.facts = Present /\ r.block = NoDrafts
  BY RecordAssumption DEF Record, NoDrafts
<1>2. \A k \in Keys : r.block[k] = NoValue
  BY <1>1 DEF NoDrafts
<1>3. main = r /\ clone = r /\ file = r /\ fork = r /\ landed = {r}
  BY DEF ControversyInit
<1> HIDE DEF r
<1>4. /\ worker = [w \in Workers |-> IdleWorker] /\ told = [w \in Workers |-> {}]
      /\ alone = {} /\ pull = "none" /\ crossed = {} /\ blind = FALSE
  BY DEF ControversyInit
<1>5. \A w \in Workers : ~ Underway(w) /\ ~ Writing(w) /\ ~ At(w, "flush") /\ ~ Lands(w)
  BY <1>4 DEF Underway, Writing, At, Lands, Landing, IdleWorker
<1>6. Types
  <2>1. RecordTypes
    BY <1>1, <1>3 DEF RecordTypes
  <2>2. WorldTypes
    BY <1>4, BoundsAssumption DEF ControversyInit, WorldTypes, Statuses, Outcomes
  <2>3. WorkerTypes /\ CrossTypes
    BY <1>4 DEF WorkerTypes, CrossTypes
  <2> QED
    BY <2>1, <2>2, <2>3 DEF Types
<1>7. RecordInv
  BY <1>2, <1>3 DEF RecordInv, NoOrphanLevel, Reviewed
<1>8. \A q \in TextsNow : q = r
  BY <1>3, <1>5 DEF TextsNow
<1>9. RunsInv
  BY <1>2, <1>5, <1>8 DEF RunsInv, Holds
<1>10. LedgerInv /\ LandInv
  BY <1>3, <1>5 DEF ControversyInit, LedgerInv, LandInv
<1> QED
  BY <1>5, <1>6, <1>7, <1>9, <1>10 DEF ControversyInv, WorkersInv, ToldInv

LEMMA ControversyStep == ASSUME ControversyInv, [ControversyNext]_controversyVars
                         PROVE  ControversyInv'
<1>1. StepKind
  BY KindOfStep DEF ControversyInv
<1>2. Types'
  BY <1>1, TypesStep DEF ControversyInv
<1> QED
  BY <1>1, <1>2, RecordStep, RunsStep, LandStep, WorkersStep, ToldStep, LedgerStep
     DEF ControversyInv

LEMMA ControversyInvariant == ControversySpec => []ControversyInv
<1>1. ControversyInit => ControversyInv
  BY ControversyStart
<1>2. ControversyInv /\ [ControversyNext]_controversyVars => ControversyInv'
  BY ControversyStep
<1> QED
  BY <1>1, <1>2, PTL DEF ControversySpec

\* A level stands on a fact its record derives, and a level 3 on a review or on a command
\* typed without one (store.py:121, assessor.py:86, cli.py:120): for any record, workers,
\* findings and levels, through races, rebases, refused commits that go out later, and
\* corrected claims.
THEOREM LevelsHold == ControversySpec => []LevelsStand
<1>1. ControversyInv => LevelsStand
  <2> SUFFICES ASSUME ControversyInv
               PROVE  LevelsStand
    OBVIOUS
  <2> USE DEF ControversyInv
  <2>1. \A w \in Workers : worker[w].pc \in {"idle", "assess", "review", "land", "flush"} \cup Landing
    BY WorkerIs DEF Types, Busy
  <2>2. \A f \in Derived : ledger[f] # NoValue =>
            ledger[f].level \in 0 .. 3 /\ ledger[f].reviewed \in BOOLEAN
    BY DEF Types, WorldTypes, LedgerRow
  <2>3. ControversyOK
    BY <2>1, <2>2 DEF ControversyOK, Types, RecordTypes, WorldTypes, CrossTypes, WorkerTypes
  <2>4. NoOrphanLevel /\ LevelThreeReviewed
    BY DEF RecordInv, LedgerInv, Reviewed, LevelThreeReviewed
  <2> QED
    BY <2>3, <2>4 DEF LevelsStand
<1> QED
  BY <1>1, ControversyInvariant, PTL

\* A landing that no other crosses writes over the entries its worker assessed and nothing
\* else, and its push brings beside them only what the clone had when it was read
\* (block.py:8).
LEMMA WriteTouches == ASSUME ControversyInv, NEW w \in Workers \ crossed, Write(w)
                      PROVE  /\ file'.facts = file.facts
                             /\ \A k \in Keys : worker[w].drafts[k] = NoValue =>
                                                    file'.block[k] = file.block[k]
<1>1. Goes(w) /\ Lands(w) /\ At(w, "write")
  BY DEF Goes, Write, At, Lands, Landing
<1>2. worker[w] \in Busy /\ file = worker[w].base
  BY <1>1, GoesMoves DEF ControversyInv, LandInv, Unmixed
<1>3. file' = Rendered(w)
  BY DEF Write
<1> QED
  BY <1>2, <1>3, RenderedText

LEMMA LandTouches ==
    ASSUME ControversyInv, NEW w \in Workers \ crossed, Land(w)
    PROVE  /\ main'.facts \in {main.facts, worker[w].base.facts}
           /\ \A k \in Keys : worker[w].drafts[k] = NoValue =>
                                  main'.block[k] \in {main.block[k], worker[w].base.block[k]}
<1>1. Lands(w) /\ At(w, "push") /\ main = fork /\ main' = clone
  BY DEF Land, MayPush, PushClone, At, Lands, Landing
<1>2. Ours(w, clone)
  BY <1>1 DEF ControversyInv, LandInv, Unmixed, At
<1> QED
  BY <1>1, <1>2 DEF Ours

\* The ledger changes by a row that has been told (run.py:109).
LEMMA FlushedIsTold == ASSUME ControversyInv, [ControversyNext]_controversyVars,
                              NEW f \in Derived, ledger'[f] # ledger[f], ledger'[f].level > 0
                       PROVE  \E w \in Workers :
                                 /\ At(w, "flush")
                                 /\ \/ SharesKey(worker[w].base, f) \/ w \in crossed
                                    \/ <<f, ledger'[f].level>> \in told[w]
<1> USE DEF ControversyInv
<1>1. PICK w \in Workers : Flush(w)
  BY KindOfStep, OnlyFlushes
<1> DEFINE row == worker[w].rows[1]
<1>2. /\ row.fact \in Derived /\ 1 \in 1 .. Len(worker[w].rows)
      /\ ledger'[row.fact] = [level |-> row.level, reviewed |-> row.reviewed,
                              run |-> row.run, inputs |-> row.inputs]
      /\ \A g \in Derived \ {row.fact} : ledger'[g] = ledger[g]
  BY <1>1, FlushMakes
<1>3. At(w, "flush") /\ (w \notin crossed => ToldRow(w, row))
  BY <1>1, <1>2 DEF Flush, ToldInv
<1> HIDE DEF row
<1>4. f = row.fact /\ ledger'[f].level = row.level
  BY <1>2
<1> QED
  BY <1>3, <1>4 DEF ToldRow

\* What the assessor remembers and what it writes agree with what main tells, and no
\* landing overwrites what another has assessed, unless the two are under way in the clone
\* at once (run.py:109, block.py:8): through refusals, races, kills, reverts and edits.
THEOREM AssessmentsHold == ControversySpec => AssessmentsStand
<1>1. ControversyInv /\ [ControversyNext]_controversyVars =>
          [\A f \in Derived : ledger'[f] # ledger[f] /\ ledger'[f].level > 0 =>
              \E w \in Workers :
                 /\ At(w, "flush")
                 /\ \/ SharesKey(worker[w].base, f) \/ w \in crossed
                    \/ <<f, ledger'[f].level>> \in told[w]]_controversyVars
  BY FlushedIsTold
<1>2. ControversyInv /\ [ControversyNext]_controversyVars =>
          [\A w \in Workers \ crossed :
              LET base == worker[w].base
                  others == {k \in Keys : worker[w].drafts[k] = NoValue}
              IN  /\ Write(w) => /\ file'.facts = file.facts
                                 /\ \A k \in others : file'.block[k] = file.block[k]
                  /\ Land(w) => /\ main'.facts \in {main.facts, base.facts}
                                /\ \A k \in others : main'.block[k] \in {main.block[k], base.block[k]}
          ]_controversyVars
  <2> SUFFICES ASSUME ControversyInv, NEW w \in Workers \ crossed
               PROVE  LET base == worker[w].base
                          others == {k \in Keys : worker[w].drafts[k] = NoValue}
                      IN  /\ Write(w) => /\ file'.facts = file.facts
                                         /\ \A k \in others : file'.block[k] = file.block[k]
                          /\ Land(w) => /\ main'.facts \in {main.facts, base.facts}
                                        /\ \A k \in others :
                                               main'.block[k] \in {main.block[k], base.block[k]}
    OBVIOUS
  <2> QED
    BY WriteTouches, LandTouches
<1>3. ControversySpec => ContestedIsTold
  BY <1>1, ControversyInvariant, PTL DEF ControversySpec, ContestedIsTold
<1>4. ControversySpec => OthersUntouched
  BY <1>2, ControversyInvariant, PTL DEF ControversySpec, OthersUntouched
<1> QED
  BY <1>3, <1>4 DEF AssessmentsStand

=============================================================================
