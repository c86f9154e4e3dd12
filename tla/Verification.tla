----------------------------- MODULE Verification -----------------------------
(***************************************************************************)
(* Verification as processes (verify/pipeline.py, batch.py,                *)
(* admissibility.py, contradictions.py, jobs/verification.py):             *)
(* the nightly job and the developer's gates check facts pair by pair and  *)
(* decide them, over the stored chunks, the register of contradictions and *)
(* the sourcing queue they share with ingestion.                           *)
(*                                                                         *)
(* What a pair's stages answer is a choice among what the state of the     *)
(* source allows; Verdicts has the stages and the rules.  Facts carry no   *)
(* since here.  The register is a file that is loaded, emptied and written *)
(* again, without a lock; two that write it in the same moment leave the   *)
(* text of the later one here, and a killed one leaves none of its own.    *)
(* A debate that mints does the same to it; the gates stand for debates.   *)
(* Its landing is its result (Landing has the rest), and nobody edits it   *)
(* by hand.  The verdict ledger is append-only, no decision reads it, and  *)
(* it is left out.                                                         *)
(***************************************************************************)
EXTENDS Ingestion

CONSTANTS
    Facts,        \* derived facts
    Cites,        \* Cites[f]: the sources f cites, in order
    Known,        \* sources with a committed record
    Tier,         \* their tiers
    Verifiers,    \* processes that verify: the nightly job and the gates
    Nightly,      \* those that are the nightly job
    Budget,       \* bounce_budget
    Outcomes,     \* bound: the verdicts the models' stages come to
    MaxWork       \* bound: facts taken up

\* There is somebody who verifies, and one nightly run at a time at most: the driver works
\* through the items of a run one after the other (driver.py:71).
ASSUME VerifiersAssumption ==
    /\ IsFiniteSet(Verifiers) /\ Verifiers # {} /\ Nightly \subseteq Verifiers
    /\ \A p, q \in Nightly : p = q
ASSUME FactsAssumption == Facts # {} /\ Cites \in [Facts -> Seq(Sources)] /\ Sources # {}
ASSUME BudgetAssumption == Budget \in Nat
ASSUME OutcomesAssumption == Outcomes \subseteq {"locator-not-found", "supported", "partial",
                                                 "unsupported", "contradicted"}

Rules == INSTANCE Verdicts WITH Cited <- Sources, Independent <- {}, NoValue <- "none"

VARIABLES
    verifier,     \* per verifier, what it is doing
    register,     \* contradictions.yaml in the work tree
    onMain,       \* contradictions.yaml on origin/main
    rows,         \* per fact, the nightly job's checkpoint row
    conflicts,    \* history: per fact, what its last nightly decision minted
    exposed,      \* history: contradictions that overlapping rewrites of the register, or
                  \* one that was killed, may have taken off it
    canaries,     \* of this nightly run: not asked yet, or whether one wrongly passed
    work

books == <<register, onMain, rows, conflicts, exposed>>
verificationVars == <<verifier, books, canaries, work>>

Points == {"idle", "pairs", "file", "bounce", "select", "refile", "mint", "dump", "land"}

Conflict == Facts \X Sources

\* A verifier's place, its fact, the citations left, the verdicts it has, the source it
\* files or bounces, what its SELECT returned, and the register as it loaded it.
Verifier == [pc : Points, fact : Facts, left : Seq(Sources), pairs : SUBSET Rules!Pair,
             target : Sources, found : Nat \cup {NoEntry}, loaded : SUBSET Conflict]

Idle == [pc |-> "idle", fact |-> CHOOSE f \in Facts : TRUE, left |-> <<>>, pairs |-> {},
         target |-> CHOOSE s \in Sources : TRUE, found |-> NoEntry, loaded |-> {}]

VerificationOK ==
    /\ verifier \in [Verifiers -> Verifier]
    /\ \A p \in Verifiers : verifier[p].found \in Rows \cup {NoEntry}
    /\ register \subseteq Conflict /\ onMain \subseteq Conflict /\ exposed \subseteq Conflict
    /\ rows \in [Facts -> {"none", "done", "halted"}]
    /\ conflicts \in [Facts -> SUBSET Conflict]
    /\ canaries \in {"unasked", "caught", "passed"}

VerificationInit ==
    /\ verifier = [p \in Verifiers |-> Idle]
    /\ register = {} /\ onMain = {} /\ exposed = {}
    /\ rows = [f \in Facts |-> "none"]
    /\ conflicts = [f \in Facts |-> {}]
    /\ canaries = "unasked"
    /\ work = 0

At(p, point) == verifier[p].pc = point
Become(p, state) == verifier' = [verifier EXCEPT ![p] = state]

-----------------------------------------------------------------------------
(* The nightly run. *)

\* The canaries, once per run, before its first fact.
_canary_preflight(answer) ==
    /\ canaries = "unasked" /\ \E p \in Nightly : At(p, "idle")
    /\ canaries' = answer
    /\ UNCHANGED <<verifier, books, work, queue>>

\* A canary that passes halts the item, and with it the run.
HaltItem(f) ==
    /\ canaries = "passed" /\ rows[f] = "none" /\ \A p \in Nightly : At(p, "idle")
    /\ rows' = [rows EXCEPT ![f] = "halted"]
    /\ canaries' = "unasked"
    /\ UNCHANGED <<verifier, register, onMain, conflicts, exposed, work, queue>>

\* The next invocation asks again.
NextRun ==
    /\ canaries # "unasked" /\ \A p \in Nightly : At(p, "idle")
    /\ canaries' = "unasked"
    /\ UNCHANGED <<verifier, books, work, queue>>

-----------------------------------------------------------------------------
(* The pairs of a fact. *)

\* The driver skips settled rows; a gate takes any fact.
TakeUp(p, f) ==
    /\ At(p, "idle") /\ work < MaxWork
    /\ p \in Nightly => rows[f] = "none" /\ canaries = "caught"
    /\ work' = work + 1
    /\ Become(p, [Idle EXCEPT !.pc = "pairs", !.fact = f, !.left = Cites[f]])
    /\ UNCHANGED <<books, canaries, queue>>

\* Citations are checked in their order.
Checking(p, s) == /\ At(p, "pairs") /\ verifier[p].left # <<>>
                  /\ s = Head(verifier[p].left)

\* The verifier with one more verdict.
With(p, s, verdict) ==
    [verifier[p] EXCEPT !.pc = "pairs", !.left = Tail(@),
                        !.pairs = @ \cup {[source |-> s, verdict |-> verdict, since |-> "none"]}]

Unavailable(s) == s \notin Known \/ row[s] = None

\* What the citation as it is written answers, before anybody asks for the source: a
\* locator of the wrong shape or kind, a quote over the cap.  (No fact of the store is a
\* registry-existence claim.)
Unread == {"locator-not-found", "unsupported"}

\* What the stages may answer: a source that was refused has a row and no chunks.
Answers(s) ==
    IF row[s] = None \/ chunks[s] = None THEN Unread
    ELSE Unread \cup Outcomes

CheckPair(p, s, verdict) ==
    /\ Checking(p, s)
    /\ s \in Known /\ verdict \in Answers(s)
    /\ Become(p, With(p, s, verdict))
    /\ UNCHANGED <<books, canaries, work, queue>>

\* An exception becomes a verdict too, the budget's included; only the batch catches it.
PairRaises(p, s) ==
    /\ p \in Nightly /\ Checking(p, s)
    /\ Become(p, With(p, s, "source-unavailable"))
    /\ UNCHANGED <<books, canaries, work, queue>>

\* A citation of a source that is not there: the SELECT of `file`, then the rest.
SelectIssue(p, s) ==
    /\ Checking(p, s) /\ Unavailable(s)
    /\ \E id \in Rows \cup {NoEntry} :
           /\ Select("pending-source", s, "not-ingested", id)
           /\ Become(p, [verifier[p] EXCEPT !.pc = "file", !.target = s, !.found = id])
    /\ UNCHANGED <<books, canaries, work, queue>>

FileIssue(p) ==
    /\ At(p, "file")
    /\ Upsert("pending-source", verifier[p].target, "not-ingested", verifier[p].found)
    /\ Become(p, With(p, verifier[p].target, "source-unavailable"))
    /\ UNCHANGED <<books, canaries, work>>

-----------------------------------------------------------------------------
(* The decision. *)

Ready(p) == At(p, "pairs") /\ verifier[p].left = <<>>
IsAdmissible(p) == Rules!Admissible(verifier[p].pairs, FALSE, {})
Mints(p) == {verifier[p].fact} \X Rules!Minted(verifier[p].pairs, IsAdmissible(p))

\* The item's row, when p is the nightly job.
SetRow(p, status) ==
    rows' = IF p \in Nightly THEN [rows EXCEPT ![verifier[p].fact] = status] ELSE rows

Finish(p) == Become(p, Idle) /\ SetRow(p, "done")

Remember(p, ids) ==
    conflicts' = IF p \in Nightly THEN [conflicts EXCEPT ![verifier[p].fact] = ids]
                 ELSE conflicts

Admitted(p) == Ready(p) /\ (IsAdmissible(p) \/ verifier[p].pairs = {})

\* Those between the load of the register and the end of the write.
Writers == {p \in Verifiers : verifier[p].pc \in {"mint", "dump"}}

BeingWritten == UNION {Mints(q) : q \in Writers}

\* What a file that is open for writing does not hold.
InMemory == UNION {verifier[q].loaded : q \in {o \in Verifiers : At(o, "dump")}}

\* p loads the register between another's load and the end of its write: what both mint,
\* and what is in the other's memory alone while the file is empty.
Overlapped(p) ==
    IF Mints(p) = {} \/ Writers = {} THEN {}
    ELSE Mints(p) \cup BeingWritten \cup InMemory

\* Minting answers for every id of the decision, those already registered included; the
\* nightly job lands the register whenever there is one.
Answered(p) ==
    /\ Remember(p, Mints(p))
    /\ IF p \in Nightly /\ Mints(p) # {}
       THEN Become(p, [verifier[p] EXCEPT !.pc = "land"]) /\ UNCHANGED rows
       ELSE Finish(p)

\* Nothing to mint, or the register as it is loaded has all of it.
Admit(p) ==
    /\ Admitted(p) /\ Mints(p) \subseteq register
    /\ Answered(p)
    /\ exposed' = exposed \cup Overlapped(p)
    /\ UNCHANGED <<register, onMain, canaries, work, queue>>

LoadRegister(p) ==
    /\ Admitted(p) /\ ~ (Mints(p) \subseteq register)
    /\ Become(p, [verifier[p] EXCEPT !.pc = "mint", !.loaded = register])
    /\ exposed' = exposed \cup Overlapped(p)
    /\ UNCHANGED <<register, onMain, rows, conflicts, canaries, work, queue>>

\* write_records opens the file, which empties it, and dumps all records into it.
OpenRegister(p) ==
    /\ At(p, "mint")
    /\ register' = {}
    /\ Become(p, [verifier[p] EXCEPT !.pc = "dump"])
    /\ UNCHANGED <<onMain, rows, conflicts, exposed, canaries, work, queue>>

DumpRegister(p) ==
    /\ At(p, "dump")
    /\ register' = verifier[p].loaded \cup Mints(p)
    /\ Answered(p)
    /\ UNCHANGED <<onMain, exposed, canaries, work, queue>>

WithinBudget(id) == queue[id].bounces < Budget

\* _bounce reads the open issue of a source with the worst verdict.
Refuse(p, s) ==
    /\ Ready(p) /\ verifier[p].pairs # {} /\ ~ IsAdmissible(p)
    /\ \E pair \in verifier[p].pairs :
           pair.source = s /\ pair.verdict = Rules!Worst(verifier[p].pairs)
    /\ Remember(p, {})
    /\ LET id == FirstOpen(s)
           goto(point) == Become(p, [verifier[p] EXCEPT !.pc = point, !.target = s, !.found = id])
       IN  \/ id = NoEntry /\ goto("select") /\ UNCHANGED rows
           \/ id # NoEntry /\ WithinBudget(id) /\ goto("bounce") /\ UNCHANGED rows
           \/ id # NoEntry /\ ~ WithinBudget(id) /\ Finish(p)
    /\ UNCHANGED <<register, onMain, exposed, canaries, work, queue>>

\* Support of the wrong tier is no failure _bounce could name: the fact is just not in.
RefuseQuietly(p) ==
    /\ Ready(p) /\ verifier[p].pairs # {} /\ ~ IsAdmissible(p)
    /\ Rules!Worst(verifier[p].pairs) = "none"
    /\ Remember(p, {})
    /\ Finish(p)
    /\ UNCHANGED <<register, onMain, exposed, canaries, work, queue>>

BounceIssue(p) ==
    /\ At(p, "bounce")
    /\ Bounce(verifier[p].found)
    /\ Finish(p)
    /\ UNCHANGED <<register, onMain, conflicts, exposed, canaries, work>>

\* With no open issue it files one: SELECT again, then the rest.
SelectAgain(p) ==
    /\ At(p, "select")
    /\ \E id \in Rows \cup {NoEntry} :
           /\ Select("pending-source", verifier[p].target, "partially-ingested", id)
           /\ Become(p, [verifier[p] EXCEPT !.pc = "refile", !.found = id])
    /\ UNCHANGED <<books, canaries, work, queue>>

Refile(p) ==
    /\ At(p, "refile")
    /\ Upsert("pending-source", verifier[p].target, "partially-ingested", verifier[p].found)
    /\ Finish(p)
    /\ UNCHANGED <<register, onMain, conflicts, exposed, canaries, work>>

\* Mutant: a landing that main refused settles the fact as well.
RowAfterAny(result) == IF result = "failed" THEN "halted" ELSE "done"

\* A blocked or contended landing pauses the run with the item unsettled, any other halts it.
RowAfter(result) ==
    CASE result = "landed" -> "done" [] result = "refused" -> "none"
      [] result = "failed" -> "halted"

\* _land_contradictions: the file as it is in the work tree now.
LandRegister(p, result) ==
    /\ At(p, "land")
    /\ onMain' = IF result = "landed" THEN register ELSE onMain
    /\ exposed' = IF result = "landed" THEN exposed \cup InMemory ELSE exposed
    /\ SetRow(p, RowAfter(result))
    /\ canaries' = IF result = "landed" THEN canaries ELSE "unasked"
    /\ Become(p, Idle)
    /\ UNCHANGED <<register, conflicts, work, queue>>

\* The process ends; its row stays unsettled and the item is run again.  The file it had
\* opened for writing stays as it is.
KillVerifier(p) ==
    /\ ~ At(p, "idle") /\ Upset
    /\ Become(p, Idle)
    /\ canaries' = IF p \in Nightly THEN "unasked" ELSE canaries
    /\ exposed' = IF At(p, "dump") THEN exposed \cup verifier[p].loaded ELSE exposed
    /\ UNCHANGED <<register, onMain, rows, conflicts, work, queue, private, tools, stored, putting, last, torn, puts>>

Check(p) ==
    \/ \E f \in Facts : TakeUp(p, f)
    \/ \E s \in Sources :
          \/ \E verdict \in Rules!PairVerdicts : CheckPair(p, s, verdict)
          \/ PairRaises(p, s) \/ SelectIssue(p, s)
    \/ FileIssue(p)

Decide(p) ==
    \/ Admit(p) \/ LoadRegister(p) \/ OpenRegister(p) \/ DumpRegister(p)
    \/ RefuseQuietly(p)
    \/ \E s \in Sources : Refuse(p, s)
    \/ BounceIssue(p) \/ SelectAgain(p) \/ Refile(p)
    \/ \E result \in {"landed", "refused", "failed"} : LandRegister(p, result)

Verify ==
    \/ \E answer \in {"caught", "passed"} : _canary_preflight(answer)
    \/ NextRun
    \/ \E f \in Facts : HaltItem(f)
    \/ \E p \in Verifiers : Check(p) \/ Decide(p)

-----------------------------------------------------------------------------
Init == queue = <<>> /\ IngestionInit /\ VerificationInit

Next ==
    \/ IngestionNext /\ UNCHANGED verificationVars
    \/ Verify /\ UNCHANGED ingestionVars
    \/ \E p \in Verifiers : KillVerifier(p)

vars == <<queue, ingestionVars, verificationVars>>

Spec == Init /\ [][Next]_vars

TypeOK == QueueOK /\ IngestionOK /\ VerificationOK

-----------------------------------------------------------------------------
(* Properties. *)

\* The 2-bounce budget of an issue (admissibility.py:83) is counted on the queue, read in
\* one statement and spent in another: whatever facts share the source and however the
\* verifiers interleave, it is overspent by at most one bounce per other verifier.
BudgetHolds ==
    \A id \in Rows : queue[id].bounces <= Budget + Cardinality(Verifiers) - 1

\* A source has as many open issues at most as there are processes that file; with one
\* of them it has one (store.py:151).
IssuesBounded ==
    \A s \in Sources : Cardinality(OpenIssues(s)) <= Cardinality(Verifiers) + 1

\* A nightly item is done only when the contradictions its decision is responsible for
\* are on main, whoever wrote them first, through refused landings and kills, and
\* whatever the register's later landings bring.  Except those the file itself may have
\* lost: contradictions.py:115-144 loads and rewrites it without a lock, so this leaves
\* out what was minted while another rewrite was under way, and what was in the memory of
\* one alone when the emptied file was loaded, landed or left behind by a kill.
ConflictsAreLanded ==
    \A f \in Facts : rows[f] = "done" => conflicts[f] \subseteq onMain \cup exposed

\* What verification writes outside its own memory holds together, however the verifiers
\* interleave and wherever one is killed: the bounces of an issue (admissibility.py:83),
\* the open issues of a source (store.py:166), and, but for what unlocked rewrites of the
\* register expose (contradictions.py:115), the contradictions of settled items on main.
VerificationSound == TypeOK /\ BudgetHolds /\ IssuesBounded /\ ConflictsAreLanded
=============================================================================
