------------------------------ MODULE Controversy ------------------------------
(***************************************************************************)
(* The controversy assessor (research/controversy, jobs/controversy.py):   *)
(* workers assess the facts of one record from structured inputs, write a  *)
(* block into the record, land it, and remember in a private ledger what   *)
(* they assessed.  Meanwhile claims are corrected, verdicts, debates and   *)
(* contradictions change, and a commit may be reverted.                    *)
(*                                                                         *)
(* The record is one file: on main, on the HEAD and in the tree of the     *)
(* clone the workers share.  A landing checks that the file is as it was   *)
(* read, writes it, commits it, rebases and pushes, and holds no lock: the *)
(* steps of two landings interleave.                                       *)
(* Signals, prompts and dates are left out; a run's number stands for what *)
(* makes an entry of that run unlike any other (date, run id).             *)
(***************************************************************************)
EXTENDS Verdicts, Sequences

CONSTANTS
    Order,        \* the facts the record has derived or may derive, in derivation order
    Key,          \* anchor_key: the key of a fact's entry in the block
    Present,      \* the facts it derives at first
    Workers,      \* the nightly job and the developer's command
    Commands,     \* those of them that may be typed with --no-escalate
    Findings,     \* bound: what the verdict ledger may hold of a fact
    Versions,     \* bound: the sets of facts the record is edited to
    Levels,       \* bound: the levels the models come to, among 0 .. 3
    MaxRuns,      \* bound: runs
    MaxChanges    \* bound: changes of the world

Derived == {Order[i] : i \in 1 .. Len(Order)}
Keys == {Key[f] : f \in Derived}

ASSUME CommandsAssumption == Commands \subseteq Workers
ASSUME LevelsAssumption == Levels \subseteq 0 .. 3
ASSUME RecordAssumption ==
    Order \in Seq(Derived) /\ Present \subseteq Derived /\ \A facts \in Versions : facts \subseteq Derived
ASSUME FindingsAssumption == \A ps \in Findings : ps \subseteq Pair
ASSUME BoundsAssumption == MaxRuns \in Nat /\ MaxChanges \in Nat

VARIABLES
    main,         \* the record on origin/main
    clone,        \* the record on the HEAD of the workers' clone
    file,         \* the record in the clone's tree
    fork,         \* the record in the commit of main the clone builds on
    landed,       \* the texts whose Record-Key the clone's history shows
    ledger,       \* AssessmentLedger: per fact, the last assessment and its inputs
    verdicts,     \* per fact, the latest verdicts of its citations
    dispute,      \* the status of the contradiction that names the record
    debate,       \* the outcome of the debate behind it
    worker,       \* per worker, what it is doing
    pull,         \* a landing of another record in the clone: none, rebased, or crossed
    runs,
    alone,        \* the runs that were typed with --no-escalate
    changes,
    crossed,      \* history: the workers with a step of another landing between theirs
    blind,        \* history: a landing that was crossed has been pushed
    told          \* history: per worker, the levels the record has told since it was read

worldVars == <<verdicts, dispute, debate>>
recordVars == <<main, clone, file, fork, landed>>
runVars == <<runs, alone>>
crossVars == <<pull, crossed, blind>>
controversyVars == <<recordVars, ledger, worldVars, worker, runVars, changes, crossVars, told>>

Entry == [fact : Derived, level : 1 .. 3, reviewed : BOOLEAN, run : 1 .. MaxRuns]
Record == [facts : SUBSET Derived, block : [Keys -> Entry \cup {NoValue}]]
Assessment == [fact : Derived, level : 0 .. 3, reviewed : BOOLEAN, torn : BOOLEAN]
ASSUME NothingAssumption == NoValue \notin Entry \cup Assessment

\* The level a record tells of a fact: an absent entry is level 0.
Level(r, f) ==
    LET entry == r.block[Key[f]]
    IN  IF entry # NoValue /\ entry.fact = f THEN entry.level ELSE 0
Tells(r) == {<<f, Level(r, f)>> : f \in Derived}

-----------------------------------------------------------------------------
(* The inputs of an assessment (assemble.py). *)

\* status: confirmed-open is set by a human challenge, which the assessor must not see.
contradiction_projection(status) == IF status = "confirmed-open" THEN "open" ELSE status

\* A base row for every citation, and a since row when the verifier decided on one.
verdict_rows(ps) ==
    {<<p.source, "base", p.verdict>> : p \in ps}
        \cup {<<p.source, "since", IF p.since = "since-supported" THEN "supported" ELSE "partial">> :
                 p \in {q \in ps : q.since # NoValue}}

source_strength(ps) ==
    LET supporting == Supporting(ps)
    IN  [a |-> Cardinality({s \in supporting : Tier[s] = "A"}),
         b |-> Cardinality({s \in supporting : Tier[s] = "B"}),
         independent |-> Cardinality({s \in supporting :
                             \E t \in supporting \ {s} : <<s, t>> \in Independent})]

\* assemble_inputs: contradictions and debates as the run read them, verdicts as they are.
assemble_inputs(f, seen) ==
    [debate |-> seen.debate, contradiction |-> contradiction_projection(seen.dispute),
     verdicts |-> verdict_rows(verdicts[f]), strength |-> source_strength(verdicts[f])]

needs_escalation_of(a) == a.level = 3 \/ a.torn

-----------------------------------------------------------------------------
(* The block (block.py). *)

merge_block(r, drafts, run) ==
    [r EXCEPT !.block = [k \in Keys |->
        IF drafts[k] = NoValue THEN r.block[k]
        ELSE IF drafts[k].level = 0 THEN NoValue
        ELSE [fact |-> drafts[k].fact, level |-> drafts[k].level,
              reviewed |-> drafts[k].reviewed, run |-> run]]]

\* Mutant: the entry's key is checked, and not the fact it names.
ValidByKey(r) == \A k \in Keys : r.block[k] # NoValue => \E f \in r.facts : Key[f] = k

\* validate_controversy_blocks: an entry names a fact its record derives.
Valid(r) == \A k \in Keys : r.block[k] # NoValue => r.block[k].fact \in r.facts

\* What a rebase makes of the clone's change and main's: of each part, whichever side
\* changed it.
Rebased(ours) ==
    LET pick(b, o, t) == IF o = b THEN t ELSE o
    IN  [facts |-> pick(fork.facts, ours.facts, main.facts),
         block |-> [k \in Keys |-> pick(fork.block[k], ours.block[k], main.block[k])]]
Conflicts(ours) ==
    LET clash(b, o, t) == o # b /\ t # b /\ o # t
    IN  \/ clash(fork.facts, ours.facts, main.facts)
        \/ \E k \in Keys : clash(fork.block[k], ours.block[k], main.block[k])

-----------------------------------------------------------------------------
(* One record assessed (run.py assess_record). *)

NoDrafts == [k \in Keys |-> NoValue]
IdleWorker == [pc |-> "idle"]
At(w, pc) == worker[w].pc = pc
Become(w, state) == worker' = [worker EXCEPT ![w] = state]

ControversyInit ==
    LET r == [facts |-> Present, block |-> NoDrafts]
    IN  /\ main = r /\ clone = r /\ file = r /\ fork = r /\ landed = {r}
        /\ ledger = [f \in Derived |-> NoValue]
        /\ verdicts = [f \in Derived |-> {}]
        /\ dispute = "none" /\ debate = "none"
        /\ worker = [w \in Workers |-> IdleWorker]
        /\ runs = 0 /\ alone = {} /\ changes = 0
        /\ pull = "none" /\ crossed = {} /\ blind = FALSE
        /\ told = [w \in Workers |-> {}]

\* The run-wide inputs are read once, the record's text when its item comes up.
Start(w, escalating) ==
    /\ At(w, "idle") /\ runs < MaxRuns
    /\ ~ escalating => w \in Commands
    /\ runs' = runs + 1
    /\ alone' = IF escalating THEN alone ELSE alone \cup {runs + 1}
    /\ Become(w, [pc |-> "assess", run |-> runs + 1, base |-> file,
                  seen |-> [debate |-> debate, dispute |-> dispute],
                  todo |-> file.facts,
                  asked |-> NoValue, drafts |-> NoDrafts, rows |-> <<>>])
    /\ crossed' = crossed \ {w}
    /\ told' = [told EXCEPT ![w] = Tells(file)]
    /\ UNCHANGED <<recordVars, ledger, worldVars, changes, pull, blind>>

\* The facts come up in the order they are derived in.
First(facts) ==
    Order[CHOOSE i \in 1 .. Len(Order) :
              Order[i] \in facts /\ \A j \in 1 .. (i - 1) : Order[j] \notin facts]
NextFact(w) == First(worker[w].todo)
Inputs(w) == assemble_inputs(NextFact(w), worker[w].seen)
Assessing(w) == At(w, "assess") /\ worker[w].todo # {}

Unchanged(w) == LET row == ledger[NextFact(w)] IN row # NoValue /\ row.inputs = Inputs(w)

\* Unchanged inputs: the level is the one in the ledger, and in the block.
Skip(w) ==
    /\ Assessing(w)
    /\ Unchanged(w)
    /\ Become(w, [worker[w] EXCEPT !.todo = @ \ {NextFact(w)}])
    /\ UNCHANGED <<recordVars, ledger, worldVars, runVars, changes, crossVars, told>>

\* The worker with one more assessment: the block is keyed by anchor, the ledger by fact.
With(w, a, inputs) ==
    [worker[w] EXCEPT !.pc = "assess", !.asked = NoValue, !.todo = @ \ {NextFact(w)}, !.drafts[Key[a.fact]] = a,
                      !.rows = Append(@, [fact |-> a.fact, level |-> a.level,
                                          reviewed |-> a.reviewed, run |-> worker[w].run,
                                          inputs |-> inputs])]

\* The model types a level and whether it nearly chose the next one.  A run that was typed
\* with --no-escalate has no reviewer: its level stands as it is.
Assess(w, a) ==
    /\ Assessing(w)
    /\ a.fact = NextFact(w) /\ a.level \in Levels /\ ~ a.reviewed
    /\ ~ Unchanged(w)
    /\ Become(w, IF needs_escalation_of(a) /\ worker[w].run \notin alone
                 THEN [worker[w] EXCEPT !.pc = "review", !.asked = Inputs(w)]
                 ELSE With(w, a, Inputs(w)))
    /\ UNCHANGED <<recordVars, ledger, worldVars, runVars, changes, crossVars, told>>

\* Claude's level stands, whatever the first pass said.
escalate(w, level) ==
    /\ At(w, "review") /\ level \in Levels
    /\ Become(w, With(w, [fact |-> NextFact(w), level |-> level, reviewed |-> TRUE,
                          torn |-> FALSE], worker[w].asked))
    /\ UNCHANGED <<recordVars, ledger, worldVars, runVars, changes, crossVars, told>>

\* The budget, an outage, an unusable answer, a git command that fails, or a kill: what has
\* been written to the file stays there.
Abandon(w) ==
    /\ worker[w].pc \in {"assess", "review", "land", "write", "commit", "flush"}
    /\ Become(w, IdleWorker)
    /\ UNCHANGED <<recordVars, ledger, worldVars, runVars, changes, crossVars, told>>

Rendered(w) == merge_block(worker[w].base, worker[w].drafts, worker[w].run)

\* Nothing assessed, or a merge that leaves the text as it was read.
Finish(w) ==
    /\ At(w, "assess") /\ worker[w].todo = {}
    /\ LET point == IF worker[w].drafts = NoDrafts THEN "idle"
                    ELSE IF Rendered(w) = worker[w].base THEN "flush" ELSE "land"
       IN  Become(w, IF point = "idle" THEN IdleWorker ELSE [worker[w] EXCEPT !.pc = point])
    /\ UNCHANGED <<recordVars, ledger, worldVars, runVars, changes, crossVars, told>>

-----------------------------------------------------------------------------
(* Landing the record (land.py, and land_record as these callers see it). *)

\* Whatever main comes to tell, every worker under way could have read.
Tell == told' = [w \in Workers |-> told[w] \cup Tells(main')]

\* A step of one landing marks the others that are under way in the clone.
Landing == {"write", "commit", "rebase", "push"}
CrossesWorkers(landers) == crossed' = crossed \cup {p \in landers : worker[p].pc \in Landing}
CrossesPull == pull' = IF pull = "rebased" THEN "crossed" ELSE pull
Crosses(w) == CrossesWorkers(Workers \ {w}) /\ CrossesPull

\* The file changed since it was read: the same text is rendered again, and again.
LoseRace(w) ==
    /\ At(w, "land") /\ file # worker[w].base
    /\ Become(w, IdleWorker)
    /\ UNCHANGED <<recordVars, ledger, worldVars, runVars, changes, crossVars, told>>

Fresh(w) == At(w, "land") /\ file = worker[w].base

\* A text whose key the history shows is taken for landed, and nothing is done.
LandAgain(w) ==
    /\ Fresh(w) /\ Rendered(w) \in landed
    /\ Become(w, [worker[w] EXCEPT !.pc = "flush"])
    /\ UNCHANGED <<recordVars, ledger, worldVars, runVars, changes, crossVars, told>>

\* The file is as it was read, and is not looked at again.
Check(w) ==
    /\ Fresh(w) /\ Rendered(w) \notin landed
    /\ Become(w, [worker[w] EXCEPT !.pc = "write"])
    /\ UNCHANGED <<recordVars, ledger, worldVars, runVars, changes, crossVars, told>>

Write(w) ==
    /\ At(w, "write")
    /\ file' = Rendered(w)
    /\ Become(w, [worker[w] EXCEPT !.pc = "commit"])
    /\ Crosses(w)
    /\ UNCHANGED <<main, clone, fork, landed, ledger, worldVars, runVars, changes, blind, told>>

\* The commit has the key of the worker's text, and whatever the file is by then; one with
\* nothing to commit fails, see Abandon.
Commit(w) ==
    /\ At(w, "commit") /\ file # clone
    /\ clone' = file /\ landed' = landed \cup {Rendered(w)}
    /\ Become(w, [worker[w] EXCEPT !.pc = "rebase"])
    /\ Crosses(w)
    /\ UNCHANGED <<main, file, fork, ledger, worldVars, runVars, changes, blind, told>>

\* git rebases a clean tree only.
MayRebase == file = clone /\ ~ Conflicts(clone)
RebaseClone == clone' = Rebased(clone) /\ file' = clone' /\ fork' = main

Rebase(w) ==
    /\ At(w, "rebase") /\ MayRebase
    /\ RebaseClone
    /\ Become(w, [worker[w] EXCEPT !.pc = "push"])
    /\ Crosses(w)
    /\ UNCHANGED <<main, landed, ledger, worldVars, runVars, changes, blind, told>>

\* The validators read the tree, and the push takes HEAD; it wants main as it was fetched.
MayPush == Valid(file) /\ main = fork
PushClone == main' = clone /\ fork' = clone /\ Tell

Land(w) ==
    /\ At(w, "push") /\ MayPush
    /\ PushClone
    /\ Become(w, [worker[w] EXCEPT !.pc = "flush"])
    /\ Crosses(w) /\ blind' = (blind \/ w \in crossed)
    /\ UNCHANGED <<clone, file, landed, ledger, worldVars, runVars, changes>>

\* A push that loses the race is tried again, from the fetch on.
Rejected(w) ==
    /\ At(w, "push") /\ main # fork
    /\ Become(w, [worker[w] EXCEPT !.pc = "rebase"])
    /\ UNCHANGED <<recordVars, ledger, worldVars, runVars, changes, crossVars, told>>

\* Mutant: the rows are written whether or not the record landed.
RefusedAndFlushed(w) ==
    /\ worker[w].pc \in {"rebase", "push"}
    /\ Become(w, [worker[w] EXCEPT !.pc = "flush"])
    /\ UNCHANGED <<recordVars, ledger, worldVars, runVars, changes, crossVars, told>>

\* A dirty tree, a conflict, an invalid store, a red main, too many races, or a kill: the
\* commit stays on the clone's HEAD, rebased or not.
Refused(w) ==
    /\ worker[w].pc \in {"rebase", "push"}
    /\ Become(w, IdleWorker)
    /\ UNCHANGED <<recordVars, ledger, worldVars, runVars, changes, crossVars, told>>

\* The buffered rows, one statement each; the last one ends the item.
Flush(w) ==
    /\ At(w, "flush")
    /\ LET a == Head(worker[w].rows)
       IN  ledger' = [ledger EXCEPT ![a.fact] =
                          [level |-> a.level, reviewed |-> a.reviewed, run |-> a.run,
                           inputs |-> a.inputs]]
    /\ Become(w, IF Len(worker[w].rows) = 1 THEN IdleWorker
                 ELSE [worker[w] EXCEPT !.rows = Tail(@)])
    /\ UNCHANGED <<recordVars, worldVars, runVars, changes, crossVars, told>>

-----------------------------------------------------------------------------
(* The rest of the world. *)

Change == changes < MaxChanges /\ changes' = changes + 1

\* Somebody lands the record with other claims; an entry of a claim that goes goes too.
EditClaims(facts) ==
    /\ Change /\ facts # main.facts
    /\ main' = [facts |-> facts, block |-> [k \in Keys |->
                   IF main.block[k] # NoValue /\ main.block[k].fact \notin facts
                   THEN NoValue ELSE main.block[k]]]
    /\ Tell
    /\ UNCHANGED <<clone, file, fork, landed, ledger, worldVars, worker, runVars, crossVars>>

\* A commit of the block is reverted on main (auto_revert): the entries are gone.
Revert ==
    /\ Change /\ main.block # NoDrafts
    /\ main' = [main EXCEPT !.block = NoDrafts]
    /\ Tell
    /\ UNCHANGED <<clone, file, fork, landed, ledger, worldVars, worker, runVars, crossVars>>

\* The landing of another record in the clone takes HEAD along: it rebases, and it pushes
\* or stops there.
PullRebase ==
    /\ pull = "none" /\ (fork # main \/ clone # main) /\ MayRebase
    /\ RebaseClone
    /\ pull' = "rebased" /\ CrossesWorkers(Workers)
    /\ UNCHANGED <<main, landed, ledger, worldVars, worker, runVars, changes, blind, told>>

PullPush ==
    /\ pull # "none" /\ MayPush
    /\ PushClone
    /\ pull' = "none" /\ CrossesWorkers(Workers) /\ blind' = (blind \/ pull = "crossed")
    /\ UNCHANGED <<clone, file, landed, ledger, worldVars, worker, runVars, changes>>

PullStop ==
    /\ pull # "none" /\ pull' = "none"
    /\ UNCHANGED <<recordVars, ledger, worldVars, worker, runVars, changes, crossed, blind, told>>

\* Verification, the register and the debate move on.
Reverify(f, ps) ==
    /\ Change /\ ps # verdicts[f]
    /\ verdicts' = [verdicts EXCEPT ![f] = ps]
    /\ UNCHANGED <<recordVars, ledger, dispute, debate, worker, runVars, crossVars, told>>

Dispute(status) ==
    /\ Change /\ dispute' = status
    /\ <<dispute, status>> \in {<<"none", "open">>, <<"open", "confirmed-open">>,
                                <<"open", "dissolved">>, <<"confirmed-open", "dissolved">>}
    /\ UNCHANGED <<recordVars, ledger, verdicts, debate, worker, runVars, crossVars, told>>

Debate(outcome) ==
    /\ Change /\ debate = "none" /\ debate' = outcome
    /\ UNCHANGED <<recordVars, ledger, verdicts, dispute, worker, runVars, crossVars, told>>

AssessRecord(w) ==
    \/ \E escalating \in BOOLEAN : Start(w, escalating)
    \/ Skip(w) \/ Abandon(w) \/ Finish(w)
    \/ \E f \in Derived, level \in Levels, torn \in BOOLEAN :
          Assess(w, [fact |-> f, level |-> level, reviewed |-> FALSE, torn |-> torn])
    \/ \E level \in Levels : escalate(w, level)
    \/ LoseRace(w) \/ LandAgain(w) \/ Check(w) \/ Write(w) \/ Commit(w) \/ Rebase(w)
    \/ Land(w) \/ Rejected(w) \/ Refused(w) \/ Flush(w)

World ==
    \/ \E facts \in Versions : EditClaims(facts)
    \/ Revert \/ PullRebase \/ PullPush \/ PullStop
    \/ \E f \in Derived, ps \in Findings : Reverify(f, ps)
    \/ \E status \in {"open", "confirmed-open", "dissolved"} : Dispute(status)
    \/ \E outcome \in {"resolved", "dissent"} : Debate(outcome)

ControversyNext == (\E w \in Workers : AssessRecord(w)) \/ World

-----------------------------------------------------------------------------
ControversyOK ==
    /\ main \in Record /\ clone \in Record /\ file \in Record /\ fork \in Record
    /\ \A r \in landed : r \in Record
    /\ \A f \in Derived : ledger[f] # NoValue =>
           ledger[f].level \in 0 .. 3 /\ ledger[f].reviewed \in BOOLEAN
    /\ \A w \in Workers : worker[w].pc \in {"idle", "assess", "review", "land", "flush"} \cup Landing
    /\ runs \in 0 .. MaxRuns /\ alone \subseteq 1 .. MaxRuns /\ changes \in 0 .. MaxChanges
    /\ pull \in {"none", "rebased", "crossed"} /\ crossed \subseteq Workers /\ blind \in BOOLEAN
    /\ \A w \in Workers : told[w] \subseteq Derived \X (0 .. 3)

\* Facts of one record whose entries have one key: the notes of an instance (run.py:70).
SharesKey(r, f) == \E other \in r.facts \ {f} : Key[other] = Key[f]

\* The ledger learns a contested level only after the record has told it, on main, since
\* the worker read it (run.py:109): through refusals, lost races, kills, reverts and edits.
\* Facts that share a key are excepted, the entry of one takes the other's place; so is a
\* landing with a step of another one between its own, whose commit has the other's text.
ContestedIsTold ==
    [][\A f \in Derived : ledger'[f] # ledger[f] /\ ledger'[f].level > 0 =>
          \E w \in Workers :
             /\ At(w, "flush")
             /\ \/ SharesKey(worker[w].base, f) \/ w \in crossed
                \/ <<f, ledger'[f].level>> \in told[w]]_controversyVars

\* A landing that no other crosses writes over the entries its worker assessed and nothing
\* else, and its push brings beside them only what the clone had when it was read
\* (block.py:8): whatever ran, was refused or was killed before it, and whatever main did.
OthersUntouched ==
    [][\A w \in Workers \ crossed :
          LET base == worker[w].base
              others == {k \in Keys : worker[w].drafts[k] = NoValue}
          IN  /\ Write(w) => /\ file'.facts = file.facts
                             /\ \A k \in others : file'.block[k] = file.block[k]
              /\ Land(w) => /\ main'.facts \in {main.facts, base.facts}
                            /\ \A k \in others : main'.block[k] \in {main.block[k], base.block[k]}
      ]_controversyVars

\* What the assessor remembers and what it writes agree with what main tells, and no
\* landing overwrites what another has assessed, unless the two are under way in the
\* clone at once (run.py:109, block.py:8).
AssessmentsStand == ContestedIsTold /\ OthersUntouched

\* No level on main is attached to a fact the record no longer derives (store.py:121): a
\* landing that is crossed may push another text than its validators have read.
NoOrphanLevel ==
    blind \/ \A k \in Keys : main.block[k] # NoValue => main.block[k].fact \in main.facts

\* Claude has reviewed every level 3, wherever it is kept (assessor.py:86), but those of
\* the runs that were told to go without (cli.py:120).
LevelThreeReviewed ==
    /\ \A k \in Keys : main.block[k] # NoValue /\ main.block[k].level = 3 =>
           main.block[k].reviewed \/ main.block[k].run \in alone
    /\ \A f \in Derived : ledger[f] # NoValue /\ ledger[f].level = 3 =>
           ledger[f].reviewed \/ ledger[f].run \in alone

\* A level stands on a fact its record derives, and a level 3 on a review or on a command
\* typed without one: through races, rebases, refused commits that go out later, and
\* corrected claims.
LevelsStand == ControversyOK /\ NoOrphanLevel /\ LevelThreeReviewed
=============================================================================
