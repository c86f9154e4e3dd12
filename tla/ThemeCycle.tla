----------------------------- MODULE ThemeCycle -----------------------------
(***************************************************************************)
(* One theme cycle of tools/research, R3 to R6: the developer's commands,  *)
(* the files they leave in the work tree, and what of them reaches         *)
(* origin/main, with a command killed or a landing refused on the way.     *)
(*                                                                         *)
(* One clone lands, so the race of Landing is left out; what stays is that *)
(* a key found in history lands nothing, that an unchanged file cannot be  *)
(* committed, that the rebase refuses while a tracked file is modified,    *)
(* and that a push carries every commit before it.                         *)
(*                                                                         *)
(* Left out: `cycle advance`, the developer's override of the statuses;    *)
(* dimensions and qualities, which mint without a verdict; the ledger of   *)
(* contradictions; R6's dedup rulings and migrations; and what a kill      *)
(* leaves staged, which Landing has.                                       *)
(***************************************************************************)
EXTENDS Naturals, FiniteSets

CONSTANTS
    Entries,      \* the entries a carve plan may hold
    Contested,    \* those with a contested trigger
    Digests,      \* the texts a theme may have
    Unsigned,     \* the sign-off of a cycle that has none
    MaxRuns,      \* bound: runs that write one document, mints of one entry
    MaxUpsets     \* bound: commands killed, landings refused or raising, cycles begun
                  \* again, commits of the developer's own

ASSUME EntriesAssumption == Contested \subseteq Entries
ASSUME UnsignedAssumption == Unsigned \notin Digests
ASSUME BoundsAssumption == MaxRuns \in Nat \ {0} /\ MaxUpsets \in Nat

Themes == <<"doc", "themes">>                \* research/themes.yaml
Cycle == <<"doc", "cycle">>                  \* research/cycles/
Survey == <<"doc", "survey">>                \* research/surveys/
Plan == <<"doc", "plan">>                    \* research/drafts/
Questionnaire == <<"doc", "spec">>           \* questionnaire/
Reality == <<"doc", "reality">>              \* research/reality-checks/
Consolidation == <<"doc", "consolidation">>  \* research/consolidations/
Node(e) == <<"node", e>>                     \* the record an entry mints
Debate(e) == <<"debate", e>>                 \* research/debates/

Nodes == {Node(e) : e \in Entries}
Debates == {Debate(e) : e \in Entries}
Files == {Themes, Cycle, Survey, Plan, Questionnaire, Reality, Consolidation}
             \cup Nodes \cup Debates

Statuses == {"drafted", "signed-off", "r3-done", "r4-drafted", "r4-done",
             "r5-done", "settled"}
Rank == [s \in Statuses |->
            CASE s = "drafted" -> 0 [] s = "signed-off" -> 1 [] s = "r3-done" -> 2
              [] s = "r4-drafted" -> 3 [] s = "r4-done" -> 4 [] s = "r5-done" -> 5
              [] s = "settled" -> 6]

\* An entry's status with its verdict.  "proposed" waits for a debate or a verdict;
\* "closed" was debated or waived and waits for a verdict; "reopened" was debated or
\* waived after one that admitted it; "blocked" has no place in the seed structure.
EntryStates == {"none", "blocked", "proposed", "closed", "refused", "verified",
                "reopened", "minted", "dropped"}

CycleRecord == [status : Statuses, signed : Digests \cup {Unsigned},
                minted : SUBSET Entries, holds : SUBSET Files]
SurveyRecord == [digest : Digests, run : Nat, pending : BOOLEAN]
PlanRecord == [digest : Digests, run : Nat, state : [Entries -> EntryStates],
               debated : SUBSET Entries, waived : SUBSET Entries]
CheckRecord == [digest : Digests, run : Nat, ready : BOOLEAN]

\* What a file may hold; a record's text carries the run that minted it.
Content(f) ==
    CASE f = Themes -> Digests
      [] f = Cycle -> CycleRecord
      [] f = Survey -> SurveyRecord
      [] f = Plan -> PlanRecord
      [] f = Questionnaire -> SUBSET Entries
      [] f \in {Reality, Consolidation} -> CheckRecord
      [] f \in Nodes -> Nat
      [] OTHER -> {TRUE}

Finalizers == {"r3", "r4", "r4-draft", "r5"}
Commands == {"idle", "mint", "compile", "settle"} \cup Finalizers

VARIABLES
    tree,      \* the files of the clone's work tree
    head,      \* the files of its HEAD
    main,      \* the files of origin/main
    history,   \* per file, the contents a Record-Key in HEAD's history names
    released,  \* research/structure-review.yaml exists
    cmd,       \* the command that runs
    todo,      \* the files it still lands, or the entries it still mints
    landed,    \* the entries this mint landed
    was,       \* the cycle record it loaded
    upsets     \* how many of these so far

git == <<head, main, history>>
job == <<cmd, todo, landed, was>>
vars == <<tree, git, released, job, upsets>>

\* A file system: a function from the files that exist to what they hold.
IsStore(s) == DOMAIN s \subseteq Files /\ \A f \in DOMAIN s : s[f] \in Content(f)

TypeOK ==
    /\ IsStore(tree) /\ IsStore(head) /\ IsStore(main)
    /\ Themes \in DOMAIN tree
    /\ history = [f \in Files |-> history[f]]
    /\ \A f \in Files : history[f] \subseteq Content(f)
    /\ released \in BOOLEAN
    /\ cmd \in Commands
    /\ todo \subseteq Files
    /\ landed \subseteq Entries
    /\ cmd # "idle" => was \in CycleRecord
    /\ upsets \in 0 .. MaxUpsets

-----------------------------------------------------------------------------
(* Files, and git's view of them. *)

Put(s, f, c) == [g \in DOMAIN s \cup {f} |-> IF g = f THEN c ELSE s[g]]

Write(f, c) == tree' = Put(tree, f, c)

\* No tracked file is modified.
Clean(t, h) == \A f \in DOMAIN h : f \in DOMAIN t /\ t[f] = h[f]

\* The number of a document's next run, of an entry's next mint.
NextRun(f) == IF f \in DOMAIN tree THEN tree[f].run + 1 ELSE 1
NextMint(e) == IF Node(e) \in DOMAIN tree THEN tree[Node(e)] + 1 ELSE 1

Upset == upsets < MaxUpsets /\ upsets' = upsets + 1

Results == {"landed", "refused", "raised", "killed"}

\* land_record of the text c at f, and what it returns: "landed", "refused" (any
\* other LandResult), "raised", or "killed" with the process.
Land(f, c, result) ==
    \/ /\ c \in history[f]                        \* find_record_key_in_history
       /\ result = "landed"
       /\ UNCHANGED <<git, upsets>>
    \/ /\ c \notin history[f]
       /\ f \in DOMAIN head /\ head[f] = c        \* nothing to commit
       /\ result = "raised"
       /\ UNCHANGED <<git, upsets>>
    \/ /\ c \notin history[f]
       /\ f \in DOMAIN head => head[f] # c
       /\ head' = Put(head, f, c)
       /\ history' = [history EXCEPT ![f] = @ \cup {c}]
       /\ LET clean == Clean(Put(tree, f, c), Put(head, f, c))
          IN  \/ clean /\ result = "landed" /\ main' = head' /\ UNCHANGED upsets
              \/ ~ clean /\ result = "refused" /\ UNCHANGED <<main, upsets>>
              \/ result \in {"refused", "raised", "killed"} /\ Upset /\ UNCHANGED main
              \/ clean /\ result = "killed" /\ Upset /\ main' = head'
    \/ /\ c \notin history[f]                     \* killed between write and commit
       /\ result = "killed" /\ Upset
       /\ UNCHANGED git

-----------------------------------------------------------------------------
(* The cycle record: tools/research/cycle.py. *)

Idle == cmd = "idle"
Exists(f) == f \in DOMAIN tree

require_sign_off == Exists(Cycle) /\ tree[Cycle].signed = tree[Themes]

Blank == [status |-> "drafted", signed |-> Unsigned, minted |-> {}, holds |-> {}]

new_cycle ==
    /\ Idle
    /\ Write(Cycle, Blank)
    /\ IF Exists(Cycle) THEN Upset ELSE UNCHANGED upsets
    /\ UNCHANGED <<git, released, job>>

\* Mutant: signs the new text and leaves the status.
sign_off_again ==
    /\ Idle
    /\ Exists(Cycle)
    /\ Write(Cycle, [tree[Cycle] EXCEPT !.signed = tree[Themes],
           !.status = IF @ = "drafted" THEN "signed-off" ELSE @])
    /\ IF require_sign_off THEN Upset ELSE UNCHANGED upsets
    /\ UNCHANGED <<git, released, job>>

sign_off ==
    /\ Idle
    /\ Exists(Cycle)
    /\ Write(Cycle, [tree[Cycle] EXCEPT !.status = "signed-off", !.signed = tree[Themes]])
    /\ IF require_sign_off THEN Upset ELSE UNCHANGED upsets
    /\ UNCHANGED <<git, released, job>>

\* advance, for a runner: a cycle already at the target stays there.
MayAdvance(cycle, target) == Rank[cycle.status] <= Rank[target]
Advanced(cycle, target, files) ==
    [cycle EXCEPT !.status = target, !.holds = @ \cup files]

-----------------------------------------------------------------------------
(* R3: the survey and the theme's amendments. *)

\* `survey run`: the surveyor may leave gaps and amendments to decide.
SurveyRun ==
    /\ Idle
    /\ require_sign_off
    /\ NextRun(Survey) <= MaxRuns
    /\ \E pending \in BOOLEAN :
           Write(Survey, [digest |-> tree[Cycle].signed, run |-> NextRun(Survey),
                          pending |-> pending])
    /\ UNCHANGED <<git, released, job, upsets>>

Decided == [tree[Survey] EXCEPT !.pending = FALSE]

\* `themes amend --reject`, `survey scout`, `survey drop-gap`.
Dispose ==
    /\ Idle
    /\ Exists(Cycle) /\ Exists(Survey) /\ tree[Survey].pending
    /\ Write(Survey, Decided)
    /\ UNCHANGED <<git, released, job, upsets>>

\* `themes amend`: the registry, then the survey.
Amend ==
    /\ Idle
    /\ Exists(Cycle) /\ Exists(Survey) /\ tree[Survey].pending
    /\ \E d \in Digests \ {tree[Themes]} :
           \/ tree' = Put(Put(tree, Themes, d), Survey, Decided) /\ UNCHANGED upsets
           \/ Write(Themes, d) /\ Upset
    /\ UNCHANGED <<git, released, job>>

-----------------------------------------------------------------------------
(* R4: the carve plan. *)

Live(plan) == {e \in Entries : plan.state[e] # "none"}
Refused(plan) == {e \in Entries : plan.state[e] = "refused"}
Mintable(plan) == {e \in Entries : plan.state[e] \in {"verified", "reopened"}}
Terminal(plan) == \A e \in Live(plan) : plan.state[e] \in {"minted", "dropped"}

\* draft/contested.py open_carves
Open(plan) ==
    {e \in Contested \ (plan.debated \cup plan.waived) : plan.state[e] = "proposed"}

WithState(plan, S, state) ==
    [plan EXCEPT !.state = [e \in Entries |-> IF e \in S THEN state ELSE plan.state[e]]]

\* `draft atomize`: the ontologist carves the theme afresh.
Atomize ==
    /\ Idle
    /\ require_sign_off /\ Exists(Survey)
    /\ NextRun(Plan) <= MaxRuns
    /\ \E state \in [Entries -> {"none", "blocked", "proposed"}] :
           Write(Plan, [digest |-> tree[Cycle].signed, run |-> NextRun(Plan),
                        state |-> state, debated |-> {}, waived |-> {}])
    /\ UNCHANGED <<git, released, job, upsets>>

\* `draft edges` appends entries.
DraftEdges ==
    /\ Idle
    /\ require_sign_off /\ Exists(Plan)
    /\ \E S \in SUBSET (Entries \ Live(tree[Plan])) :
           S # {} /\ Write(Plan, WithState(tree[Plan], S, "proposed"))
    /\ UNCHANGED <<git, released, job, upsets>>

\* Mutant: writes the status alone.
ReopenedStatus(state) ==
    IF state \in {"proposed", "closed", "verified", "reopened", "minted"}
    THEN "debated" ELSE state

\* A debate or a waiver leaves the verdict an entry had: draft/debate.py
\* apply_resolution, draft/contested.py waive.
Reopened(state) ==
    CASE state \in {"verified", "reopened", "minted"} -> "reopened"
      [] state \in {"proposed", "closed"} -> "closed"
      [] OTHER -> state

Debatable(plan, e) ==
    e \in Contested /\ e \notin plan.debated /\ plan.state[e] \notin {"none", "dropped"}

\* `draft debate --key`: the debate record, then the plan.  It keeps or revises the
\* entry, drops it, or hands it back to the developer.  One debate per entry.
RunDebate(e) ==
    /\ Idle
    /\ require_sign_off /\ Exists(Plan)
    /\ Debatable(tree[Plan], e) /\ ~ Exists(Debate(e))
    /\ LET state == tree[Plan].state[e]
           open == IF state = "proposed" THEN {"proposed"} ELSE {}
       IN  \E to \in {Reopened(state), "dropped"} \cup open :
               LET plan == WithState(tree[Plan], {e}, to)
               IN  tree' = Put(Put(tree, Debate(e), TRUE), Plan,
                               [plan EXCEPT !.debated = @ \cup {e}])
    /\ UNCHANGED <<git, released, job, upsets>>

\* `draft waive`: no debate yet, or one that escalated.  One waiver per entry.
Waive(e) ==
    /\ Idle
    /\ Exists(Cycle) /\ Exists(Plan)
    /\ e \in Contested \ tree[Plan].waived
    /\ tree[Plan].state[e] \notin {"none", "dropped"}
    /\ e \in tree[Plan].debated => tree[Plan].state[e] = "proposed"
    /\ Write(Plan, [WithState(tree[Plan], {e}, Reopened(tree[Plan].state[e]))
                        EXCEPT !.waived = @ \cup {e}])
    /\ UNCHANGED <<git, released, job, upsets>>

Drop(e) ==
    /\ Idle
    /\ Exists(Cycle) /\ Exists(Plan)
    /\ tree[Plan].state[e] \notin {"none", "minted", "dropped"}
    /\ Write(Plan, WithState(tree[Plan], {e}, "dropped"))
    /\ UNCHANGED <<git, released, job, upsets>>

\* draft/gate.py _ready
Ready(plan) ==
    {e \in Entries : \/ plan.state[e] \in {"closed", "reopened", "refused"}
                     \/ plan.state[e] = "proposed" /\ e \notin Contested}

\* `draft verify`: a verdict for every entry that is ready for one.
Verify ==
    /\ Idle
    /\ require_sign_off /\ Exists(Plan)
    /\ LET plan == tree[Plan]
       IN  /\ Ready(plan) # {}
           /\ \E ok \in SUBSET Ready(plan) :
                  Write(Plan, WithState(WithState(plan, ok, "verified"),
                                        Ready(plan) \ ok, "refused"))
    /\ UNCHANGED <<git, released, job, upsets>>

\* `structure release`
Release ==
    /\ Idle
    /\ ~ released
    /\ Exists(Cycle) /\ tree[Cycle].status = "r4-drafted"
    /\ released' = TRUE
    /\ UNCHANGED <<tree, git, job, upsets>>

-----------------------------------------------------------------------------
(* Commands that land: they start, land one file at a time, and return. *)

Start(name, files) ==
    /\ Idle
    /\ cmd' = name /\ todo' = files
    /\ was' = tree[Cycle]
    /\ landed' = {}
    /\ UNCHANGED <<tree, git, released, upsets>>

Return ==
    cmd' = "idle" /\ todo' = {} /\ landed' = {} /\ was' = Blank

Kill ==
    /\ ~ Idle
    /\ Upset
    /\ Return
    /\ UNCHANGED <<tree, git, released>>

\* Mutant: marks the plan before it lands the batch.
StartMintMarked ==
    /\ Exists(Cycle) /\ Exists(Plan)
    /\ released
    /\ LET items == Mintable(tree[Plan])
       IN  /\ Open(tree[Plan]) = {} /\ Refused(tree[Plan]) = {}
           /\ items # {} /\ \A e \in items : NextMint(e) <= MaxRuns
           /\ Idle
           /\ cmd' = "mint" /\ todo' = {Node(e) : e \in items}
           /\ was' = tree[Cycle]
           /\ landed' = {}
           /\ Write(Plan, WithState(tree[Plan], items, "minted"))
           /\ UNCHANGED <<git, released, upsets>>

\* `draft mint`: refused while a carve is open or the gate refused one.  Its order,
\* concepts before features before edges, is left out.
StartMint ==
    /\ Exists(Cycle) /\ Exists(Plan)
    /\ released                                     \* require_mint_open
    /\ LET items == Mintable(tree[Plan])
       IN  /\ Open(tree[Plan]) = {} /\ Refused(tree[Plan]) = {}
           /\ items # {} /\ \A e \in items : NextMint(e) <= MaxRuns
           /\ Start("mint", {Node(e) : e \in items})

\* One item of land_drafts: land_record, then record_minted.  A contention is tried
\* again, and finds the key of the first attempt.
MintItem(e) ==
    /\ cmd = "mint" /\ Node(e) \in todo
    /\ \E result \in Results, contended \in BOOLEAN :
           LET on == Put(tree, Node(e), NextMint(e))
               counts == result = "landed" \/ contended
           IN  /\ Land(Node(e), NextMint(e), result)
               /\ contended => result = "refused" /\ Clean(on, head')
               /\ tree' = IF counts
                          THEN Put(on, Cycle, [was EXCEPT !.minted = @ \cup {e}])
                          ELSE on
               /\ IF result \in {"raised", "killed"}
                  THEN Return
                  ELSE /\ todo' = todo \ {Node(e)}
                       /\ landed' = IF counts THEN landed \cup {e} ELSE landed
                       /\ was' = IF counts THEN [was EXCEPT !.minted = @ \cup {e}] ELSE was
                       /\ UNCHANGED cmd
    /\ UNCHANGED released

\* mint_plan marks what landed.
EndMint ==
    /\ cmd = "mint" /\ todo = {}
    /\ Write(Plan, WithState(tree[Plan], landed, "minted"))
    /\ Return
    /\ UNCHANGED <<git, released, upsets>>

finalize_r3 ==
    /\ require_sign_off /\ Exists(Survey)
    /\ tree[Survey].digest = tree[Cycle].signed /\ ~ tree[Survey].pending
    /\ Start("r3", {Survey, Cycle})

PlanFiles == {Debate(e) : e \in tree[Plan].debated} \cup {Plan}

\* What r4_blockers and r4_draft_blockers let pass.
PlanCloses ==
    /\ Exists(Plan) /\ tree[Plan].digest = tree[Cycle].signed
    /\ Live(tree[Plan]) # {} /\ Terminal(tree[Plan])

PlanDrafted ==
    /\ Exists(Plan) /\ tree[Plan].digest = tree[Cycle].signed
    /\ Live(tree[Plan]) # {}
    /\ \A e \in Live(tree[Plan]) :
           tree[Plan].state[e] \in {"blocked", "verified", "reopened", "minted", "dropped"}

finalize_r4 ==
    /\ require_sign_off /\ PlanCloses
    /\ released
    /\ Start("r4", PlanFiles \cup {Cycle})

finalize_r4_draft ==
    /\ require_sign_off /\ PlanDrafted
    /\ ~ released
    /\ Start("r4-draft", PlanFiles \cup {Cycle})

-----------------------------------------------------------------------------
(* R5: the reality check. *)

\* `reality compile`: the spec lands before anyone answers it.
open_r5 ==
    /\ require_sign_off /\ tree[Cycle].status = "r4-done"
    /\ \E e \in tree[Cycle].minted : Exists(Node(e))       \* theme_features
    /\ NextRun(Reality) <= MaxRuns
    /\ Start("compile", {Questionnaire})

LandSpec ==
    /\ cmd = "compile"
    /\ \E result \in Results :
           LET spec == {e \in Entries : Exists(Node(e))}
               on == IF spec \in history[Questionnaire] THEN tree ELSE Put(tree, Questionnaire, spec)
           IN  /\ Land(Questionnaire, spec, result)
               /\ tree' = IF result = "landed"
                          THEN Put(on, Reality, [digest |-> was.signed, ready |-> FALSE,
                                                 run |-> NextRun(Reality)])
                          ELSE on
    /\ Return
    /\ UNCHANGED released

\* `reality classify` and `reality verify` for every sampled language.
Answer ==
    /\ Idle
    /\ require_sign_off /\ Exists(Reality) /\ ~ tree[Reality].ready
    /\ Write(Reality, [tree[Reality] EXCEPT !.ready = TRUE])
    /\ UNCHANGED <<git, released, job, upsets>>

finalize_r5 ==
    /\ require_sign_off /\ Exists(Reality) /\ Exists(Questionnaire)
    /\ tree[Reality].digest = tree[Cycle].signed /\ tree[Reality].ready
    /\ Start("r5", {Reality, Cycle})

-----------------------------------------------------------------------------
(* R6: consolidation. *)

\* `consolidate open` keeps a record that exists.
open_r6 ==
    /\ Idle
    /\ require_sign_off /\ tree[Cycle].status = "r5-done"
    /\ ~ Exists(Consolidation)
    /\ Write(Consolidation, [digest |-> tree[Cycle].signed, run |-> 0, ready |-> FALSE])
    /\ UNCHANGED <<git, released, job, upsets>>

\* `consolidate edges`: the cross-theme entries go to the plan, then the record says
\* the pass ran.
CrossThemeEdges ==
    /\ Idle
    /\ require_sign_off /\ Exists(Consolidation) /\ Exists(Plan)
    /\ NextRun(Consolidation) <= MaxRuns
    /\ \E S \in SUBSET (Entries \ Live(tree[Plan])) :
           LET on == Put(tree, Plan, WithState(tree[Plan], S, "proposed"))
               record == [tree[Consolidation] EXCEPT !.run = @ + 1, !.ready = TRUE]
           IN  \/ tree' = Put(on, Consolidation, record) /\ UNCHANGED upsets
               \/ S # {} /\ tree' = on /\ Upset
    /\ UNCHANGED <<git, released, job>>

\* Mutant: leaves the record to a later commit.
settle_plan ==
    /\ require_sign_off /\ tree[Cycle].status = "r5-done"
    /\ Exists(Consolidation) /\ tree[Consolidation].ready
    /\ PlanCloses
    /\ Start("settle", {Plan, Cycle})

settle ==
    /\ require_sign_off /\ tree[Cycle].status = "r5-done"
    /\ Exists(Consolidation) /\ tree[Consolidation].ready
    /\ PlanCloses
    /\ Start("settle", {Plan, Consolidation, Cycle})

-----------------------------------------------------------------------------
(* The landings of a finalizer and of settle: artifacts first, the cycle last. *)

Closing == cmd \in Finalizers \cup {"settle"}

Place(f) == CASE f \in Debates -> 0 [] f = Consolidation -> 2 [] f = Cycle -> 3
              [] OTHER -> 1

NextUp(f) == f \in todo /\ \A g \in todo : Place(f) <= Place(g)

LandFile ==
    /\ Closing
    /\ \E f \in todo \ {Cycle}, result \in Results :
           /\ NextUp(f)
           /\ Land(f, tree[f], result)
           /\ IF result = "landed"
              THEN todo' = todo \ {f} /\ UNCHANGED <<cmd, landed, was>>
              ELSE Return
    /\ UNCHANGED <<tree, released>>

Target == CASE cmd = "r3" -> "r3-done" [] cmd = "r4" -> "r4-done"
            [] cmd = "r4-draft" -> "r4-drafted" [] cmd = "r5" -> "r5-done"
            [] OTHER -> "settled"

Artifacts == CASE cmd = "r3" -> {Survey} [] cmd \in {"r4", "r4-draft"} -> PlanFiles
               [] cmd = "r5" -> {Reality} [] OTHER -> {Consolidation}

SaveCycle ==
    /\ Closing /\ todo = {Cycle}
    /\ IF MayAdvance(was, Target)
       THEN /\ Write(Cycle, Advanced(was, Target, Artifacts))
            /\ todo' = {}
            /\ UNCHANGED <<cmd, landed, was>>
       ELSE Return /\ UNCHANGED tree                \* InvalidTransition
    /\ UNCHANGED <<git, released, upsets>>

\* A finalizer puts the cycle back when the landing is not Landed, settle also when
\* it raises.
LandCycle ==
    /\ Closing /\ todo = {}
    /\ \E result \in Results :
           /\ Land(Cycle, tree[Cycle], result)
           /\ tree' = IF result = "refused" \/ (result = "raised" /\ cmd = "settle")
                      THEN Put(tree, Cycle, was) ELSE tree
    /\ Return
    /\ UNCHANGED released

-----------------------------------------------------------------------------
(* The developer's own `git add -A && git commit && git push`, between commands. *)

HandCommit ==
    /\ Idle
    /\ main # tree
    /\ Upset
    /\ head' = tree /\ main' = tree
    /\ UNCHANGED <<tree, history, released, job>>

Init ==
    /\ \E d \in Digests : tree = [f \in {Themes} |-> d]
    /\ head = tree /\ main = tree
    /\ history = [f \in Files |-> {}]
    /\ released \in BOOLEAN
    /\ cmd = "idle" /\ todo = {} /\ landed = {} /\ was = Blank
    /\ upsets = 0

Next ==
    \/ new_cycle \/ sign_off
    \/ SurveyRun \/ Dispose \/ Amend \/ finalize_r3
    \/ Atomize \/ DraftEdges \/ Verify \/ Release
    \/ \E e \in Entries : RunDebate(e) \/ Waive(e) \/ Drop(e) \/ MintItem(e)
    \/ StartMint \/ EndMint \/ finalize_r4 \/ finalize_r4_draft
    \/ open_r5 \/ LandSpec \/ Answer \/ finalize_r5
    \/ open_r6 \/ CrossThemeEdges \/ settle
    \/ LandFile \/ SaveCycle \/ LandCycle
    \/ Kill \/ HandCommit

Spec == Init /\ [][Next]_vars

-----------------------------------------------------------------------------
(* Properties. *)

Describes(s, f) == f \in DOMAIN s /\ s[f].digest = s[Cycle].signed

Backed(s) ==
    Cycle \in DOMAIN s =>
        /\ s[Cycle].holds \subseteq DOMAIN s
        /\ s[Cycle].status = "r3-done" => Describes(s, Survey)
        /\ s[Cycle].status \in {"r4-drafted", "r4-done", "settled"} => Describes(s, Plan)
        /\ s[Cycle].status = "r5-done" => Describes(s, Reality)

\* Whatever is killed, refused or signed again on the way, the cycle on origin/main
\* never claims a step whose document main does not hold, or holds for another text of
\* the theme than the one the developer signed: finalize_r3, _land_plan, finalize_r5,
\* settle.
StatusIsBacked == Backed(main)

Truthful(s) ==
    /\ Plan \in DOMAIN s =>
           \A e \in Entries : s[Plan].state[e] = "minted" => Node(e) \in DOMAIN s
    /\ Cycle \in DOMAIN s => \A e \in s[Cycle].minted : Node(e) \in DOMAIN s
    /\ Reality \in DOMAIN s => Questionnaire \in DOMAIN s

\* No plan or cycle on origin/main counts a record as minted, and no reality check names
\* a questionnaire, that main does not hold: mint_plan, record_minted, open_r5.
PlanTellsTruth == Truthful(main)

SettledBy(s) == Cycle \in DOMAIN s /\ s[Cycle].status = "settled"

\* The landing that puts a settled cycle on origin/main finds the closed plan and the
\* finished consolidation record there: settle's landing order.
SettlesLast ==
    [][ ~ Idle /\ SettledBy(main') /\ ~ SettledBy(main) =>
            /\ Terminal(main'[Plan])
            /\ Consolidation \in DOMAIN main' /\ main'[Consolidation].ready ]_vars

=============================================================================
