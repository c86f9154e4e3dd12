# TLA+ models of the LangAtlas knowledge base tools

LangAtlas keeps a knowledge base of programming-language features as YAML records in git and grows
it with Python tools: source ingestion, claim verification, theme-by-theme research, and a batch
driver that runs the long jobs unattended. Almost all of it is sequential Python; what makes it
hard is what the sequential code shares: one `main` branch that several clones push to, working
trees that a killed process leaves half-written, `status.json` and SQLite files that two cron jobs
use at once, provider services that fail, drift and run out, and queues and ledgers whose entries
outlive the run that wrote them.

This directory holds TLA+ modules for those parts, TLC configurations that check them on small
instances, and TLAPS proofs that hold for every instance. Paths below are relative to `src/`;
`land.py` and the like are found under `tools/*/src/`.

## 1. Inventory

| Component | State | Operations | Talks to | What makes it hard | What makes it correct |
|---|---|---|---|---|---|
| Landing protocol (`tools/commit`: `land.py`, `trailers.py`, `status.py`) | a clone's files, index and HEAD; `origin/main`; the CI status of a head | `land_record`, `land_changeset` | every tool that changes the store | several clones push; kills between two git commands; lost push replies; a dirty tree | no update of `main` is lost, `main` stays valid, it grows only from a green head, no work is dropped, `Landed` means landed, calls return |
| Batch driver (`tools/orchestrator`: `driver.py`, `checkpoint.py`, `status.py`, `registry.py`, `spec.py`) | a checkpoint row per item; `status.json`; exit codes | `run` | job kinds, run context, git history | kinds share `status.json` and its `.tmp`; pauses, kills, usage limits; resumption by re-invocation | an item's verdict stands, exit code 0 means settled, cool-downs are kept, every item settles |
| Auto-revert (`revert.py`, `issues.py`) | the revert budget; the clone | `evaluate_revert_safety`, `auto_revert` | landing, GitHub | resets the clone hard | reverts only what it may, drops no work |
| Job kinds (`tools/orchestrator/jobs`) | none of their own | enumerate, run an item | driver, verification, currency, controversy, survey | exceptions become outcomes; `done` rows are never revisited | an outcome is true of what happened |
| Run context and providers (`tools/pipeline`: `providers/*`, `cache.py`, `recording.py`, `costlog.py`) | counters and pins of a run; the response cache; transcript and cost log | `check_budget`, `complete`, `embed`, `rerank`, `claude_run`, `close` | provider services, every job | transport failures, retries, model drift, a cache shared by runs | caps hold, a cached answer is its model's, a run does not mix models, every call is logged |
| Transcripts (`transcripts/*`) | run directories, the transcripts repository | mint a run id, append, finalize, publish, import | run context | two runs start together | run ids are unique, published runs are complete |
| Snapshots and ingestion (`tools/ingest`: `snapshot.py`, `pipeline.py`, `store.py`, `index.py`) | originals and manifests; chunks, embeddings, ingestion rows; the sourcing queue | `put`, `fetch_url`, `ingest_source`, `reingest_all`, `index` | Postgres, run context | a crash between file and manifest; the skip rule; queue entries that outlive their cause | promoted chunks are those of the current snapshot, refused sources stay visible |
| Verification (`verify/*`) | verdict ledger, contradictions ledger, bounce counts | `verify_pair`, `verify_batch`, `decide_fact`, adjudication | completion, sourcing queue | staged early exits, swallowed errors, a budget shared by facts | only supported facts enter, bounces are bounded, contradictions are filed once |
| Source currency (`currency/*`) | link and edition baselines | link check, edition check, supersede | sourcing queue | the baseline moves before the finding is filed | a drift is reported |
| Theme cycle (`tools/research`: `cycle.py`, the four `finalize`/`lifecycle` modules, `land.py`) | cycle file, artifacts, sign-off digest | sign off, advance, finalize R3-R6, settle | landing, the developer | several landings per step, each of which may fail; edits of `themes.yaml` in between | a status says what has landed; nothing runs on a stale sign-off |
| Survey, carving and debates, reality check (`survey/*`, `draft/*`, `reality/*`) | survey, carve plan, debate and reality records | tag, survey, scout, amend; atomize, debate, waive, verify, mint; classify, verify | models, verification, landing | long interrupted sequences over one file | no contested carve is minted undecided, no claim enters ungated |
| Consolidation (`consolidate/*`) and migration (`tools/validate`: `migrate.py`, `tombstones.py`, `redirects.py`, `replay.py`) | rulings, manifests, tombstone ledger, redirects | rule, migrate, settle; plan, apply, replay, guard | landing | a restructure must keep every dead fact traceable | chains end, the ledger is append-only, replay reproduces a migration |
| Controversy (`controversy/*`) | controversy blocks and ledger | assess, escalate, assemble | verification, landing | budget stops between record and ledger | an assessment follows its inputs |
| Coverage, questionnaire, finding aids, benchmark and golden sets, command lines | reports, mirrors, caches | compile, report, refresh | read the store | mirror refreshes against cached answers | pure functions of the store |

`PROJECT.json` lists the files of each component and the hazards, each at the line where it bites.

## 2. Plan

In the order of what the rest depends on:

1. `Landing` (done): every other component's durability rests on it.
2. `Orchestrator` with the abstract `JobQueue` (done): the concurrency and restart logic of all jobs.
3. `RunContext` (done): budgets, pins, cache, retries and logs.
4. `ThemeCycle` (done): sign-off, the documents of R3 to R6, the finalizers and settling over an
   abstraction of `Landing` (its own results, the commit that stays behind, the dirty tree).
5. `SourcingQueue`, with `Ingestion`, `Verification` and `Currency` over it, and `Chunking` (done):
   where the evidence comes from.
6. `Restructure`, the interpreter of migration manifests and the validators as operators on a store,
   and `Migration`, the branch they are used on (done).
7. `Verdicts` with `Judgement`, `Controversy`, `Carving` and `RealityCheck` (done): what `ThemeCycle`
   has in outline, one plan, one record and one check in full.
8. Left: auto-revert composed with `Landing`; transcripts and run ids; finding-aid mirrors against
   the cache; overlapping invocations of one job kind; dedup rulings.

```
Landing                      JobQueue <- Orchestrator        RunContext        ThemeCycle
SourcingQueue <- Ingestion <- Verification  ]
SourcingQueue <- Currency                   ] MCEvidence     (Verification INSTANCEs Verdicts)
Chunking <- MCChunking                      ]
Verdicts <- Judgement, Controversy          ]
Carving, RealityCheck                       ] MCResearch
Restructure <- Migration                      MCRestructure
```

A module's `MC` module and `.cfg` give its constants their values. `MCEvidence` and `MCResearch`
hold several modules at once. Where the modules share state, the sourcing queue, the chunks and the
baselines, they are composed and interleave; where they do not, a variable `focus` chooses what a
behaviour is about, so that a run explores the sum of their states and not the product.

## 3. Landing

`Landing.tla` models `land_record` and `land_changeset` with `_integrate`. A clone's call is a
process; each git command it runs (`add`, `commit`, `fetch`, `rebase`, `push`), the validator and
the status check is a step of its own, so that other clones, CI, kills (`Crash`) and other writers
of the tree (`Edit`) come in between. `main` is a sequence of pushes, each with the commits it
carried and the tree it left; a clone has the part of `main` it is based on, the commits ahead of
it, its HEAD tree, its index and its files. A commit is abstracted to the paths it writes and the
change its Record-Key names. `Changes` are the contents callers want to land, `Forbidden` the
combinations of files the validator refuses. A push is accepted iff it extends `main`; its reply
may be lost (`PushUnacknowledged`). The retries and the clock are bounded as in the code;
`MaxCalls`, `MaxCrashes` and `MaxEdits` bound the instance. CHECK_DEADLOCK is off because a bounded number of
calls ends.

| Run | Question | Bounds |
|---|---|---|
| `landing_race` | two clones land records that are refused together, gated on CI that turns red and green: is an update lost, an invalid tree pushed, `main` grown from a head that was not green (`NoLostUpdate`, `MainStaysValid`, `PushedOnGreen`), and does every call return (`CallsReturn`)? | 2 clones, 2 calls, 2 retries; no kills or edits |
| `landing_crash` | do kills, lost replies and dirty trees drop work (`NoWorkLost`)? | 2 clones, 2 calls, 2 retries, 1 crash, 1 edit; a record and a changeset that moves it; ungated; clones are symmetric |
| `landing_report` | what the code does against what its comment says (section 10) | 1 clone, 2 calls, 1 retry |

Two clones suffice for the races: a push competes with the one push that came first, and a second
retry sees the loser try again on the winner's tree. Two calls let a clone meet what its own
earlier call left behind. Fairness (`landing_race`) is weak fairness of the steps of a running
call: a process that is not killed goes on. CI is not assumed to turn green: a call then returns
`BlockedRedMain`. A killed call counts as returned.

`NoWorkLost` says when a commit may leave a clone's history: when main, or an earlier commit of the
clone that stays, has what it wrote. Main alone is not enough from the fourth call of one clone on: a
commit that puts back what an earlier, still unpushed one had written is emptied by a rebase whose
upstream happens to hold that text, and it is the earlier commit that carries it.

`LandingProofs.tla` proves, for any clones, paths, changes and bounds: `TypeCorrect`;
`NoUpdateIsLost`, from the invariant that HEAD is always the part of `main` it builds on with the
clone's own commits replayed (`HeadIsReplay`) and that commits are numbered apart; `GateHolds`,
from the invariant that past the status check the head to be extended is the one whose status was
read; `MainIsValid`, under the assumption of no kills and no foreign edits (without it the
property is false, see section 10), from the invariant that a clone's tree is in step with
its HEAD and that what passed the validator is what will be pushed; and `WorkIsKept`, from
`WorkInv`: a commit that a rebase dropped was emptied, so what it wrote was in the tree the rebase
replayed onto, and whoever wrote that last is in `main` or in front of it (`Removals`); a push
whose reply was lost has told `main` the same commits the clone still holds (`Told`).

## 4. Batch driver

`Orchestrator.tla` models `driver.run` over the checkpoint rows and `status.json`. A process is a
job kind; cron or an operator invokes it again and again (`Invoke`), and kinds overlap. Each
`write_status` is three steps (read, write `.tmp`, rename), because the file and the `.tmp` are
shared by all kinds; a rename that finds its `.tmp` gone raises (`RenameRaises`). Enumerators may
return a different list each time; an item runner lands or not, and returns any outcome or raises
a spent budget, a usage limit or anything else. A run may be killed anywhere (`Kill`), its setup
may raise before `running` is written or after it, in `RunContext.start` (`SetupRaises`), and closing
its transcripts may raise after the last write (`CloseRaises`). `exit` tells a run whose setup raised
(`unstarted`) from one that raised later; to the shell both are an exception. `MaxFaults` bounds the
outcomes that do not settle an item, the failed setups and the kills; time passes only while somebody
waits for a cool-down.

`JobQueue.tla` is what the driver promises: every item gets one verdict, done or halted, keeps it,
and gets it eventually if its kind keeps enumerating it. `Orchestrator` implements it under the
mapping `verdict` from the checkpoint rows (`Queue == INSTANCE JobQueue WITH ...`).

| Run | Question | Bounds |
|---|---|---|
| `orchestrator_runs` | one kind: does exit code 0 mean settled (`OkMeansSettled`), does the status file tell how a run that got to its loop ended and is a cool-down kept (`StatusHolds`), and is every item settled in the end (`EveryItemSettles`, the refinement of `JobQueue` with its liveness)? | 1 kind, lists <<i1,i2>> and <<i2,i1,i3>>, 4 faults, cool-down of 2 ticks |
| `orchestrator_shared` | two kinds race on `status.json`: does `done` stay true (`DoneMeansSettled`), do verdicts stand (`VerdictsStand`, the refinement's safety)? | 2 kinds, 1 item each, 1 fault, cool-down 0; kinds are symmetric |

The races on `status.json` need a second kind and one write of each in flight; four faults allow a
pause of every sort, and a kill after it, in one history. Fairness: a live run goes on
(`RunStep`, whose steps end every write and every item), the clock moves, and the schedule invokes
each kind again. It is not assumed that a run is not killed. Liveness is claimed for one kind:
with two, every pause may fail to be recorded because the other kind took the `.tmp` file, and
`StatusHolds` is false for the same reason (section 10).

`OrchestratorProofs.tla` proves, for any kinds, items and enumerations: `TypeCorrect`;
`OkIsComplete` from `RunInv` (a run has settled what lies behind its position and never runs a
settled item); `DoneIsComplete` from `FileInv` (every copy of `status.json`, the `.tmp` file and
the snapshots of writes in flight included, is true of the rows where it says `done`, which old
copies stay because rows never become unsettled); `Refinement`, the safety half of the refinement,
from a lemma that a step changes at most one row, and an unsettled one; `StatusIsBelieved`, under the
premise that the kind runs alone (`RunsAlone`: there is one kind), without which the property is
false, and of runs that were not killed and whose setup did not raise, of which the property says
nothing (section 10): the copy a write has read is then the file, what it is about to write is what the run has
come to (`Tells`), and a cool-down is over or announced with no run since (`Obeyed`).

Abstractions: one invocation per kind at a time; `write_text` to `.tmp` is atomic and the
disk takes every write (a rename fails only for want of its `.tmp`); the row's
`detail` and pause reason, and the numbers in `status.json`, are left out.

## 5. Run context and providers

`RunContext.tla` models what lies between a job and the model services. A process is a run; it
makes one call at a time: a completion (`Ask`), an embedding batch (`Embed`), or a Claude run
(`ClaudeStart` to `ClaudeStop`) whose tools make completions and embeddings in between. A call
goes through the steps the code takes: budget check and choice of the cache key, look-up (`Hit`,
`Miss`), the attempts under the throttle and its breaker (`CallFails`, `CallRaises`, `CircuitOpen`),
the answer with its pin or its drift (`Answered`, `Drifted`), the transcript event, the cost row,
the repairs an unparsable answer is given under the first budget check (`RefusedRow`), the cache
store. The cache is shared by all runs; the gateway may move an alias to another model at any time
(`Drift`); a run may be killed at any step. `owed` and `used` are history: answers that reached the
run, and the models whose completions it was handed.

| Run | Question | Bounds |
|---|---|---|
| `runcontext_cache` | two runs share the cache while the gateway drifts: are entries their model's (`CacheFaithful`), is a pinned run served by its pinned model alone (`PinHolds`)? | 2 runs, 1 alias, 1 request, 2 models, 2 calls and answers per run, 1 drift; runs are symmetric |
| `runcontext_caps` | how far do the caps bind (`CapsHold`), how far does a service that is down get called, and do transcript, cost log and counter agree (`CallsAccounted`), does every call return (`CallReturns`)? | 1 run, 1 request, 2 texts, 2 calls, 1 message, 2 attempts, breaker at 2, 1 cut of a batch, 1 drift, 3 answers |

The cap a run declares is exceeded by at most three calls: the two repairs that follow a checked
call, and the Claude run around it, which is counted when it ends. `CapsHold` states that bound.
`BudgetExceeded` is documented as "Raised *before* a call would cross a declared cap" (`errors.py:13`); for
a call that needs no repair and runs inside no Claude run, that is so.

Two runs suffice for the cache: an entry has one writer and one reader. Two attempts and a breaker
at 2 let a call start one failure below the threshold and pass it. `MaxAnswers` ends a run's
history, not a call. Fairness is weak fairness of the steps of a call in flight: an attempt ends
because `call_with_hard_timeout` ends it. The end of a Claude run is not claimed: it depends on the
stream.

`RunContextProofs.tla` proves, for any runs, models, requests and limits: `TypeCorrect`;
`CacheIsFaithful`, from the fact that a store happens only under the model an answer was recorded
with; `PinsHold`, from `PinInv`: the job of a pinned run, once it is answered or found in the
cache, names the pinned model; `CapsAreKept`, from `CapsInv`, which counts what a call in flight
may still add; `CallsAreAccounted`, from `AccountInv`, which has for each point of a call how far
event, row and counter may be apart there (`LogsAt`), and that a call began below the breaker and
each of its attempts since added one failure at most (`BreakerAt`).

Abstractions: tokens and wall-clock seconds, which are checked where calls are; waits and backoff;
a gateway that names no model (the code falls back to the configured one); `--no-cache`; a rerank is
the completions it makes; the GitHub token provider. Attempts that fail are logged nowhere, in the
code as in the model.

## 6. Theme cycle

`ThemeCycle.tla` models one theme from its first cycle record to settled: the developer's commands
(`sign_off`, `SurveyRun`, `Amend`, `Atomize`, `RunDebate`, `Waive`, `Verify`, `StartMint`, the
finalizers, `open_r5`, `open_r6`, `CrossThemeEdges`, `settle`), each with the conditions its
blockers check and the files it writes. `tree`, `head` and `main` are file systems, partial
functions from the files of a cycle to what they hold; `history` holds the contents whose
Record-Keys HEAD's history names. A command that only writes is one step. A command that lands does
so one file at a time, in the code's order, and `Land` gives each file one of four results: landed,
refused, raised, or killed. What survives of the landing protocol with one clone is what the cycle
depends on: a key found in history lands nothing, an unchanged file cannot be committed, the rebase
refuses while a tracked file is modified, and a push carries every commit before it.

`MaxUpsets` bounds what disturbs a cycle, at any step: a command killed, a landing refused or
raising for outside reasons, a cycle begun again or signed again, a registry edited without the
survey, and a commit of the developer's own (`HandCommit`).

| Run | Question | Bounds |
|---|---|---|
| `theme_cycle` | does `main`'s cycle claim only steps whose document `main` holds in the signed text (`StatusIsBacked`), do plan and cycle count only records `main` holds (`PlanTellsTruth`), is a settled cycle the last to land (`SettlesLast`)? | 1 contested entry, 2 texts, one run per document, 1 upset; texts are symmetric |

One entry and one upset suffice for the claims checked: each relates one status, or one entry, to
one document, and is broken by one landing that goes out without the one before it; the second text
makes every document of the first stale. The same properties hold with two entries and no upset,
and with one uncontested entry and two. The commands are the developer's, so no fairness is assumed
and no liveness claimed, and CHECK_DEADLOCK is off because a settled cycle with its bounds used up
is at its end.

`ThemeCycleProofs.tla` proves `TypeCorrect`, `StatusBacked` and `PlanTruthful`, for any entries,
texts and bounds, from one inductive invariant, `MainInv`. The properties speak of `main`, and
`main` grows by a push of HEAD, so the invariant has to say why HEAD is consistent at that moment:
a push goes out only from a tree in which no tracked file is modified, so what is pushed is the
tracked part of the tree, and what the tree claims of a document (`TreeClaims`) is claimed of a
document that is tracked. `CommandClaims` says which of its files a command in progress has
already put into HEAD, and `HistoryInv` that a document one of whose keys is found in history is
tracked. Each landing is then one lemma (`LandClaims`, `PushClaims`) and each
command one step of the proof.

`SettledIsLast` needs a second invariant, `SettleInv`. A text whose key is in history lands nothing
and is reported landed, so `settle` could close a cycle over a plan that HEAD has in an earlier
text, if a plan could come back to it. It cannot: atomizing, debating and waiving make a plan that is
later whatever becomes of its statuses, and every other command moves each entry forward
(`NotAfter`, `Stage`). So a text that history knows and the tree has is the one in HEAD
(`PlanForward`, `PassForward`); before the structure review no cycle is past R4 (`ReleaseInv`);
what `settle` has worked off is in HEAD (`SettleClaims`); and a HEAD whose cycle is settled, while
`main`'s is not, has the plan closed and the consolidation finished (`SettledHead`).

Abstractions: one clone; `cycle advance --to`, with which the developer overrides a status;
dimensions and qualities, which mint without a verdict; the contradiction ledger; dedup rulings; the
migrations of R6 (`Migration` has them); what a kill leaves staged, which `Landing` has; a debate escalates only an entry
without a verdict; one debate and one waiver per entry; the new entries of a split; dropped entries
stay dropped; the mint order (`Carving` has these). Whether an entry is contested is a constant, a document's content is
the digest it was made for and the number of its run.

## 7. Evidence

`SourcingQueue.tla` is the table in which ingestion, verification and the currency jobs leave what a
human has to look at. It has no unique index and its connections are autocommit, so `file` is a
SELECT and then an INSERT or an UPDATE by id; `Select` and `Upsert` are those, `File` is both where
nobody else files under the kind.

`Ingestion.tla` has the private tier (`Put`, `WriteManifest`, and a kill in between), the skip rule
(`IsCurrent`) with the settings that a run stores before it works (`Overridden`), the gate of the QA
harness as far as it depends on the stored floor (`Passes`), promotion and embeddings. `tools`
stands for the version of the backend, the chunker and their configuration. `Verification.tla` puts
processes over it: the nightly job and the developer's gates take up facts, go through their pairs
and decide (`Admit`, `Refuse`), file and bounce issues in separate statements, and register and land
contradictions. The register is a file without a lock: `LoadRegister`, `OpenRegister` (which empties
it) and `DumpRegister` are three steps of one verifier, so another one's entry can be dropped, and an
empty file can be loaded, landed, or left behind by a kill. What a pair's stages answer is a choice among what the state of its source
allows; `Verdicts` has the rules, through `INSTANCE`. `Currency.tla` has the link checker and the
edition check, each with its steps (fetch, record the baseline, file), pages that change and answer
or not, kills between the steps, and `supersede` with its three writes. `Chunking.tla` is the
chunker as the accumulator it is. A step is a heading, a block that fits, or one piece of a block that
does not: `left` is the words of it that no piece has taken yet, in the order in which the loop of
`add` takes what `_split` makes (`Piece`, `Rest`). The overlap that is carried over, text folded
forward before the first heading, sections, pages and locators are all there. A word is where it
stands and how wide it is, so that the properties can ask whether a chunk holds it.

| Run | Question | Bounds |
|---|---|---|
| `evidence` | is what a run skips what it would store (`SkipIsSound`); has a refused source an open issue (`RefusedIsVisible`); are bounces, open issues and the register bounded and landed however verifiers interleave, but for what unlocked rewrites lose (`VerificationSound`); do findings not stack and does the ledger of sources follow the records (`CurrencySound`); do chunks hold all of their document and repeat nothing on its own (`ChunksCover`); is a page that changed between two checks reported (`DriftIsFiled`)? | 3 sources, 3 texts, 2 names and locator orders, 2 acquisitions, 1 upset; 2 facts, 2 verifiers, budget 1, 2 facts taken up; 3 page bodies, 2 days, 2 changes, 1 outage, 1 kill; documents of 4 blocks of 8 shapes, at most 8 tokens a chunk, target 5, 2 words of overlap |
| `chunk_pages` | section 10 | as above |

Two acquisitions let the second overwrite what the first was ingested from; one upset is an upgrade,
a deletion or a kill between any two of them. Two facts that share a source and two verifiers are
what a stale SELECT needs, and a second bounce is already over the budget of 1. Two changes of a page
and one outage put a missed day between a change and the check that must report it. Four blocks are
a heading, a body that fills a chunk, one that is carried into the next and one that closes it.

Three exceptions are part of the properties because the code has them. `torn` sources: a `put` that is
killed after it has overwritten the original (`snapshot.py:95`) leaves a manifest with the old hash,
and an ingestion that is current by the hash is then not that of the file. `cut` sources: a link check
that is killed between `record_link_check` and `file` has moved the baseline and loses its finding.
`exposed` contradictions: `mint_verification_record` loads the register and rewrites it
(`contradictions.py:115-144`) without a lock. What two verifiers mint while their rewrites overlap,
and what the register had while an emptied file was loaded, landed or left behind by a kill, may be
missing from the register and from `main` although the item is done; without this exception TLC finds
the nightly job's contradiction dropped by a gate in sixteen states. The history variable collects
exactly those, and `ConflictsAreLanded` speaks of all others. A dump is all or nothing here: a large
file cut in the middle, or two dumps mixed, would be read as no YAML at all.

Abstractions: the verdict ledger is append-only and no decision reads it; facts carry no `since` in
`Verification` (they do in `Judgement`); an edition page that cannot be fetched counts as checked,
as in the code; an exception of ingestion that is not its own ends a run as a kill does; the landing
of the register is its result; redirects, robots and rate limits of
fetching; what a backend extracts is a choice of blocks. Decision D66 lets a later ingestion take
away the support of a fact already admitted; nothing claims the contrary.

`EvidenceProofs` proves `RefusedIsVisible`, `SkipIsSound`, `CurrencySound`, `DriftIsFiled` and
`VerificationSound` for any sources, texts, facts, verifiers and pages, under a specification that
composes ingestion, the verifiers and the currency jobs: the steps of all interleave on one queue.
The assumptions are those of the modules: finitely many verifiers, at least one, and at most one of
them nightly, because one invocation of the job kind runs at a time (its overlap is a hazard no
property covers); a budget that is a number. The invariant has four parts. `QueueInv`: entries are
well formed, findings do not stack, and a refused source has an open issue; it needs no strengthening
once it is shown what one `file`, one finding, one bounce and one resolution do to a queue with these
properties (the first lemmas). `IngestionInv`: for a source that is not torn, the original a manifest
names has the hash the manifest has unless a `put` of that source is under way (`OriginalsHeld`,
`PuttingHeld`), and the chunks are those of the last row promoted (`ChunksOfRow`); without the first,
a skip by the manifest's hash would say nothing of the file. `CurrencyInv`: a page that no longer has
the body a check last completed on is on the queue or still with the job that found it (`DriftInv`),
and an adoption under way has written its record before the ledger (`LedgerInv`). `VerificationInv`
counts what is about to happen with what has: the bounces of an issue and the verifiers that have
decided to bounce it (`BudgetInv`), the open issues of a source and the verifiers whose SELECT found
none (`IssuesInv`), each together within the bound. Its part on the register (`RegisterInv`) says
where a contradiction is that is not exposed: on the file, or, while the file is empty, in the memory
of the verifier that emptied it, and in that of every verifier that has loaded it and not written yet
(`WritersInv`); and a row is done only when its contradictions are on `main`, because nobody but the
nightly process writes rows (`RowsInv`).

The same module proves `ChunksCover` of `ChunkingSpec`, for any blocks, titles, locator preferences,
size band and overlap. Assumed are that a body has a word and a heading a title, and that the target
and a quarter of the limit (the share of the breadcrumb) fit into the limit together. The latter is
needed: what stands before the first heading is gathered without a breadcrumb and emitted with one
(`FoldFits`). The invariant (`ChunkingInv`) says that the chunks and the buffer hold exactly what has
been read and is not left over, that the buffer is overlap of the last chunk or has something new and
is no larger than a chunk (`Gathers`), and that it is short of the target while no section is open
(`Short`). `Flushes` and `Pushes` are what `flush` and one round of `add` make of that; two rounds of
the `while` loop are enough because the first leaves only overlap, which the second drops
(`MakesRoom`). `Splits` shows that a piece fits and that piece and rest are the text.

## 8. Restructures

`Restructure.tla` is the canonical store as `tools/validate` judges it and the interpreter of
migration manifests, as operators on a tree: which facts a tree has, its references, redirects and
ledger (`Green`), what `plan_migration` makes of a manifest or refuses, what is sent to the gate,
and the guard that lets a settled record change only with a ledger line. `Migration.tla` is
`origin/main` with those who commit to it: mints, edits and renames, the settling of a theme, a
migration drafted, planned and landed from a clone that falls behind (`Rebased`, `Lands`), the
replay that CI runs on what landed, and the `git revert` that undoes one. A commit that CI refuses is
reverted before anything builds on it, so it does not happen here; a landed migration says whether
its replay was green.

| Run | Question | Bounds |
|---|---|---|
| `restructure` | does what the interpreter accepts leave nothing dangling and nothing ungated, for every manifest of every reachable store (`StoreSound`); does a migration that `main` has left behind land only where it is the same on `main`, unless `main` changed what its manifest reads (`StaleNeverLands`); is every fact a settled record ever had live or in the ledger (`FactsAccounted`); can a migration be reverted (`RollbackHolds`); do published URLs keep leading somewhere (`URLsKept`)? | 3 features, 1 concept, 1 quality, 1 rule, 2 texts; 4 stores to start from, one with redirects and tombstones of its own, one where a node has the slug that another will be minted with; 7 restructures (remove, move, merge both ways, split with and without demotion) and every remap of what they touch; 2 commits and any number of reverts |

Two commits are the migration and the one it races with, or a migration and an edit of what it left.
The three features are a pair to merge and a third that both are related to, with polarities that
agree or not; a split needs all of them.

Abstractions: one disposition per manifest; the order of a remap; conflicts are per record, the
ledger and the redirects being one record each (git would merge separate hunks); feature instances,
which no migration may touch; the types of edges, so that an edge is its endpoints; dimensions of
layer 3; an edge's statement and an assessment's key. `StaleNeverLands` names its exception: a manifest reads
records that it does not rewrite (the nodes it names, what points at the old ones, what they are sent
to, the edges that absorb a claim: `Reads`), and when `main` has changed one of these, git sees no
conflict, the validators may pass, and it is the replay that turns red. `StoreSound` claims that redirects lead somewhere while no two live nodes share a slug
(`SlugsDiffer`): the validators let two share one (section 10).

`MigrationProofs` proves `StoreSound`, `StaleNeverLands`, `FactsAccounted`, `RollbackHolds` and
`URLsKept` for any nodes, edges, rules, texts, slugs and commits, under two assumptions on the constants: `StoreAssumption`
(nodes, qualities, edges and rules are different things, a redirect may be followed a number of hops)
and `MigrationAssumption` (the stores to start from are valid with a ledger older than any migration of the model, and a merge
has one survivor, as `apply_disposition` demands). The first part of the module is the interpreter: what one disposition makes
of any well-formed store, kind by kind, and that a tombstone line leads on to a live fact or to
nothing. The second is an inductive invariant, `MigrationInv`: `main` is typed and passes its
validators (`Stored`); what is owed is live or in the ledger (`Owing`); a migration being prepared was
planned by the interpreter on a store of that kind (`Planned`); the one that landed last is what the
interpreter makes of what was there before (`Landed`), so that a `git revert` restores a valid store.
A manifest has one disposition, in the model as in the proofs: the interpreter over a list of them is
a fold.

`StaleNeverLands` compares two runs of the interpreter, on the store a plan was made from and on what
`main` has become, and takes a part of its own ("A migration that main has overtaken"). Where the
records a manifest reads are the same on both, so is everything that points at its old nodes: what
`main` added would dangle in the rebased tree, which the validators refuse, and what `main` dropped is a
record that was read (`SameAffected`). So both runs have the same governing dispositions, and the
rebased tree is then compared with the second run file by file: nodes, edges, rules, redirects and
the ledger (`SameNodes`, `SameEdges`, `SameRules`, `SameRedirects`, `SameLedger`). The ledger needs
the numbering of migrations in the invariant (`Numbered`), since a line of the same number could stand
for another fact. The proof corrected the property: it used to except only records that both sides
delete, which TLC's instance could not tell from the exception it has now.

## 9. Research

`Verdicts.tla` has the rules of verification as operators: the stages of a pair from shape to the
second opinion, the fold over a fact's pairs, admissibility, confidence. `Judgement.tla` takes one
fact through them citation by citation, over every combination of the stages' outcomes.
`Controversy.tla` has the assessor's workers on one record: they read verdicts, debates and
contradictions, assess fact by fact, land the block, and remember in a private ledger what they
assessed, while claims are corrected and a commit is reverted. A command typed with `--no-escalate`
has no reviewer, and what it finds goes the same way. The workers share one clone and hold no lock, so
a landing is a series of steps that those of another worker, or of another record's landing, come between:
the comparison of the file with what was read, its write, the commit, fetch and rebase, validators
and push, a rejected push that starts over, the ledger's rows. `Carving.tla` is one carve plan with what
its entries hold: drafting with the trimmer, misfits that block, contested triggers, debates that
settle, revise or split, waivers, drops, the gate and the mint in its order. A debate takes its id
when the moderator has spoken and saves its record when the resolution is applied; `lost` has the
records that another terminal's replaced. Every command reads the plan file, works for minutes or hours and
writes back what it holds, at two terminals. `RealityCheck.tla` is the check of R5 in the same way at
two consoles: compile, classify language by language, verify, the shakedown log, finalize, and
features that a migration drops in between.

| Run | Question | Bounds |
|---|---|---|
| `research` | is an admission earned at every rank, and is high confidence two independent sources (`AdmissionEarned`); does a level stand on a fact the record derives, and level 3 on a review or a command typed without (`LevelsStand`); does the assessor's memory agree with what `main` tells, and does a landing that no other crosses leave the other's entries alone (`AssessmentsStand`); was every record the plan calls minted reported landed (`MintedWasReported`); do the plan's references hold (`PlanSound`); is nothing gated landed that the verifier has not admitted (`GateIsPassed`); are the answers of a language one session's, and do findings stand whatever the unverified cells turn out to be (`RealitySound`)? | 4 citations of which 3 known, 3 per fact; 3 facts (2 under one key), 2 runs, 1 change of the world, levels 0 and 3; 13 carves, 2 per role, 5 entries, 1 refusal, 1 foreign record, each command once; two debates at one terminal, or two terminals and one debate once the structure review is recorded, or a debate at each terminal under one id; 2 languages, 3 features, 2 answer sheets, 3 sessions, 4 commands, 1 dropped feature; consoles are symmetric |

Three citations are two that support and one that contradicts. Two runs and one change are an
assessment, what makes it stale, and the assessment that has to see it. Landings take turns while the
world changes (`assess`), or cross in a world that stands still, where a second landing and another
record's are all a crossing needs (`cross`); in both, one worker assesses at a time. Each command once at two
terminals is every pair of commands of which one overwrites the other's plan (`race`); a second debate,
on another entry or on one that the first split off, and a plan before its structure review are
explored with the terminals taking turns (`carve`); a debate at either terminal
under one id, and nothing else, is `debate`; the theorems below have no such bounds. Three
sessions are one per language and one redone, and four commands the shortest way to a finalized check.

Exceptions in the properties, because the code has them: in `AssessmentsStand` a level 0 that
withdraws an entry is exempt, because a text that was landed before has its Record-Key in history
and is reported landed again although `main` tells otherwise. So is a landing that another crosses:
it may overwrite the other's entries, commit its text, or find its own pushed by it, and once such a
landing has pushed (`blind`), `LevelsStand` no longer says that `main` has no orphaned level, because the
validators read another text than the push sends. That level 3 is reviewed holds throughout, except
for the runs typed with `--no-escalate` (`alone`). In `PlanSound` the order of a mint is not
claimed of carves that a debate has written (`Redrafted`: no check reads what a split or a revision
names) nor of an id that two kinds of record go by; a debate may be one that was saved over; and a
blocked carve whose key another carve has taken is settled with it. `MintedWasReported` asks for a reported
landing, which section 10 shows is less than a landing.

What reading these modules against the code brought out, and they keep as it is:

- Carving. A debate that escalates ("the developer must rule", `debate.py:51`) leaves the entry
  `proposed`; dimensions and qualities, which need no verdict, mint from there without the ruling
  (`minting.py:147`). A revised carve keeps the verdict of the carve it replaces. Replacement keys of
  a split and a second `draft edges` are not checked for uniqueness (the instance takes them fresh).
  Merging into a survivor that is dropped itself is possible; dropping a node leaves its edges, which
  the mint refuses. Trimming can cut the concept that a feature realizes. An id that another theme
  has committed after the verification is overwritten by the mint. `debate` and `waive` accept
  entries that are minted or dropped. An entry whose debate was saved over is minted with the id of
  the other debate (`minting.py:94`), and `assemble.py` reads that one as its own.
- Controversy. `anchor_key` falls back to the kind of claim (`run.py:51`), `compile.py:77` does not.
  The skip trusts the block on file. `validate_controversy_blocks` refuses a record whose entry's
  fact has gone, and a new run cannot remove the entry. A retry captures candidates again.
  The job does not catch `RaceExhausted`, and what a landing that fails at its commit leaves in
  the file refuses every rebase of the clone until somebody commits it.
- Verdicts. The tier C branch of `derive_confidence` and its cap for absences on one source cannot be
  reached. A `since` may be supported by a pair of tier D or one whose claim is not supported. A
  mandatory second opinion on a passage too large raises.
- Reality check. `classify --redo` after `finalize` and then a `shakedown` entry closed lands a
  check with cells no gate has seen and old findings on a cycle that is `r5-done`. An entry closed
  while another command works is lost; `--restart` drops the log.

Left out: signals and spreads, sign-off (in `ThemeCycle`), evidence binding, findings and warnings of
a carve, contradictions minted in debates, invalid trimmer output; another cycle's compile at the
same ontology version, uncovered constructs, notes and summaries of a check. The modules of sections
7 to 9 state no liveness: what happens next is the developer's, a cron's or a page's. CHECK_DEADLOCK
is off because an instance whose bounds are used up is at its end.

`AssessmentProofs` proves `AdmissionEarned`, `LevelsStand` and `AssessmentsStand`. The first is for any
sources, tiers, independence and cases of a citation (`CasesAssumption`: the cases are cases): the
invariant keeps where the one pair of a first citation comes from, and the rest is what the rules of
`Verdicts` make of it. The other two are for any record, workers, levels and verdicts, and
assume that the record's order lists facts it may derive (`RecordAssumption`), that findings are sets
of pairs (`FindingsAssumption`) and that the value for an absent entry is not an entry. `RunsInv` is
what they rest on: every entry carries the run that wrote it, runs are numbered, and the number of a run
that has not written is in no text of the record anywhere, so an entry with that number on `main` can
only be that run's own landing. `LandInv` has what a landing finds as long as none crosses it: after
the check the file is as it was read, then its own text, then the clone's, and its number is neither on `main`
nor in the commit the clone builds on. `RecordInv` has every level 3 reviewed, or of a run without a
reviewer, in `main`, the clone, its tree and the commit it is based on; `WorkersInv` that a worker's rows and
drafts agree and are reviewed where they must be; and `ToldInv` that a level about to be remembered has
been on `main`, unless the landing was crossed.

`ResearchProofs` proves `GateIsPassed`, `MintedWasReported` and `PlanSound` of a carve plan, for any
carves, outputs, splits, revisions, caps, bounds and terminals, from assumptions on what a model's
output can be: a role fills its own lists, a revision keeps the key, the id, the list and the kind, and
only features and edges name records. Since any plan a terminal holds can become the next file, the
invariant speaks of every entry of every copy (`CarvingInv`): the debate it names is on file and about
it, and what it says was admitted is admitted. It rests on one lemma, `CarvingSteps`, which has what a
step can write: a copy there is, or a plan each of whose entries is drafted just now, split off in the
debate just held, or an entry of one copy marked, settled, revised, waived, dropped, verified or
minted (`Becomes`). The order of a mint is that of any sort by list and kind (`Picked`, `SortedOrders`).

`GateHolds` and `PlansHold` have no premise. For the second the invariant (`OrderlyInv`) adds that an
entry that is not blocked and not `Redrafted` fits the structure of its drafter, whose check has the
names before the record, and that a blocked entry whose key is its own (`Sole`) is as it was drafted. An
edit keeps every entry in its place (`SamePlace`), so the rest of the plan has the keys it had, and what a
debate splits off is `Redrafted`. `MintedHolds` needs what no schema or check of the code ensures, and is
false without: that one key stands for one id (`OneIdEach`), because results are written back by key.
`MCResearch` assumes it of its carves, which TLC evaluates.

It also proves `RealitySound` for any questionnaire, languages, consoles and bounds, from
the assumptions that the theme's features are finitely many and a group that is no dimension has one
member. The invariant says of the check in the work tree, the one on `origin/main` and every record a
console still holds, however old, that it is whole: its cells are answers of its sessions to what
those were asked. That part is what overwriting needs, since any of these can become the next file.
`FindingsAreMonotone` is the lemma about the findings: each rests on cells that are settled, so giving
the others any answer keeps it; finiteness is for the violations, which count.

## 10. Where code and comments disagree

Two have a run of their own, which checks one property that TLC finds violated:

- `landing_report` (`LandedIsOnMain`): a call that ended blocked, contended or halted leaves its
  commit on HEAD; the next call with the same content finds its key in the clone's own history and
  returns `Landed`, with `main` unchanged. TLC's counterexample is the shortest of these: a call
  whose time is up once it has committed, and the same call again. `trailers.py:27` calls this
  history "main's".
- `chunk_pages` (`PagesAreOfText`): a flush that carries nothing over, because the body had no more
  words than the overlap, keeps the last page all the same (`chunker.py:256`), and the next chunk of
  the section cites it. The comment at `chunker.py:228` calls that "a citation pointing at a page
  nothing in the chunk's text actually came from".

The following came out of the modelling and have no run:

- A command typed with `--no-escalate` assesses, finds level 3, has no escalator to ask
  (`controversy/run.py:134`) and lands what it has. The help of the option says that such facts are
  "assessed by the thinker alone and reported, not landed" (`cli.py:121`).
- The nightly job finds a record's file as it read it (`research/land.py:52`); before it writes
  (`commit/land.py:105`), the developer's command reads, assesses, writes, commits and pushes the same
  record; the job then writes its older text over it and lands that. `block.py:57` says that "a record
  another process rewrote between read and land is re-rendered rather than clobbered".
  `Controversy` has both; the properties say of which runs and landings they do not speak.
- Two terminals that debate at once take one debate id (`debate.py:339`), and the record that is saved
  later replaces the other: an entry then names a debate that is not about it.
- The validator reads the work tree, the push sends HEAD: a record that a killed call wrote and
  never committed makes a record that refers to it valid, which then lands alone. `MainStaysValid`
  is therefore claimed without kills.
- `driver.run` writes `running` before `RunContext.start`, and only the item loop has the handler that
  writes `crashed` (`driver.py:74-77`, `126`): a run whose setup raises leaves a `running` that is
  over, or what an earlier run left. The test that wants no stale state (`test_driver.py:235`) speaks
  of item runners, and so does `StatusHolds`.
- `write_status` reads the file, changes one entry and replaces the whole: a kind that pauses
  between another kind's read and rename loses its cool-down.
- `record_minted` rewrites the cycle file after each landed record; once R3 is finalized that file is
  tracked, and the rebase of the next record refuses (`land.py:59`). A batch lands its first record and
  halts at the second, whose commit goes out later, where `minting.py:214` says "Land every mintable
  entry, one commit per record".
- A debate held on an entry of R6 is named by the plan that `settle` lands, and no command lands its
  record (`consolidate/lifecycle.py:145`).
- Words carried over from two pages keep only the last page in the list, so overlap may lie outside
  the page range (a chunk's own text never does, `PagesSpan`).
- The order of dispositions that `diff_class` reports is that of a set (`version.py:107`).
- All notes of an instance have one block key, because `anchor_key` has no case for `instance-note`
  (`controversy/run.py:51`): assessing one note removes the entry of another, where `block.py:8` says
  "Unassessed facts are untouched." Facts that share a key are excepted in `AssessmentsStand`.
- Nothing keeps the slugs of live nodes apart: the mint gives a node its id for a slug (`mint.py:107`),
  `rename_slug` looks at the nodes that are live then, and the validator of redirects
  (`redirects.py:36`) does not compare slugs. A node minted again may share the slug another took
  meanwhile, and the merge of one of the two makes a redirect of a live slug, which only
  `check_plan` refuses, so that neither can be merged.
- `set_entry` marks every entry with a key (`plan.py`), and the results of a mint are written back by
  key: of two entries with one key, a landed one marks a refused one `minted`. Keys are compared within one
  output of the ontologist only.
- A fact tombstoned and minted again cannot be tombstoned again: the second line is refused as a
  duplicate (`tombstones.py:134`). A `git revert` of a migration that restructures settled records is
  refused by the guard (`tombstones.py:163`), which `RollbackHolds` excepts.
- A dimension refused at its landing stays in the tree (`taxonomy.py:60`). Minting does not ask for a
  sign-off. Signing a settled cycle again makes it unsettled.
- A kill between `git add` and `git commit` leaves the record staged for the next call's commit
  (`land.py:106`). A run of `run_migration` killed between the landing and `save_record` forgets it.
- The rows of the link checker and the edition check stay `done`, so the next month's run skips every
  source until the checkpoint database is removed (`link_checker.py:67`; `DropCheckpoint`).
- `auto_revert` resets the clone to `origin/main` and drops what an earlier call left unpushed
  (`revert.py:58`). Two runs of one kind that start together take the same run id
  (`transcripts/writer.py:39`).

## 11. What is proved and what is only checked

Proved for every value of the constants (assumptions on them are named in the modules): the
theorems of sections 3 to 6, and those of `EvidenceProofs` (section 7), `MigrationProofs` (section 8),
`AssessmentProofs` and `ResearchProofs` (section 9). Three have a premise besides: `MainIsValid` is
proved while there are no crashes and no foreign edits, `StatusIsBelieved` of a kind that runs alone,
and `MintedHolds` where one key stands for one id (section 9); the properties are false without. All
others hold under everything the modules allow, with the exceptions their definitions name: where the
code does lose or tear something, the model does it too, and the property says of what it does not
speak.

Before each proof TLC checked the inductive invariant, or its parts, on the run's instance.

Checked by TLC on the instances above only:

- the liveness properties `CallsReturn`, `EveryItemSettles` and `CallReturns`, since fairness and
  ENABLED are out of the prover's reach.

Every safety property that a passing run checks is the subject of a theorem. Where a fact about a
recursive function or a sequence needs induction (sums of widths, the offsets of words), the proof
takes the least counterexample instead (`LeastIssue`), because the library's induction takes an
operator, which no installed prover instantiates.

## 12. What is not modelled

- Transcripts and run ids, prompts and their configuration, reports: files of one run, written once;
  redaction is text matching. The race of two runs for one id is listed as a hazard.
- Auto-revert's budget and reset, and the issues it opens. The commit it makes is in `Controversy`.
- Tagging, the pool and the scouting queue of a survey, dedup rulings and the cross-theme pass: a
  conversation with a model whose outcome enters `ThemeCycle` as a flag or a file.
- Retrieval benchmark and golden sets, coverage reports, the compilation of the questionnaire:
  functions of the store without state of their own. Finding aids download a mirror, which a refresh
  replaces as one file.
- Two invocations of one job kind at a time; Postgres beyond the queue, the chunks and the rows that
  are modelled; the extraction backends; the wording of prompts and reports.
- Command lines parse arguments and call what is modelled; those that read a file, work for hours and
  write it back are modelled with what they call.
