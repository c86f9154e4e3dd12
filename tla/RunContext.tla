----------------------------- MODULE RunContext -----------------------------
(***************************************************************************)
(* The provider layer of tools/pipeline: what a RunContext does between a  *)
(* job and the model services.  Each run has its own call budget, alias    *)
(* pins and retry counters; all runs of a machine share the response cache *)
(* and write a transcript and a cost log.                                  *)
(*                                                                         *)
(* A run makes one call at a time: a completion, an embedding batch, or a  *)
(* Claude run, whose tools make completions and embeddings of their own.   *)
(* Of the budgets, the calls and the Claude messages are modelled; tokens  *)
(* and wall-clock seconds are checked at the same places.                  *)
(***************************************************************************)
EXTENDS Naturals

CONSTANTS
    Runs,           \* run contexts
    Aliases,        \* model aliases the gateway resolves
    Requests,       \* what a completion asks: messages, sampling, schema and prompt
    Texts,          \* what is embedded
    Models,         \* resolved models
    Embedder,       \* the embedding model
    NoModel,        \* no pin yet
    Hint,           \* Hint[a]: the resolved model the configuration names for a
    MaxCalls,       \* the run's budget of calls ...
    MaxMessages,    \* ... and of Claude messages
    MaxAttempts,    \* transport attempts per provider call
    Breaker,        \* consecutive transport failures that open the circuit
    MaxShrinks,     \* how often a batch the embedder finds too long is cut
    MaxDrifts,      \* bound: how often the gateway changes its mind
    MaxAnswers      \* bound: the answers after which a run asks no more

ASSUME ModelsAssumption ==
    /\ NoModel \notin Models
    /\ Embedder \in Models
    /\ Hint \in [Aliases -> Models]
    /\ Aliases # {} /\ Requests # {}
    /\ Requests \cap Texts = {}
ASSUME LimitsAssumption ==
    /\ MaxCalls \in Nat /\ MaxMessages \in Nat /\ MaxShrinks \in Nat
    /\ MaxDrifts \in Nat /\ MaxAnswers \in Nat
    /\ MaxAttempts \in Nat \ {0} /\ Breaker \in Nat \ {0}

VARIABLES
    serving,    \* the model the gateway resolves each alias to
    drifts,     \* how often that has changed
    cache,      \* the call cache: who answered, per <<model, request>>
    pc,         \* what each run is doing
    job,        \* the call it is making
    streaming,  \* whether that happens inside a Claude run
    calls,      \* calls counted against the budget
    messages,   \* Claude messages counted against the budget
    pin,        \* the model pinned for each alias
    failures,   \* consecutive transport failures of each channel's client
    events,     \* calls recorded in the transcript
    rows,       \* calls recorded in the cost log
    owed,       \* history: answers that reached the run, from a provider or the cache
    used        \* history: the models whose completions the run was handed

gateway == <<serving, drifts>>
logs == <<events, rows>>
counters == <<calls, messages>>
vars == <<gateway, cache, pc, job, streaming, counters, pin, failures, logs, owed, used>>

Channels == {"chat", "embed", "claude"}
Keys == Models \X (Requests \cup Texts)
Repairs == 3        \* complete(): the answer, a repair turn and a clean retry

Job == [channel : Channels, alias : Aliases, request : Requests \cup Texts, model : Models,
        attempt : 1 .. Repairs + MaxShrinks, try : 1 .. MaxAttempts, cached : BOOLEAN, parsed : BOOLEAN]

PCs == {"closed", "idle", "asked", "call", "event", "row", "store"}

TypeOK ==
    /\ serving \in [Aliases -> Models]
    /\ drifts \in Nat
    /\ cache \in [Keys -> Models \cup {NoModel}]
    /\ pc \in [Runs -> PCs]
    /\ job \in [Runs -> Job]
    /\ streaming \in [Runs -> BOOLEAN]
    /\ calls \in [Runs -> Nat] /\ messages \in [Runs -> Nat]
    /\ pin \in [Runs -> [Aliases -> Models \cup {NoModel}]]
    /\ failures \in [Runs -> [Channels -> Nat]]
    /\ events \in [Runs -> Nat] /\ rows \in [Runs -> Nat] /\ owed \in [Runs -> Nat]
    /\ used \in [Runs -> [Aliases -> SUBSET Models]]

-----------------------------------------------------------------------------
NoPins == [a \in Aliases |-> NoModel]
NoFailures == [c \in Channels |-> 0]
NoUses == [a \in Aliases |-> {}]
Idle == CHOOSE j \in Job : TRUE

Init ==
    /\ serving \in [Aliases -> Models]
    /\ drifts = 0
    /\ cache = [k \in Keys |-> NoModel]
    /\ pc = [r \in Runs |-> "closed"]
    /\ job = [r \in Runs |-> Idle]
    /\ streaming = [r \in Runs |-> FALSE]
    /\ calls = [r \in Runs |-> 0] /\ messages = [r \in Runs |-> 0]
    /\ pin = [r \in Runs |-> NoPins]
    /\ failures = [r \in Runs |-> NoFailures]
    /\ events = [r \in Runs |-> 0] /\ rows = [r \in Runs |-> 0] /\ owed = [r \in Runs |-> 0]
    /\ used = [r \in Runs |-> NoUses]

Goto(r, step) == pc' = [pc EXCEPT ![r] = step]
Note(r) == calls' = [calls EXCEPT ![r] = @ + 1]
Owe(r) == owed' = [owed EXCEPT ![r] = @ + 1]
Handed(r, a, m) == used' = [used EXCEPT ![r][a] = @ \cup {m}]

\* A call is over: it returned, or raised to the run's caller, who may go on.
Done(r) == Goto(r, "idle") /\ job' = [job EXCEPT ![r] = Idle]

\* check_budget(calls=1); a call over budget raises and changes nothing.
WithinBudget(r) == calls[r] + 1 <= MaxCalls

\* (MaxAnswers bounds the instance here.)
MayAsk(r) == pc[r] = "idle" /\ owed[r] < MaxAnswers

Start(r) ==
    /\ pc[r] = "closed"
    /\ Goto(r, "idle")
    /\ calls' = [calls EXCEPT ![r] = 0]
    /\ messages' = [messages EXCEPT ![r] = 0]
    /\ pin' = [pin EXCEPT ![r] = NoPins]
    /\ failures' = [failures EXCEPT ![r] = NoFailures]
    /\ events' = [events EXCEPT ![r] = 0]
    /\ rows' = [rows EXCEPT ![r] = 0]
    /\ owed' = [owed EXCEPT ![r] = 0]
    /\ used' = [used EXCEPT ![r] = NoUses]
    /\ UNCHANGED <<gateway, cache, job, streaming>>

Close(r) ==
    /\ pc[r] = "idle" /\ ~ streaming[r]
    /\ Goto(r, "closed")
    /\ UNCHANGED <<gateway, cache, job, streaming, counters, pin, failures, logs, owed, used>>

Kill(r) ==
    /\ pc[r] # "closed"
    /\ Goto(r, "closed")
    /\ job' = [job EXCEPT ![r] = Idle]
    /\ streaming' = [streaming EXCEPT ![r] = FALSE]
    /\ UNCHANGED <<gateway, cache, counters, pin, failures, logs, owed, used>>

-----------------------------------------------------------------------------
(* CompletionClient.complete. *)

\* The model whose entry is looked up: the run's pin, or what the configuration says.
KeyModel(r, a) == IF pin[r][a] # NoModel THEN pin[r][a] ELSE Hint[a]

NewJob(channel, a, q, m) ==
    [channel |-> channel, alias |-> a, request |-> q, model |-> m,
     attempt |-> 1, try |-> 1, cached |-> FALSE, parsed |-> TRUE]

\* Mutant: without the budget check.
AskUnchecked(r, a, q) ==
    /\ MayAsk(r)
    /\ job' = [job EXCEPT ![r] = NewJob("chat", a, q, KeyModel(r, a))]
    /\ Goto(r, "asked")
    /\ UNCHANGED <<gateway, cache, streaming, counters, pin, failures, logs, owed, used>>

\* Mutant: looks up what the configuration says, pin or no pin.
AskByHint(r, a, q) ==
    /\ MayAsk(r)
    /\ WithinBudget(r)
    /\ job' = [job EXCEPT ![r] = NewJob("chat", a, q, Hint[a])]
    /\ Goto(r, "asked")
    /\ UNCHANGED <<gateway, cache, streaming, counters, pin, failures, logs, owed, used>>

Ask(r, a, q) ==
    /\ MayAsk(r)
    /\ WithinBudget(r)
    /\ job' = [job EXCEPT ![r] = NewJob("chat", a, q, KeyModel(r, a))]
    /\ Goto(r, "asked")
    /\ UNCHANGED <<gateway, cache, streaming, counters, pin, failures, logs, owed, used>>

\* A cached answer is recorded as such.  One that no longer parses is no hit.
Hit(r) ==
    /\ pc[r] = "asked"
    /\ cache[<<job[r].model, job[r].request>>] # NoModel
    /\ job' = [job EXCEPT ![r].cached = TRUE,
                          ![r].model = cache[<<job[r].model, job[r].request>>]]
    /\ Goto(r, "event")
    /\ Owe(r)
    /\ UNCHANGED <<gateway, cache, streaming, counters, pin, failures, logs, used>>

Miss(r) ==
    /\ pc[r] = "asked"
    /\ Goto(r, "call")
    /\ UNCHANGED <<gateway, cache, job, streaming, counters, pin, failures, logs, owed, used>>

\* EmbeddingClient.embed: the cached texts of a call share one record and cost no call;
\* each batch of the rest is budgeted by itself.
NewBatch(q) == NewJob("embed", CHOOSE a \in Aliases : TRUE, q, Embedder)

EmbedHit(r, q) ==
    /\ MayAsk(r)
    /\ cache[<<Embedder, q>>] # NoModel
    /\ job' = [job EXCEPT ![r] = [NewBatch(q) EXCEPT !.cached = TRUE]]
    /\ Goto(r, "event")
    /\ Owe(r)
    /\ UNCHANGED <<gateway, cache, streaming, counters, pin, failures, logs, used>>

Embed(r, q) ==
    /\ MayAsk(r)
    /\ cache[<<Embedder, q>>] = NoModel
    /\ WithinBudget(r)
    /\ job' = [job EXCEPT ![r] = NewBatch(q)]
    /\ Goto(r, "call")
    /\ UNCHANGED <<gateway, cache, streaming, counters, pin, failures, logs, owed, used>>

-----------------------------------------------------------------------------
(* Throttle.run, once per attempt of a completion or a batch. *)

BreakerOpen(r) == failures[r][job[r].channel] >= Breaker

CircuitOpen(r) ==
    /\ pc[r] = "call" /\ job[r].try = 1 /\ BreakerOpen(r)
    /\ Done(r)
    /\ UNCHANGED <<gateway, cache, streaming, counters, pin, failures, logs, owed, used>>

\* Mutant: forgets the breaker.
TryingAnyway(r) == pc[r] = "call"

Trying(r) == pc[r] = "call" /\ (job[r].try = 1 => ~ BreakerOpen(r))

\* Mutant: starts over instead of giving up, and counts nothing.
CallFailsAgain(r) ==
    /\ Trying(r)
    /\ job' = [job EXCEPT ![r].try = IF @ < MaxAttempts THEN @ + 1 ELSE 1]
    /\ UNCHANGED <<gateway, cache, pc, streaming, counters, pin, failures, logs, owed, used>>

\* A transport failure or a timeout: try again, or raise ProviderTransportError.
CallFails(r) ==
    /\ Trying(r)
    /\ failures' = [failures EXCEPT ![r][job[r].channel] = @ + 1]
    /\ IF job[r].try < MaxAttempts
       THEN job' = [job EXCEPT ![r].try = @ + 1] /\ UNCHANGED pc
       ELSE Done(r)
    /\ UNCHANGED <<gateway, cache, streaming, counters, pin, logs, owed, used>>

\* Any other error of the provider is raised as it is, ...
CallRaises(r) ==
    /\ Trying(r)
    /\ Done(r)
    /\ UNCHANGED <<gateway, cache, streaming, counters, pin, failures, logs, owed, used>>

\* ... except that a batch which is too long may be cut and sent again, budget permitting.
Shrink(r, q) ==
    /\ Trying(r) /\ job[r].channel = "embed"
    /\ job[r].attempt <= MaxShrinks
    /\ WithinBudget(r)
    /\ job' = [job EXCEPT ![r].request = q, ![r].attempt = @ + 1, ![r].try = 1]
    /\ UNCHANGED <<gateway, cache, pc, streaming, counters, pin, failures, logs, owed, used>>

Recovers(r) == failures' = [failures EXCEPT ![r][job[r].channel] = 0]

\* Another model than the pinned one answered: AliasDrift, after the provider did the work.
Drifted(r) ==
    /\ Trying(r) /\ job[r].channel = "chat"
    /\ pin[r][job[r].alias] \notin {NoModel, serving[job[r].alias]}
    /\ Recovers(r)
    /\ Owe(r)
    /\ Done(r)
    /\ UNCHANGED <<gateway, cache, streaming, counters, pin, logs, used>>

\* The answer of a completion, which the schema accepts or not.
Answered(r, good) ==
    LET a == job[r].alias IN
    /\ Trying(r) /\ job[r].channel = "chat"
    /\ pin[r][a] \in {NoModel, serving[a]}
    /\ pin' = [pin EXCEPT ![r][a] = serving[a]]
    /\ Recovers(r)
    /\ Owe(r)
    /\ Note(r)
    /\ job' = [job EXCEPT ![r].model = serving[a], ![r].parsed = good]
    /\ Goto(r, "event")
    /\ UNCHANGED <<gateway, cache, streaming, messages, logs, used>>

\* The vectors of a batch are cached under what was sent.
Embedded(r) ==
    /\ Trying(r) /\ job[r].channel = "embed"
    /\ Recovers(r)
    /\ Owe(r)
    /\ Note(r)
    /\ cache' = [cache EXCEPT ![<<Embedder, job[r].request>>] = Embedder]
    /\ Goto(r, "event")
    /\ UNCHANGED <<gateway, job, streaming, messages, pin, logs, used>>

-----------------------------------------------------------------------------
(* CallRecorder.record_call: the transcript event, then the cost row. *)

WriteEvent(r) ==
    /\ pc[r] = "event"
    /\ events' = [events EXCEPT ![r] = @ + 1]
    /\ Goto(r, "row")
    /\ UNCHANGED <<gateway, cache, job, streaming, counters, pin, failures, rows, owed, used>>

Row(r) == rows' = [rows EXCEPT ![r] = @ + 1]

\* A recorded hit is handed to the caller and counts as a call.
HitRow(r) ==
    /\ pc[r] = "row" /\ job[r].channel = "chat" /\ job[r].cached
    /\ Row(r)
    /\ Note(r)
    /\ Handed(r, job[r].alias, job[r].model)
    /\ Done(r)
    /\ UNCHANGED <<gateway, cache, streaming, messages, pin, failures, events, owed>>

AnswerRow(r) ==
    /\ pc[r] = "row" /\ job[r].channel = "chat" /\ ~ job[r].cached /\ job[r].parsed
    /\ Row(r)
    /\ Goto(r, "store")
    /\ UNCHANGED <<gateway, cache, job, streaming, counters, pin, failures, events, owed, used>>

\* Mutant: asks for repairs without end.
RefusedForever(r) ==
    /\ pc[r] = "row" /\ job[r].channel = "chat" /\ ~ job[r].parsed
    /\ Row(r)
    /\ job' = [job EXCEPT ![r].attempt = @ + 1, ![r].try = 1, ![r].parsed = TRUE]
    /\ Goto(r, "call")
    /\ UNCHANGED <<gateway, cache, streaming, counters, pin, failures, events, owed, used>>

\* An answer the schema refuses is recorded too; then comes a repair turn, a clean retry,
\* and StructuredOutputError.  The budget is not checked again.
RefusedRow(r) ==
    /\ pc[r] = "row" /\ job[r].channel = "chat" /\ ~ job[r].parsed
    /\ Row(r)
    /\ IF job[r].attempt < Repairs
       THEN /\ job' = [job EXCEPT ![r].attempt = @ + 1, ![r].try = 1, ![r].parsed = TRUE]
            /\ Goto(r, "call")
       ELSE Done(r)
    /\ UNCHANGED <<gateway, cache, streaming, counters, pin, failures, events, owed, used>>

\* An embedding batch (cached or not) or a Claude run ends with its row.
LastRow(r) ==
    /\ pc[r] = "row" /\ job[r].channel # "chat"
    /\ Row(r)
    /\ Done(r)
    /\ UNCHANGED <<gateway, cache, streaming, counters, pin, failures, events, owed, used>>

\* Mutant: stores the answer under the key it was looked up with.
StoreUnderHint(r) ==
    /\ pc[r] = "store"
    /\ cache' = [cache EXCEPT ![<<Hint[job[r].alias], job[r].request>>] = job[r].model]
    /\ Handed(r, job[r].alias, job[r].model)
    /\ Done(r)
    /\ UNCHANGED <<gateway, streaming, counters, pin, failures, logs, owed>>

\* The cache keeps the answer for the model that gave it.
Store(r) ==
    /\ pc[r] = "store"
    /\ cache' = [cache EXCEPT ![<<job[r].model, job[r].request>>] = job[r].model]
    /\ Handed(r, job[r].alias, job[r].model)
    /\ Done(r)
    /\ UNCHANGED <<gateway, streaming, counters, pin, failures, logs, owed>>

-----------------------------------------------------------------------------
(* ClaudeRunner.run; while its stream is open, its tools make calls of their own. *)

ClaudeStart(r) ==
    /\ MayAsk(r) /\ ~ streaming[r]
    /\ WithinBudget(r)
    /\ streaming' = [streaming EXCEPT ![r] = TRUE]
    /\ UNCHANGED <<gateway, cache, pc, job, counters, pin, failures, logs, owed, used>>

\* An assistant message past the cap ends the run, and so does a usage limit.
ClaudeMessage(r) ==
    /\ pc[r] = "idle" /\ streaming[r]
    /\ messages[r] + 1 <= MaxMessages
    /\ messages' = [messages EXCEPT ![r] = @ + 1]
    /\ UNCHANGED <<gateway, cache, pc, job, streaming, calls, pin, failures, logs, owed, used>>

\* The stream ended, or raised: either way what it used is counted and recorded.
ClaudeStop(r) ==
    /\ pc[r] = "idle" /\ streaming[r]
    /\ streaming' = [streaming EXCEPT ![r] = FALSE]
    /\ Note(r)
    /\ Owe(r)
    /\ job' = [job EXCEPT ![r].channel = "claude"]
    /\ Goto(r, "event")
    /\ UNCHANGED <<gateway, cache, messages, pin, failures, logs, used>>

\* The gateway moves an alias to another model.
Drift(a, m) ==
    /\ drifts < MaxDrifts
    /\ m # serving[a]
    /\ serving' = [serving EXCEPT ![a] = m]
    /\ drifts' = drifts + 1
    /\ UNCHANGED <<cache, pc, job, streaming, counters, pin, failures, logs, owed, used>>

-----------------------------------------------------------------------------
\* What a call does once it is made: the provider may take its time, but each attempt
\* ends (call_with_hard_timeout).
CallStep(r) ==
    \/ Hit(r) \/ Miss(r)
    \/ CircuitOpen(r) \/ CallFails(r) \/ CallRaises(r)
    \/ \E q \in Texts : Shrink(r, q)
    \/ Drifted(r) \/ (\E good \in BOOLEAN : Answered(r, good)) \/ Embedded(r)
    \/ WriteEvent(r) \/ HitRow(r) \/ AnswerRow(r) \/ RefusedRow(r) \/ LastRow(r) \/ Store(r)

Next ==
    \/ \E r \in Runs :
        \/ Start(r) \/ Close(r) \/ Kill(r)
        \/ \E a \in Aliases, q \in Requests : Ask(r, a, q)
        \/ \E q \in Texts : EmbedHit(r, q) \/ Embed(r, q)
        \/ CallStep(r)
        \/ ClaudeStart(r) \/ ClaudeMessage(r) \/ ClaudeStop(r)
    \/ \E a \in Aliases, m \in Models : Drift(a, m)

Spec == Init /\ [][Next]_vars
FairSpec == Spec /\ \A r \in Runs : WF_vars(CallStep(r))

-----------------------------------------------------------------------------
\* The caps of check_budget bound what a run uses: a call passes the check once and may
\* make two more (RefusedRow), all inside a Claude run that is counted when it ends.
CapsHold ==
    \A r \in Runs : /\ calls[r] <= MaxCalls + Repairs
                    /\ messages[r] <= MaxMessages

\* The cache serves what a model answered only as that model's, whichever runs wrote it
\* and whatever the gateway resolved meanwhile (complete() stores under the observed model).
CacheFaithful == \A k \in Keys : cache[k] \in {NoModel, k[1]}

\* Once an alias is pinned, the run is handed no other model's completion until it ends:
\* not from a drifted gateway, not from an entry the configuration still points to.
PinHolds ==
    [][\A r \in Runs : \A a \in Aliases :
        pin[r][a] # NoModel /\ pin'[r][a] # NoModel =>
            used'[r][a] \subseteq used[r][a] \cup {pin[r][a]}]_vars

\* The circuit breaker: a service that is down is not hammered.  An open breaker lets no
\* new call through, so the failures stop within the attempts of one call.
BreakerHolds ==
    \A r \in Runs : \A c \in Channels : failures[r][c] < Breaker + MaxAttempts

\* Transcript and cost log (CallRecorder): every row has its event, at most the one being
\* recorded lacks its row, and a run between calls has counted no call it has no row of.
LogsAgree ==
    \A r \in Runs :
        /\ rows[r] <= events[r] /\ events[r] <= rows[r] + 1
        /\ pc[r] = "idle" => rows[r] = events[r] /\ calls[r] <= rows[r]

\* What a run keeps of its calls stays within bounds and agrees, whichever call fails,
\* drifts or is killed half-recorded (throttle.py:33, recording.py:41).
CallsAccounted == BreakerHolds /\ LogsAgree

\* Every call returns or raises, whatever the provider does.
CallReturns ==
    \A r \in Runs : pc[r] \notin {"closed", "idle"} ~> pc[r] \in {"closed", "idle"}
=============================================================================
