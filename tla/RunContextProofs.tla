--------------------------- MODULE RunContextProofs ---------------------------
(***************************************************************************)
(* What RunContext guarantees for any runs, aliases, requests, models and  *)
(* caps: the types, that the cache keeps every answer under the model that *)
(* gave it, that a pinned run is served by its pinned model only, and that *)
(* the caps on calls and messages bound what a run uses.                   *)
(***************************************************************************)
EXTENDS RunContext, TLAPS

USE ModelsAssumption, LimitsAssumption
USE DEF gateway, logs, counters

-----------------------------------------------------------------------------
(* Types. *)

\* A call a run makes is well typed when it begins.
LEMMA JobTypes ==
    /\ Idle \in Job
    /\ \A a \in Aliases, q \in Requests, m \in Models : NewJob("chat", a, q, m) \in Job
    /\ \A q \in Texts : NewBatch(q) \in Job
<1>1. \A channel \in Channels, a \in Aliases, q \in Requests \cup Texts, m \in Models :
        NewJob(channel, a, q, m) \in Job
  BY DEF NewJob, Job, Repairs
<1>2. PICK anAlias \in Aliases, aRequest \in Requests : TRUE
  OBVIOUS
<1>3. Idle \in Job
  BY <1>1, <1>2 DEF Idle, Channels
<1>4. (CHOOSE a \in Aliases : TRUE) \in Aliases
  BY <1>2
<1>5. QED
  BY <1>1, <1>3, <1>4 DEF NewBatch, Channels

\* A call stays well typed when it is repaired, cut or tried again.
LEMMA JobUpdates ==
    ASSUME NEW j \in Job, NEW n \in 1 .. Repairs + MaxShrinks
    PROVE  /\ \A q \in Texts : [j EXCEPT !.request = q, !.attempt = n, !.try = 1] \in Job
           /\ [j EXCEPT !.attempt = n, !.try = 1, !.parsed = TRUE] \in Job
           /\ [j EXCEPT !.channel = "claude"] \in Job
<1>1. 1 \in 1 .. MaxAttempts
  OBVIOUS
<1>2. \A i \in Job : [i EXCEPT !.try = 1] \in Job /\ [i EXCEPT !.try = 1, !.parsed = TRUE] \in Job
  BY <1>1 DEF Job
<1>3. ASSUME NEW q \in Texts
      PROVE  [j EXCEPT !.request = q, !.attempt = n, !.try = 1] \in Job
  <2>1. [j EXCEPT !.request = q, !.attempt = n] \in Job
    BY DEF Job
  <2>2. [j EXCEPT !.request = q, !.attempt = n, !.try = 1]
          = [[j EXCEPT !.request = q, !.attempt = n] EXCEPT !.try = 1]
    OBVIOUS
  <2>3. QED
    BY <1>2, <2>1, <2>2
<1>4. [j EXCEPT !.attempt = n, !.try = 1, !.parsed = TRUE] \in Job
  <2>1. [j EXCEPT !.attempt = n] \in Job
    BY DEF Job
  <2>2. [j EXCEPT !.attempt = n, !.try = 1, !.parsed = TRUE]
          = [[j EXCEPT !.attempt = n] EXCEPT !.try = 1, !.parsed = TRUE]
    OBVIOUS
  <2>3. QED
    BY <1>2, <2>1, <2>2
<1>5. [j EXCEPT !.channel = "claude"] \in Job
  BY DEF Job, Channels
<1>6. QED
  BY <1>3, <1>4, <1>5

\* The key of a completion names a model.
LEMMA KeyModelType ==
    ASSUME TypeOK, NEW r \in Runs, NEW a \in Aliases
    PROVE  KeyModel(r, a) \in Models
BY DEF TypeOK, KeyModel

\* Ending a call leaves well-typed calls.
LEMMA DoneType ==
    ASSUME TypeOK, NEW r \in Runs, Done(r)
    PROVE  pc' \in [Runs -> PCs] /\ job' \in [Runs -> Job]
BY JobTypes DEF TypeOK, Done, Goto, PCs

\* Counting up keeps the counters numbers.
LEMMA CountTypes ==
    ASSUME TypeOK, NEW r \in Runs
    PROVE  /\ Note(r) => calls' \in [Runs -> Nat]
           /\ Owe(r) => owed' \in [Runs -> Nat]
           /\ Row(r) => rows' \in [Runs -> Nat]
<1>1. Note(r) => calls' \in [Runs -> Nat]
  BY DEF TypeOK, Note
<1>2. Owe(r) => owed' \in [Runs -> Nat]
  BY DEF TypeOK, Owe
<1>3. Row(r) => rows' \in [Runs -> Nat]
  BY DEF TypeOK, Row
<1>4. QED
  BY <1>1, <1>2, <1>3

LEMMA InitType == Init => TypeOK
BY JobTypes DEF Init, TypeOK, PCs, NoPins, NoFailures, NoUses

\* Every step keeps the types.
LEMMA TypeStep == TypeOK /\ [Next]_vars => TypeOK'
<1> SUFFICES ASSUME TypeOK, [Next]_vars
             PROVE  TypeOK'
  OBVIOUS
<1> USE DEF Goto, PCs
<1>1. ASSUME NEW r \in Runs, Start(r)
      PROVE  TypeOK'
  BY <1>1 DEF Start, TypeOK, NoPins, NoFailures, NoUses
<1>2. ASSUME NEW r \in Runs, Close(r) \/ Kill(r)
      PROVE  TypeOK'
  <2>1. pc' \in [Runs -> PCs] /\ job' \in [Runs -> Job] /\ streaming' \in [Runs -> BOOLEAN]
    <3>1. CASE Close(r)
      BY <3>1 DEF Close, TypeOK
    <3>2. CASE Kill(r)
      BY <3>2, JobTypes DEF Kill, TypeOK
    <3>3. QED
      BY <1>2, <3>1, <3>2
  <2>2. UNCHANGED <<gateway, cache, counters, pin, failures, logs, owed, used>>
    BY <1>2 DEF Close, Kill
  <2>3. QED
    BY <2>1, <2>2 DEF TypeOK
<1>3. ASSUME NEW r \in Runs, NEW a \in Aliases, NEW q \in Requests, Ask(r, a, q)
      PROVE  TypeOK'
  BY <1>3, JobTypes, KeyModelType DEF Ask, TypeOK
<1>4. ASSUME NEW r \in Runs, NEW q \in Texts, EmbedHit(r, q)
      PROVE  TypeOK'
  <2>1. [NewBatch(q) EXCEPT !.cached = TRUE] \in Job
    BY JobTypes DEF Job
  <2>2. QED
    BY <1>4, <2>1 DEF EmbedHit, Owe, TypeOK
<1>5. ASSUME NEW r \in Runs, NEW q \in Texts, Embed(r, q)
      PROVE  TypeOK'
  BY <1>5, JobTypes DEF Embed, TypeOK
<1>6. ASSUME NEW r \in Runs, Hit(r)
      PROVE  TypeOK'
  <2>1. job[r] \in Job /\ <<job[r].model, job[r].request>> \in Keys
    BY DEF TypeOK, Job, Keys
  <2>2. cache[<<job[r].model, job[r].request>>] \in Models
    BY <1>6, <2>1 DEF Hit, TypeOK
  <2>3. job' \in [Runs -> Job]
    BY <1>6, <2>1, <2>2 DEF Hit, TypeOK, Job
  <2>4. QED
    BY <1>6, <2>3 DEF Hit, Owe, TypeOK
<1>7. ASSUME NEW r \in Runs, Miss(r)
      PROVE  TypeOK'
  BY <1>7 DEF Miss, TypeOK
<1>8. ASSUME NEW r \in Runs, CircuitOpen(r) \/ CallRaises(r)
      PROVE  TypeOK'
  BY <1>8, DoneType DEF CircuitOpen, CallRaises, TypeOK
<1>9. ASSUME NEW r \in Runs, CallFails(r)
      PROVE  TypeOK'
  <2>1. job[r] \in Job /\ job[r].channel \in Channels
    BY DEF TypeOK, Job
  <2>2. failures' \in [Runs -> [Channels -> Nat]]
    BY <1>9, <2>1 DEF CallFails, TypeOK
  <2>3. pc' \in [Runs -> PCs] /\ job' \in [Runs -> Job]
    <3>1. CASE job[r].try < MaxAttempts
      <4>1. [job[r] EXCEPT !.try = @ + 1] \in Job
        BY <2>1, <3>1 DEF Job
      <4>2. job' = [job EXCEPT ![r] = [job[r] EXCEPT !.try = @ + 1]] /\ pc' = pc
        BY <1>9, <3>1 DEF CallFails, TypeOK
      <4>3. QED
        BY <4>1, <4>2 DEF TypeOK
    <3>2. CASE ~ (job[r].try < MaxAttempts)
      BY <1>9, <3>2, DoneType DEF CallFails
    <3>3. QED
      BY <3>1, <3>2
  <2>4. QED
    BY <1>9, <2>2, <2>3 DEF CallFails, TypeOK
<1>10. ASSUME NEW r \in Runs, NEW q \in Texts, Shrink(r, q)
       PROVE  TypeOK'
  <2>1. job[r] \in Job
    BY DEF TypeOK
  <2>2. job' \in [Runs -> Job]
    <3>1. [job[r] EXCEPT !.request = q, !.attempt = @ + 1, !.try = 1] \in Job
      <4>1. job[r].attempt + 1 \in 1 .. Repairs + MaxShrinks
        BY <1>10, <2>1 DEF Shrink, Job, Repairs
      <4>2. QED
        BY <2>1, <4>1, JobUpdates
    <3>2. job' = [job EXCEPT ![r] = [job[r] EXCEPT !.request = q, !.attempt = @ + 1, !.try = 1]]
      BY <1>10 DEF Shrink, TypeOK
    <3>3. QED
      BY <3>1, <3>2 DEF TypeOK
  <2>3. QED
    BY <1>10, <2>2 DEF Shrink, TypeOK
<1>11. ASSUME NEW r \in Runs, Drifted(r)
       PROVE  TypeOK'
  BY <1>11, DoneType DEF Drifted, Recovers, Owe, TypeOK, Channels, Job
<1>12. ASSUME NEW r \in Runs, NEW good \in BOOLEAN, Answered(r, good)
       PROVE  TypeOK'
  <2>1. job[r] \in Job /\ job[r].alias \in Aliases /\ serving[job[r].alias] \in Models
    BY DEF TypeOK, Job
  <2>2. job' \in [Runs -> Job] /\ pin' \in [Runs -> [Aliases -> Models \cup {NoModel}]]
    BY <1>12, <2>1 DEF Answered, TypeOK, Job
  <2>3. failures' \in [Runs -> [Channels -> Nat]]
    BY <1>12 DEF Answered, Recovers, TypeOK, Channels
  <2>4. QED
    BY <1>12, <2>2, <2>3 DEF Answered, Owe, Note, TypeOK
<1>13. ASSUME NEW r \in Runs, Embedded(r)
       PROVE  TypeOK'
  <2>1. job[r] \in Job
    BY DEF TypeOK
  <2>2. cache' \in [Keys -> Models \cup {NoModel}]
    BY <1>13 DEF Embedded, TypeOK
  <2>3. failures' \in [Runs -> [Channels -> Nat]]
    BY <1>13 DEF Embedded, Recovers, TypeOK
  <2>4. QED
    BY <1>13, <2>2, <2>3, CountTypes DEF Embedded, TypeOK
<1>14. ASSUME NEW r \in Runs, WriteEvent(r)
       PROVE  TypeOK'
  BY <1>14 DEF WriteEvent, TypeOK
<1>15. ASSUME NEW r \in Runs, HitRow(r)
       PROVE  TypeOK'
  <2>1. job[r] \in Job /\ job[r].alias \in Aliases /\ job[r].model \in Models
    BY DEF TypeOK, Job
  <2>2. used' \in [Runs -> [Aliases -> SUBSET Models]]
    BY <1>15, <2>1 DEF HitRow, Handed, TypeOK
  <2>3. QED
    BY <1>15, <2>2, DoneType, CountTypes DEF HitRow, TypeOK
<1>16. ASSUME NEW r \in Runs, AnswerRow(r)
       PROVE  TypeOK'
  BY <1>16 DEF AnswerRow, Row, TypeOK
<1>17. ASSUME NEW r \in Runs, RefusedRow(r)
       PROVE  TypeOK'
  <2>1. job[r] \in Job
    BY DEF TypeOK
  <2>2. pc' \in [Runs -> PCs] /\ job' \in [Runs -> Job]
    <3>1. CASE job[r].attempt < Repairs
      <4>1. [job[r] EXCEPT !.attempt = @ + 1, !.try = 1, !.parsed = TRUE] \in Job
        <5>1. job[r].attempt + 1 \in 1 .. Repairs + MaxShrinks
          BY <2>1, <3>1 DEF Job, Repairs
        <5>2. QED
          BY <2>1, <5>1, JobUpdates
      <4>2. job' = [job EXCEPT ![r] = [job[r] EXCEPT !.attempt = @ + 1, !.try = 1, !.parsed = TRUE]]
        BY <1>17, <3>1 DEF RefusedRow, TypeOK
      <4>3. QED
        BY <1>17, <3>1, <4>1, <4>2 DEF RefusedRow, TypeOK
    <3>2. CASE ~ (job[r].attempt < Repairs)
      BY <1>17, <3>2, DoneType DEF RefusedRow
    <3>3. QED
      BY <3>1, <3>2
  <2>3. QED
    BY <1>17, <2>2, CountTypes DEF RefusedRow, TypeOK
<1>18. ASSUME NEW r \in Runs, LastRow(r)
       PROVE  TypeOK'
  BY <1>18, DoneType DEF LastRow, Row, TypeOK
<1>19. ASSUME NEW r \in Runs, Store(r)
       PROVE  TypeOK'
  <2>1. job[r] \in Job /\ job[r].alias \in Aliases /\ job[r].model \in Models
    BY DEF TypeOK, Job
  <2>2. used' \in [Runs -> [Aliases -> SUBSET Models]]
    BY <1>19, <2>1 DEF Store, Handed, TypeOK
  <2>3. cache' \in [Keys -> Models \cup {NoModel}]
    BY <1>19, <2>1 DEF Store, TypeOK
  <2>4. QED
    BY <1>19, <2>2, <2>3, DoneType DEF Store, TypeOK
<1>20. ASSUME NEW r \in Runs, ClaudeStart(r) \/ ClaudeMessage(r)
       PROVE  TypeOK'
  <2>1. streaming' \in [Runs -> BOOLEAN] /\ messages' \in [Runs -> Nat] /\ calls' = calls
    <3>1. CASE ClaudeStart(r)
      BY <3>1 DEF ClaudeStart, TypeOK
    <3>2. CASE ClaudeMessage(r)
      BY <3>2 DEF ClaudeMessage, TypeOK
    <3>3. QED
      BY <1>20, <3>1, <3>2
  <2>2. UNCHANGED <<gateway, cache, pc, job, pin, failures, logs, owed, used>>
    BY <1>20 DEF ClaudeStart, ClaudeMessage
  <2>3. QED
    BY <2>1, <2>2 DEF TypeOK
<1>21. ASSUME NEW r \in Runs, ClaudeStop(r)
       PROVE  TypeOK'
  <2>1. job' \in [Runs -> Job]
    <3>1. [job[r] EXCEPT !.channel = "claude"] \in Job
      <4>1. job[r] \in Job /\ 1 \in 1 .. Repairs + MaxShrinks
        BY DEF TypeOK, Repairs
      <4>2. QED
        BY <4>1, JobUpdates
    <3>2. job' = [job EXCEPT ![r] = [job[r] EXCEPT !.channel = "claude"]]
      BY <1>21 DEF ClaudeStop, TypeOK
    <3>3. QED
      BY <3>1, <3>2 DEF TypeOK
  <2>2. QED
    BY <1>21, <2>1, CountTypes DEF ClaudeStop, TypeOK
<1>22. ASSUME NEW a \in Aliases, NEW m \in Models, Drift(a, m)
       PROVE  TypeOK'
  BY <1>22 DEF Drift, TypeOK
<1>23. CASE UNCHANGED vars
  BY <1>23 DEF vars, TypeOK
<1>24. QED
  BY <1>1, <1>2, <1>3, <1>4, <1>5, <1>6, <1>7, <1>8, <1>9, <1>10, <1>11, <1>12, <1>13, <1>14,
     <1>15, <1>16, <1>17, <1>18, <1>19, <1>20, <1>21, <1>22, <1>23 DEF Next, CallStep

\* The state of the provider layer is always well typed (core.py, cache.py).
THEOREM TypeCorrect == Spec => []TypeOK
BY InitType, TypeStep, PTL DEF Spec

-----------------------------------------------------------------------------
(* The cache. *)

\* A write to the cache goes under the model that answered.
LEMMA CacheStep == TypeOK /\ CacheFaithful /\ [Next]_vars => CacheFaithful'
<1> SUFFICES ASSUME TypeOK, CacheFaithful, [Next]_vars
             PROVE  CacheFaithful'
  OBVIOUS
<1>1. CASE UNCHANGED cache
  BY <1>1 DEF CacheFaithful
<1>2. ASSUME NEW r \in Runs, Embedded(r) \/ Store(r)
      PROVE  CacheFaithful'
  <2>1. PICK k \in Keys : cache' = [cache EXCEPT ![k] = k[1]]
    <3>1. job[r].model \in Models /\ job[r].request \in Requests \cup Texts
      BY DEF TypeOK, Job
    <3>2. CASE Embedded(r)
      BY <3>1, <3>2 DEF Embedded, Keys
    <3>3. CASE Store(r)
      BY <3>1, <3>3 DEF Store, Keys
    <3>4. QED
      BY <1>2, <3>2, <3>3
  <2>2. QED
    BY <2>1 DEF CacheFaithful, TypeOK
<1>3. QED
  <2>1. CASE \E r \in Runs : CallStep(r)
    BY <1>1, <1>2, <2>1 DEF CallStep, Hit, Miss, CircuitOpen, CallFails, CallRaises, Shrink, Drifted,
       Answered, WriteEvent, HitRow, AnswerRow, RefusedRow, LastRow
  <2>2. CASE ~ \E r \in Runs : CallStep(r)
    BY <1>1, <2>2 DEF Next, vars, Start, Close, Kill, Ask, EmbedHit, Embed, ClaudeStart, ClaudeMessage,
       ClaudeStop, Drift
  <2>3. QED
    BY <2>1, <2>2

\* The response cache never serves a model's answer as another's (cache.py, completion.py).
THEOREM CacheIsFaithful == Spec => []CacheFaithful
<1>1. Init => CacheFaithful
  BY DEF Init, CacheFaithful
<1>2. QED
  BY <1>1, InitType, TypeStep, CacheStep, PTL DEF Spec

-----------------------------------------------------------------------------
(* Pins. *)

\* A completion that has been answered, or looks up the cache, is its pinned model's.
PinnedAt(r) ==
    pc[r] \in {"asked", "event", "row", "store"} /\ job[r].channel = "chat" =>
        pin[r][job[r].alias] \in {NoModel, job[r].model}

\* And only completions get that far.
ChatAt(r) ==
    /\ pc[r] \in {"asked", "store"} => job[r].channel = "chat"
    /\ pc[r] = "call" => job[r].channel \in {"chat", "embed"}

PinInv == \A r \in Runs : PinnedAt(r) /\ ChatAt(r)

LEMMA PinStep == TypeOK /\ CacheFaithful /\ PinInv /\ [Next]_vars => PinInv'
<1> SUFFICES ASSUME TypeOK, CacheFaithful, PinInv, [Next]_vars, NEW s \in Runs
             PROVE  PinnedAt(s)' /\ ChatAt(s)'
  BY DEF PinInv
<1>0. job[s] \in Job /\ PinnedAt(s) /\ ChatAt(s)
  BY DEF TypeOK, PinInv
<1>a. CASE pc'[s] = "idle" \/ pc'[s] = "closed"
  BY <1>a DEF PinnedAt, ChatAt
<1>b. CASE pc'[s] = pc[s] /\ job'[s] = job[s] /\ pin'[s] = pin[s]
  BY <1>b, <1>0 DEF PinnedAt, ChatAt
<1>1. ASSUME NEW r \in Runs, Start(r) \/ Close(r) \/ Kill(r) \/ ClaudeStart(r) \/ ClaudeMessage(r)
      PROVE  PinnedAt(s)' /\ ChatAt(s)'
  BY <1>1, <1>a, <1>b DEF Start, Close, Kill, ClaudeStart, ClaudeMessage, Goto, TypeOK
<1>2. ASSUME NEW r \in Runs, NEW a \in Aliases, NEW q \in Requests, Ask(r, a, q)
      PROVE  PinnedAt(s)' /\ ChatAt(s)'
  BY <1>2, <1>b DEF Ask, NewJob, KeyModel, Goto, TypeOK, PinnedAt, ChatAt
<1>3. ASSUME NEW r \in Runs, NEW q \in Texts, EmbedHit(r, q) \/ Embed(r, q)
      PROVE  PinnedAt(s)' /\ ChatAt(s)'
  <2>1. NewBatch(q).channel = "embed" /\ [NewBatch(q) EXCEPT !.cached = TRUE].channel = "embed"
    BY DEF NewBatch, NewJob
  <2>2. QED
    BY <1>3, <1>b, <2>1 DEF EmbedHit, Embed, Goto, TypeOK, PinnedAt, ChatAt
<1>4. ASSUME NEW r \in Runs, Hit(r)
      PROVE  PinnedAt(s)' /\ ChatAt(s)'
  <2>1. CASE s = r
    <3>1. <<job[r].model, job[r].request>> \in Keys
      BY <1>0, <2>1 DEF Job, Keys
    <3>2. cache[<<job[r].model, job[r].request>>] = job[r].model
      BY <1>4, <3>1 DEF Hit, CacheFaithful
    <3>3. job'[r].model = job[r].model /\ job'[r].alias = job[r].alias /\ pin' = pin
      BY <1>0, <1>4, <2>1, <3>2 DEF Hit, TypeOK, Job
    <3>4. QED
      BY <1>0, <1>4, <2>1, <3>3 DEF Hit, Goto, TypeOK, PinnedAt, ChatAt
  <2>2. CASE s # r
    BY <1>4, <1>b, <2>2 DEF Hit, Goto, TypeOK
  <2>3. QED
    BY <2>1, <2>2
<1>5. ASSUME NEW r \in Runs, Miss(r) \/ WriteEvent(r) \/ AnswerRow(r)
      PROVE  PinnedAt(s)' /\ ChatAt(s)'
  BY <1>0, <1>5 DEF Miss, WriteEvent, AnswerRow, Goto, TypeOK, PinnedAt, ChatAt
<1>6. ASSUME NEW r \in Runs, CircuitOpen(r) \/ CallRaises(r) \/ Drifted(r) \/ LastRow(r) \/ HitRow(r) \/ Store(r)
      PROVE  PinnedAt(s)' /\ ChatAt(s)'
  <2>1. Done(r) /\ pin' = pin
    BY <1>6 DEF CircuitOpen, CallRaises, Drifted, LastRow, HitRow, Store
  <2>2. QED
    BY <1>a, <1>b, <2>1 DEF Done, Goto, TypeOK
<1>7. ASSUME NEW r \in Runs, CallFails(r) \/ RefusedRow(r)
      PROVE  PinnedAt(s)' /\ ChatAt(s)'
  <2>1. CASE s # r
    BY <1>7, <1>b, <2>1 DEF CallFails, RefusedRow, Done, Goto, TypeOK
  <2>2. CASE s = r /\ pc'[s] # "idle"
    <3>1. pc'[s] = "call" /\ job'[s].channel = job[s].channel
      BY <1>7, <2>2 DEF CallFails, RefusedRow, Trying, Done, Goto, TypeOK, Job
    <3>2. job[s].channel \in {"chat", "embed"}
      BY <1>0, <1>7, <2>2 DEF CallFails, RefusedRow, Trying, ChatAt
    <3>3. QED
      BY <3>1, <3>2 DEF PinnedAt, ChatAt
  <2>3. QED
    BY <1>a, <2>1, <2>2
<1>8. ASSUME NEW r \in Runs, NEW q \in Texts, Shrink(r, q)
      PROVE  PinnedAt(s)' /\ ChatAt(s)'
  <2>1. CASE s # r
    BY <1>8, <1>b, <2>1 DEF Shrink, TypeOK
  <2>2. CASE s = r
    BY <1>0, <1>8, <2>2 DEF Shrink, Trying, TypeOK, Job, PinnedAt, ChatAt
  <2>3. QED
    BY <2>1, <2>2
<1>9. ASSUME NEW r \in Runs, NEW good \in BOOLEAN, Answered(r, good)
      PROVE  PinnedAt(s)' /\ ChatAt(s)'
  <2>1. CASE s # r
    BY <1>9, <1>b, <2>1 DEF Answered, Goto, TypeOK
  <2>2. CASE s = r
    <3>1. job'[r].alias = job[r].alias /\ job'[r].model = serving[job[r].alias] /\ job[r].alias \in Aliases
      BY <1>0, <1>9, <2>2 DEF Answered, TypeOK, Job
    <3>2. pin'[r][job[r].alias] = serving[job[r].alias]
      BY <1>9, <3>1 DEF Answered, TypeOK
    <3>3. QED
      BY <1>9, <2>2, <3>1, <3>2 DEF Answered, Goto, TypeOK, PinnedAt, ChatAt
  <2>3. QED
    BY <2>1, <2>2
<1>10. ASSUME NEW r \in Runs, Embedded(r) \/ ClaudeStop(r)
       PROVE  PinnedAt(s)' /\ ChatAt(s)'
  <2>1. CASE s # r
    BY <1>10, <1>b, <2>1 DEF Embedded, ClaudeStop, Goto, TypeOK
  <2>2. CASE s = r
    <3>1. pc'[s] = "event"
      BY <1>10, <2>2 DEF Embedded, ClaudeStop, Goto, TypeOK
    <3>2. job'[s].channel # "chat"
      BY <1>0, <1>10, <2>2 DEF Embedded, ClaudeStop, TypeOK, Job
    <3>3. QED
      BY <3>1, <3>2 DEF PinnedAt, ChatAt
  <2>3. QED
    BY <2>1, <2>2
<1>11. CASE UNCHANGED vars \/ \E a \in Aliases, m \in Models : Drift(a, m)
  BY <1>11, <1>b DEF vars, Drift
<1>12. QED
  BY <1>1, <1>2, <1>3, <1>4, <1>5, <1>6, <1>7, <1>8, <1>9, <1>10, <1>11 DEF Next, CallStep

\* A step hands a run only what its call says, and a completion it has been handed is the
\* pinned model's where there is a pin.
LEMMA HandedStep ==
    ASSUME TypeOK, PinInv, [Next]_vars, NEW s \in Runs, NEW b \in Aliases,
           pin[s][b] # NoModel, pin'[s][b] # NoModel
    PROVE  used'[s][b] \subseteq used[s][b] \cup {pin[s][b]}
<1>1. CASE used'[s][b] \subseteq used[s][b]
  BY <1>1
<1>2. ASSUME NEW r \in Runs, HitRow(r) \/ Store(r)
      PROVE  used'[s][b] \subseteq used[s][b] \cup {pin[s][b]}
  <2>1. Handed(r, job[r].alias, job[r].model) /\ PinnedAt(r) /\ ChatAt(r)
    BY <1>2 DEF HitRow, Store, PinInv
  <2>2. pc[r] \in {"row", "store"} /\ job[r].channel = "chat"
    BY <1>2, <2>1 DEF HitRow, Store, ChatAt
  <2>3. QED
    BY <2>1, <2>2 DEF Handed, PinnedAt, TypeOK
<1>3. ASSUME NEW r \in Runs, Start(r)
      PROVE  used'[s][b] \subseteq used[s][b] \cup {pin[s][b]}
  BY <1>3 DEF Start, NoPins, TypeOK
<1>4. QED
  <2>1. CASE \E r \in Runs : CallStep(r)
    BY <1>1, <1>2, <2>1 DEF CallStep, Hit, Miss, CircuitOpen, CallFails, CallRaises, Shrink, Drifted,
       Answered, Embedded, WriteEvent, AnswerRow, RefusedRow, LastRow
  <2>2. CASE ~ \E r \in Runs : CallStep(r)
    BY <1>1, <1>3, <2>2 DEF Next, vars, Close, Kill, Ask, EmbedHit, Embed, ClaudeStart, ClaudeMessage,
       ClaudeStop, Drift
  <2>3. QED
    BY <2>1, <2>2

\* Once pinned, an alias is served by its pinned model until the run ends (core.py).
THEOREM PinsHold == Spec => PinHolds
<1>1. Init => PinInv
  BY DEF Init, PinInv, PinnedAt, ChatAt
<1>2. Init => CacheFaithful
  BY DEF Init, CacheFaithful
<1>3. TypeOK /\ PinInv /\ [Next]_vars =>
        [\A r \in Runs : \A a \in Aliases :
            pin[r][a] # NoModel /\ pin'[r][a] # NoModel =>
                used'[r][a] \subseteq used[r][a] \cup {pin[r][a]}]_vars
  BY HandedStep
<1>4. QED
  BY <1>1, <1>2, <1>3, InitType, TypeStep, CacheStep, PinStep, PTL DEF Spec, PinHolds

-----------------------------------------------------------------------------
(* Caps. *)

\* What a run may have used, by where it is.  A call that passed the check leaves room for
\* its own repairs; a Claude run leaves room for itself.
CapsAt(r) ==
    /\ calls[r] <= MaxCalls + Repairs
    /\ messages[r] <= MaxMessages
    /\ streaming[r] => calls[r] + 1 <= MaxCalls + Repairs
    /\ pc[r] = "asked" => calls[r] + 1 <= MaxCalls /\ job[r].channel = "chat"
    /\ pc[r] \in {"asked", "call"} /\ job[r].channel = "chat" =>
          calls[r] + 2 <= MaxCalls + job[r].attempt /\ job[r].attempt <= Repairs /\ ~ job[r].cached
    /\ pc[r] = "asked" => job[r].parsed
    /\ pc[r] = "call" /\ job[r].channel = "embed" => calls[r] + 1 <= MaxCalls
    /\ pc[r] \in {"event", "row"} /\ job[r].channel = "chat" =>
          IF job[r].cached THEN calls[r] + 1 <= MaxCalls /\ job[r].parsed
          ELSE calls[r] + 1 <= MaxCalls + job[r].attempt /\ job[r].attempt <= Repairs

CapsInv == \A r \in Runs : CapsAt(r)

\* A run that another one's step leaves alone keeps what it may have used.
LEMMA CapsFrame ==
    ASSUME NEW s \in Runs, CapsAt(s),
           pc'[s] = pc[s], job'[s] = job[s], streaming'[s] = streaming[s],
           calls'[s] = calls[s], messages'[s] = messages[s]
    PROVE  CapsAt(s)'
BY DEF CapsAt

\* And so does one that is between calls, or done.
LEMMA CapsRest ==
    ASSUME NEW s \in Runs, CapsAt(s), pc'[s] \in {"idle", "closed", "store"},
           streaming'[s] => streaming[s], calls'[s] = calls[s], messages'[s] = messages[s]
    PROVE  CapsAt(s)'
BY DEF CapsAt

LEMMA CapsStep == TypeOK /\ CapsInv /\ [Next]_vars => CapsInv'
<1> SUFFICES ASSUME TypeOK, CapsInv, [Next]_vars, NEW s \in Runs
             PROVE  CapsAt(s)'
  BY DEF CapsInv
<1>0. job[s] \in Job /\ CapsAt(s) /\ calls[s] \in Nat /\ messages[s] \in Nat /\ job[s].attempt \in Nat
  BY DEF TypeOK, CapsInv, Job
<1>1. ASSUME NEW r \in Runs, Start(r)
      PROVE  CapsAt(s)'
  <2>1. CASE s # r
    BY <1>0, <1>1, <2>1, CapsFrame DEF Start, Goto, TypeOK
  <2>2. CASE s = r
    <3>1. pc'[s] = "idle" /\ calls'[s] = 0 /\ messages'[s] = 0
      BY <1>1, <2>2 DEF Start, Goto, TypeOK
    <3>2. QED
      BY <3>1 DEF CapsAt, Repairs
  <2>3. QED
    BY <2>1, <2>2
<1>2. ASSUME NEW r \in Runs, Close(r) \/ Kill(r)
      PROVE  CapsAt(s)'
  <2>1. CASE s # r
    BY <1>0, <1>2, <2>1, CapsFrame DEF Close, Kill, Goto, TypeOK
  <2>2. CASE s = r
    <3>1. pc'[s] = "closed" /\ (streaming'[s] => streaming[s])
      BY <1>2, <2>2 DEF Close, Kill, Goto, TypeOK
    <3>2. QED
      BY <1>0, <1>2, <3>1, CapsRest DEF Close, Kill
  <2>3. QED
    BY <2>1, <2>2
<1>3. ASSUME NEW r \in Runs, NEW a \in Aliases, NEW q \in Requests, Ask(r, a, q)
      PROVE  CapsAt(s)'
  <2>1. CASE s # r
    BY <1>0, <1>3, <2>1, CapsFrame DEF Ask, Goto, TypeOK
  <2>2. CASE s = r
    <3>1. /\ pc'[s] = "asked" /\ job'[s].channel = "chat" /\ job'[s].attempt = 1 /\ ~ job'[s].cached
          /\ job'[s].parsed /\ UNCHANGED <<calls, messages, streaming>>
      BY <1>3, <2>2 DEF Ask, NewJob, Goto, TypeOK
    <3>2. QED
      BY <1>0, <1>3, <2>2, <3>1 DEF Ask, WithinBudget, CapsAt, Repairs
  <2>3. QED
    BY <2>1, <2>2
<1>4. ASSUME NEW r \in Runs, NEW q \in Texts, EmbedHit(r, q) \/ Embed(r, q)
      PROVE  CapsAt(s)'
  <2>1. NewBatch(q).channel = "embed" /\ [NewBatch(q) EXCEPT !.cached = TRUE].channel = "embed"
    BY DEF NewBatch, NewJob
  <2>2. CASE s # r
    BY <1>0, <1>4, <2>2, CapsFrame DEF EmbedHit, Embed, Goto, TypeOK
  <2>3. CASE s = r
    <3>1. /\ pc'[s] = "event" \/ (pc'[s] = "call" /\ WithinBudget(s))
          /\ job'[s].channel = "embed" /\ UNCHANGED <<calls, messages, streaming>>
      BY <1>4, <2>1, <2>3 DEF EmbedHit, Embed, Goto, TypeOK
    <3>2. QED
      BY <1>0, <3>1 DEF WithinBudget, CapsAt
  <2>4. QED
    BY <2>2, <2>3
<1>5. ASSUME NEW r \in Runs, Hit(r) \/ Miss(r)
      PROVE  CapsAt(s)'
  <2>1. CASE s # r
    BY <1>0, <1>5, <2>1, CapsFrame DEF Hit, Miss, Goto, TypeOK
  <2>2. CASE s = r /\ Hit(r)
    <3>1. /\ pc[s] = "asked" /\ pc'[s] = "event" /\ job'[s].cached /\ job'[s].parsed = job[s].parsed
          /\ UNCHANGED <<calls, messages, streaming>>
      BY <1>0, <2>2 DEF Hit, Goto, TypeOK, Job
    <3>2. job[s].parsed
      BY <1>0, <3>1 DEF CapsAt
    <3>3. QED
      BY <1>0, <3>1, <3>2 DEF CapsAt
  <2>3. CASE s = r /\ Miss(r)
    BY <1>0, <2>3 DEF Miss, Goto, TypeOK, CapsAt
  <2>4. QED
    BY <1>5, <2>1, <2>2, <2>3
<1>6. ASSUME NEW r \in Runs,
             CircuitOpen(r) \/ CallRaises(r) \/ Drifted(r) \/ LastRow(r) \/ Store(r) \/ AnswerRow(r)
      PROVE  CapsAt(s)'
  <2>1. UNCHANGED <<calls, messages, streaming>>
    BY <1>6 DEF CircuitOpen, CallRaises, Drifted, LastRow, Store, AnswerRow
  <2>2. CASE s # r
    BY <1>0, <1>6, <2>1, <2>2, CapsFrame
       DEF CircuitOpen, CallRaises, Drifted, LastRow, Store, AnswerRow, Done, Goto, TypeOK
  <2>3. CASE s = r
    <3>1. pc'[s] \in {"idle", "store"}
      BY <1>6, <2>3 DEF CircuitOpen, CallRaises, Drifted, LastRow, Store, AnswerRow, Done, Goto, TypeOK
    <3>2. QED
      BY <1>0, <2>1, <3>1, CapsRest
  <2>4. QED
    BY <2>2, <2>3
<1>7. ASSUME NEW r \in Runs, CallFails(r)
      PROVE  CapsAt(s)'
  <2>1. UNCHANGED <<calls, messages, streaming>>
    BY <1>7 DEF CallFails
  <2>2. CASE s # r
    BY <1>0, <1>7, <2>1, <2>2, CapsFrame DEF CallFails, Done, Goto, TypeOK
  <2>3. CASE s = r /\ pc'[s] = "idle"
    BY <1>0, <2>1, <2>3, CapsRest
  <2>4. CASE s = r /\ pc'[s] # "idle"
    <3>1. /\ pc[s] = "call" /\ pc'[s] = "call" /\ job'[s].channel = job[s].channel
          /\ job'[s].attempt = job[s].attempt /\ job'[s].cached = job[s].cached
      BY <1>0, <1>7, <2>4 DEF CallFails, Trying, Done, Goto, TypeOK, Job
    <3>2. QED
      BY <1>0, <2>1, <3>1 DEF CapsAt
  <2>5. QED
    BY <2>2, <2>3, <2>4
<1>8. ASSUME NEW r \in Runs, NEW q \in Texts, Shrink(r, q)
      PROVE  CapsAt(s)'
  <2>1. UNCHANGED <<calls, messages, streaming>> /\ pc' = pc
    BY <1>8 DEF Shrink
  <2>2. CASE s # r
    BY <1>0, <1>8, <2>1, <2>2, CapsFrame DEF Shrink, TypeOK
  <2>3. CASE s = r
    <3>1. pc[s] = "call" /\ job'[s].channel = "embed" /\ WithinBudget(s)
      BY <1>0, <1>8, <2>3 DEF Shrink, Trying, TypeOK, Job
    <3>2. QED
      BY <1>0, <2>1, <3>1 DEF CapsAt, WithinBudget
  <2>4. QED
    BY <2>2, <2>3
<1>9. ASSUME NEW r \in Runs, NEW good \in BOOLEAN, Answered(r, good)
      PROVE  CapsAt(s)'
  <2>1. UNCHANGED <<messages, streaming>>
    BY <1>9 DEF Answered
  <2>2. CASE s # r
    BY <1>0, <1>9, <2>1, <2>2, CapsFrame DEF Answered, Note, Goto, TypeOK
  <2>3. CASE s = r
    <3>1. /\ pc[s] = "call" /\ pc'[s] = "event" /\ job[s].channel = "chat" /\ job'[s].channel = "chat"
          /\ job'[s].attempt = job[s].attempt /\ job'[s].cached = job[s].cached
          /\ calls'[s] = calls[s] + 1
      BY <1>0, <1>9, <2>3 DEF Answered, Trying, Note, Goto, TypeOK, Job
    <3>2. QED
      BY <1>0, <2>1, <3>1 DEF CapsAt, Repairs
  <2>4. QED
    BY <2>2, <2>3
<1>10. ASSUME NEW r \in Runs, Embedded(r)
       PROVE  CapsAt(s)'
  <2>1. UNCHANGED <<messages, streaming, job>>
    BY <1>10 DEF Embedded
  <2>2. CASE s # r
    BY <1>0, <1>10, <2>1, <2>2, CapsFrame DEF Embedded, Note, Goto, TypeOK
  <2>3. CASE s = r
    <3>1. /\ pc[s] = "call" /\ pc'[s] = "event" /\ job[s].channel = "embed" /\ calls'[s] = calls[s] + 1
      BY <1>10, <2>3 DEF Embedded, Trying, Note, Goto, TypeOK
    <3>2. QED
      BY <1>0, <2>1, <3>1 DEF CapsAt, Repairs
  <2>4. QED
    BY <2>2, <2>3
<1>11. ASSUME NEW r \in Runs, WriteEvent(r)
       PROVE  CapsAt(s)'
  BY <1>0, <1>11 DEF WriteEvent, Goto, TypeOK, CapsAt
<1>12. ASSUME NEW r \in Runs, HitRow(r)
       PROVE  CapsAt(s)'
  <2>1. UNCHANGED <<messages, streaming>>
    BY <1>12 DEF HitRow
  <2>2. CASE s # r
    BY <1>0, <1>12, <2>1, <2>2, CapsFrame DEF HitRow, Note, Done, Goto, TypeOK
  <2>3. CASE s = r
    <3>1. /\ pc[s] = "row" /\ job[s].channel = "chat" /\ job[s].cached
          /\ pc'[s] = "idle" /\ calls'[s] = calls[s] + 1
      BY <1>12, <2>3 DEF HitRow, Note, Done, Goto, TypeOK
    <3>2. QED
      BY <1>0, <2>1, <3>1 DEF CapsAt, Repairs
  <2>4. QED
    BY <2>2, <2>3
<1>13. ASSUME NEW r \in Runs, RefusedRow(r)
       PROVE  CapsAt(s)'
  <2>1. UNCHANGED <<calls, messages, streaming>>
    BY <1>13 DEF RefusedRow
  <2>2. CASE s # r
    BY <1>0, <1>13, <2>1, <2>2, CapsFrame DEF RefusedRow, Done, Goto, TypeOK
  <2>3. CASE s = r /\ ~ (job[r].attempt < Repairs)
    <3>1. pc'[s] = "idle"
      BY <1>13, <2>3 DEF RefusedRow, Done, Goto, TypeOK
    <3>2. QED
      BY <1>0, <2>1, <3>1, CapsRest
  <2>4. CASE s = r /\ job[r].attempt < Repairs
    <3>1. /\ pc[s] = "row" /\ pc'[s] = "call" /\ job[s].channel = "chat" /\ ~ job[s].parsed
      BY <1>13, <2>4 DEF RefusedRow, Goto, TypeOK
    <3>2. /\ job'[s].channel = "chat" /\ job'[s].attempt = job[s].attempt + 1
          /\ job'[s].cached = job[s].cached
      BY <1>0, <1>13, <2>4 DEF RefusedRow, TypeOK, Job
    <3>3. QED
      BY <1>0, <2>1, <2>4, <3>1, <3>2 DEF CapsAt, Repairs
  <2>5. QED
    BY <2>2, <2>3, <2>4
<1>14. ASSUME NEW r \in Runs, ClaudeStart(r)
       PROVE  CapsAt(s)'
  <2>1. CASE s # r
    BY <1>0, <1>14, <2>1, CapsFrame DEF ClaudeStart, TypeOK
  <2>2. CASE s = r
    BY <1>0, <1>14, <2>2 DEF ClaudeStart, MayAsk, WithinBudget, CapsAt, Repairs
  <2>3. QED
    BY <2>1, <2>2
<1>15. ASSUME NEW r \in Runs, ClaudeMessage(r)
       PROVE  CapsAt(s)'
  <2>1. CASE s # r
    BY <1>0, <1>15, <2>1, CapsFrame DEF ClaudeMessage, TypeOK
  <2>2. CASE s = r
    <3>1. messages'[s] = messages[s] + 1 /\ UNCHANGED <<pc, job, streaming, calls>>
      BY <1>15, <2>2 DEF ClaudeMessage, TypeOK
    <3>2. QED
      BY <1>0, <1>15, <2>2, <3>1 DEF ClaudeMessage, CapsAt
  <2>3. QED
    BY <2>1, <2>2
<1>16. ASSUME NEW r \in Runs, ClaudeStop(r)
       PROVE  CapsAt(s)'
  <2>1. CASE s # r
    BY <1>0, <1>16, <2>1, CapsFrame DEF ClaudeStop, Note, Goto, TypeOK
  <2>2. CASE s = r
    <3>1. /\ pc'[s] = "event" /\ job'[s].channel = "claude" /\ calls'[s] = calls[s] + 1
          /\ streaming[s] /\ ~ streaming'[s] /\ messages' = messages
      BY <1>0, <1>16, <2>2 DEF ClaudeStop, Note, Goto, TypeOK, Job
    <3>2. QED
      BY <1>0, <3>1 DEF CapsAt
  <2>3. QED
    BY <2>1, <2>2
<1>17. CASE UNCHANGED vars \/ \E a \in Aliases, m \in Models : Drift(a, m)
  BY <1>0, <1>17, CapsFrame DEF vars, Drift
<1>18. QED
  BY <1>1, <1>2, <1>3, <1>4, <1>5, <1>6, <1>7, <1>8, <1>9, <1>10, <1>11, <1>12, <1>13, <1>14,
     <1>15, <1>16, <1>17 DEF Next, CallStep

\* The caps of check_budget bound what a run uses, repairs and the enclosing Claude run included.
THEOREM CapsAreKept == Spec => []CapsHold
<1>1. Init => CapsInv
  <2>1. SUFFICES ASSUME Init, NEW r \in Runs
                 PROVE  CapsAt(r)
    BY DEF CapsInv
  <2>2. pc[r] = "closed" /\ calls[r] = 0 /\ messages[r] = 0
    BY <2>1 DEF Init
  <2>3. QED
    BY <2>2 DEF CapsAt, Repairs
<1>2. CapsInv => CapsHold
  BY DEF CapsInv, CapsAt, CapsHold
<1>3. QED
  BY <1>1, <1>2, InitType, TypeStep, CapsStep, PTL DEF Spec

-----------------------------------------------------------------------------
(* The logs and the breaker. *)

\* What a run has recorded, by where it is: the event comes before the row, and a call that
\* was answered is counted before it is recorded, a cached completion with its row.
LogsAt(r) ==
    /\ rows[r] <= events[r] /\ events[r] <= rows[r] + 1
    /\ pc[r] \in {"idle", "asked", "call", "event", "store"} => rows[r] = events[r]
    /\ pc[r] = "row" => events[r] = rows[r] + 1
    /\ pc[r] \in {"idle", "asked", "call", "store"} => calls[r] <= rows[r]
    /\ pc[r] \in {"event", "row"} =>
          calls[r] <= IF job[r].channel = "chat" /\ job[r].cached THEN rows[r] ELSE rows[r] + 1

\* The failures of a client: a call began below the breaker, and each of its attempts since
\* has added at most one.
BreakerAt(r) ==
    /\ \A c \in Channels : failures[r][c] < Breaker + MaxAttempts
    /\ pc[r] \in {"asked", "call"} /\ job[r].try > 1 =>
          failures[r][job[r].channel] + 2 <= Breaker + job[r].try

AccountInv == \A r \in Runs : LogsAt(r) /\ BreakerAt(r)

\* A run that another one's step leaves alone keeps its records and its breaker.
LEMMA AccountFrame ==
    ASSUME NEW s \in Runs, LogsAt(s), BreakerAt(s),
           pc'[s] = pc[s], job'[s] = job[s], calls'[s] = calls[s],
           events'[s] = events[s], rows'[s] = rows[s], failures'[s] = failures[s]
    PROVE  LogsAt(s)' /\ BreakerAt(s)'
BY DEF LogsAt, BreakerAt

\* And so does one whose call ends without a record, or goes on where nothing is recorded.
LEMMA AccountRest ==
    ASSUME NEW s \in Runs, LogsAt(s), UNCHANGED <<calls, logs>>,
           \/ pc'[s] = "closed"
           \/ /\ pc[s] \in {"idle", "asked", "call", "store"}
              /\ pc'[s] \in {"idle", "asked", "call", "store"}
    PROVE  LogsAt(s)'
BY DEF LogsAt

\* The breaker holds where no failure is counted and no call is past its first attempt.
LEMMA BreakerRest ==
    ASSUME NEW s \in Runs, BreakerAt(s), failures'[s] = failures[s],
           pc'[s] \in {"asked", "call"} => ~ (job'[s].try > 1)
    PROVE  BreakerAt(s)'
BY DEF BreakerAt

\* It also holds where the service has just answered.
LEMMA BreakerRecovers ==
    ASSUME TypeOK, NEW s \in Runs, BreakerAt(s), Recovers(s), pc'[s] \notin {"asked", "call"}
    PROVE  BreakerAt(s)'
<1>1. job[s].channel \in Channels
  BY DEF TypeOK, Job
<1>2. \A c \in Channels : failures'[s][c] \in {failures[s][c], 0}
  BY <1>1 DEF Recovers, TypeOK
<1>3. QED
  BY <1>2 DEF BreakerAt

LEMMA AccountStep == TypeOK /\ CapsInv /\ AccountInv /\ [Next]_vars => AccountInv'
<1> SUFFICES ASSUME TypeOK, CapsInv, AccountInv, [Next]_vars, NEW s \in Runs
             PROVE  LogsAt(s)' /\ BreakerAt(s)'
  BY DEF AccountInv
<1>0. /\ job[s] \in Job /\ LogsAt(s) /\ BreakerAt(s) /\ CapsAt(s)
      /\ calls[s] \in Nat /\ events[s] \in Nat /\ rows[s] \in Nat
      /\ job[s].try \in 1 .. MaxAttempts /\ job[s].channel \in Channels
      /\ \A c \in Channels : failures[s][c] \in Nat
  BY DEF TypeOK, CapsInv, AccountInv, Job
<1>1. ASSUME NEW r \in Runs, Start(r)
      PROVE  LogsAt(s)' /\ BreakerAt(s)'
  <2>1. CASE s # r
    BY <1>0, <1>1, <2>1, AccountFrame DEF Start, Goto, TypeOK
  <2>2. CASE s = r
    <3>1. /\ pc'[s] = "idle" /\ calls'[s] = 0 /\ events'[s] = 0 /\ rows'[s] = 0
          /\ failures'[s] = NoFailures
      BY <1>1, <2>2 DEF Start, Goto, TypeOK
    <3>2. QED
      BY <3>1 DEF LogsAt, BreakerAt, NoFailures
  <2>3. QED
    BY <2>1, <2>2
<1>2. ASSUME NEW r \in Runs, Close(r) \/ Kill(r)
      PROVE  LogsAt(s)' /\ BreakerAt(s)'
  <2>1. CASE s # r
    BY <1>0, <1>2, <2>1, AccountFrame DEF Close, Kill, Goto, TypeOK
  <2>2. CASE s = r
    <3>1. pc'[s] = "closed" /\ UNCHANGED <<calls, logs, failures>>
      BY <1>2, <2>2 DEF Close, Kill, Goto, TypeOK
    <3>2. QED
      BY <1>0, <3>1, AccountRest, BreakerRest
  <2>3. QED
    BY <2>1, <2>2
<1>3. ASSUME NEW r \in Runs, NEW a \in Aliases, NEW q \in Requests, Ask(r, a, q)
      PROVE  LogsAt(s)' /\ BreakerAt(s)'
  <2>1. CASE s # r
    BY <1>0, <1>3, <2>1, AccountFrame DEF Ask, Goto, TypeOK
  <2>2. CASE s = r
    <3>1. /\ pc[s] = "idle" /\ pc'[s] = "asked" /\ job'[s].try = 1
          /\ UNCHANGED <<calls, logs, failures>>
      BY <1>3, <2>2 DEF Ask, NewJob, MayAsk, Goto, TypeOK
    <3>2. QED
      BY <1>0, <3>1, AccountRest, BreakerRest
  <2>3. QED
    BY <2>1, <2>2
<1>4. ASSUME NEW r \in Runs, NEW q \in Texts, EmbedHit(r, q) \/ Embed(r, q)
      PROVE  LogsAt(s)' /\ BreakerAt(s)'
  <2>1. /\ NewBatch(q).channel = "embed" /\ NewBatch(q).try = 1
        /\ [NewBatch(q) EXCEPT !.cached = TRUE].channel = "embed"
    BY DEF NewBatch, NewJob
  <2>2. CASE s # r
    BY <1>0, <1>4, <2>2, AccountFrame DEF EmbedHit, Embed, Goto, TypeOK
  <2>3. CASE s = r
    <3>1. /\ pc[s] = "idle" /\ UNCHANGED <<calls, logs, failures>>
          /\ \/ pc'[s] = "event" /\ job'[s].channel = "embed"
             \/ pc'[s] = "call" /\ job'[s].try = 1
      BY <1>4, <2>1, <2>3 DEF EmbedHit, Embed, MayAsk, Goto, TypeOK
    <3>2. BreakerAt(s)'
      BY <1>0, <3>1, BreakerRest
    <3>3. QED
      BY <1>0, <3>1, <3>2 DEF LogsAt
  <2>4. QED
    BY <2>2, <2>3
<1>5. ASSUME NEW r \in Runs, Hit(r) \/ Miss(r)
      PROVE  LogsAt(s)' /\ BreakerAt(s)'
  <2>1. CASE s # r
    BY <1>0, <1>5, <2>1, AccountFrame DEF Hit, Miss, Goto, TypeOK
  <2>2. CASE s = r /\ Hit(r)
    <3>1. /\ pc[s] = "asked" /\ pc'[s] = "event" /\ UNCHANGED <<calls, logs, failures>>
      BY <2>2 DEF Hit, Goto, TypeOK
    <3>2. QED
      BY <1>0, <3>1, BreakerRest DEF LogsAt
  <2>3. CASE s = r /\ Miss(r)
    <3>1. /\ pc[s] = "asked" /\ pc'[s] = "call" /\ UNCHANGED <<calls, logs, failures, job>>
      BY <2>3 DEF Miss, Goto, TypeOK
    <3>2. BreakerAt(s)'
      BY <1>0, <3>1 DEF BreakerAt
    <3>3. QED
      BY <1>0, <3>1, <3>2, AccountRest
  <2>4. QED
    BY <1>5, <2>1, <2>2, <2>3
<1>6. ASSUME NEW r \in Runs, CircuitOpen(r) \/ CallRaises(r) \/ Store(r)
      PROVE  LogsAt(s)' /\ BreakerAt(s)'
  <2>1. UNCHANGED <<calls, logs, failures>> /\ Done(r) /\ pc[r] \in {"call", "store"}
    BY <1>6 DEF CircuitOpen, CallRaises, Trying, Store
  <2>2. CASE s # r
    BY <1>0, <2>1, <2>2, AccountFrame DEF Done, Goto, TypeOK
  <2>3. CASE s = r
    <3>1. pc'[s] = "idle"
      BY <2>1, <2>3 DEF Done, Goto, TypeOK
    <3>2. QED
      BY <1>0, <2>1, <2>3, <3>1, AccountRest, BreakerRest
  <2>4. QED
    BY <2>2, <2>3
<1>7. ASSUME NEW r \in Runs, CallFails(r)
      PROVE  LogsAt(s)' /\ BreakerAt(s)'
  <2>1. UNCHANGED <<calls, logs>> /\ pc[r] = "call"
    BY <1>7 DEF CallFails, Trying
  <2>2. CASE s # r
    <3>1. pc'[s] = pc[s] /\ job'[s] = job[s] /\ failures'[s] = failures[s]
      BY <1>7, <2>2 DEF CallFails, Done, Goto, TypeOK
    <3>2. QED
      BY <1>0, <2>1, <3>1, AccountFrame
  <2>3. CASE s = r
    <3>1. pc'[s] \in {"idle", "call"}
      BY <1>7, <2>1, <2>3 DEF CallFails, Done, Goto, TypeOK
    <3>2. LogsAt(s)'
      BY <1>0, <2>1, <2>3, <3>1, AccountRest
    <3>3. failures[s][job[s].channel] + 2 <= Breaker + job[s].try
      BY <1>0, <1>7, <2>1, <2>3 DEF CallFails, Trying, BreakerOpen, BreakerAt
    <3>4. \A c \in Channels :
            failures'[s][c] = IF c = job[s].channel THEN failures[s][c] + 1 ELSE failures[s][c]
      BY <1>0, <1>7, <2>3 DEF CallFails, TypeOK
    <3>5. \A c \in Channels : failures'[s][c] < Breaker + MaxAttempts
      BY <1>0, <3>3, <3>4 DEF BreakerAt
    <3>6. CASE job[s].try < MaxAttempts
      <4>1. job'[s].try = job[s].try + 1 /\ job'[s].channel = job[s].channel
        BY <1>0, <1>7, <2>3, <3>6 DEF CallFails, TypeOK, Job
      <4>2. failures'[s][job[s].channel] = failures[s][job[s].channel] + 1
        BY <1>0, <3>4
      <4>3. QED
        BY <1>0, <3>2, <3>3, <3>5, <4>1, <4>2 DEF BreakerAt
    <3>7. CASE ~ (job[s].try < MaxAttempts)
      <4>1. pc'[s] = "idle"
        BY <1>7, <2>3, <3>7 DEF CallFails, Done, Goto, TypeOK
      <4>2. QED
        BY <3>2, <3>5, <4>1 DEF BreakerAt
    <3>8. QED
      BY <3>6, <3>7
  <2>4. QED
    BY <2>2, <2>3
<1>8. ASSUME NEW r \in Runs, NEW q \in Texts, Shrink(r, q)
      PROVE  LogsAt(s)' /\ BreakerAt(s)'
  <2>1. UNCHANGED <<calls, logs, failures, pc>> /\ pc[r] = "call"
    BY <1>8 DEF Shrink, Trying
  <2>2. CASE s # r
    BY <1>0, <1>8, <2>1, <2>2, AccountFrame DEF Shrink, TypeOK
  <2>3. CASE s = r
    <3>1. job'[s].try = 1
      BY <1>0, <1>8, <2>3 DEF Shrink, TypeOK, Job
    <3>2. QED
      BY <1>0, <2>1, <2>3, <3>1, AccountRest, BreakerRest
  <2>4. QED
    BY <2>2, <2>3
<1>9. ASSUME NEW r \in Runs, Drifted(r)
      PROVE  LogsAt(s)' /\ BreakerAt(s)'
  <2>1. UNCHANGED <<calls, logs>> /\ pc[r] = "call" /\ Recovers(r) /\ Done(r)
    BY <1>9 DEF Drifted, Trying
  <2>2. CASE s # r
    BY <1>0, <2>1, <2>2, AccountFrame DEF Recovers, Done, Goto, TypeOK
  <2>3. CASE s = r
    <3>1. pc'[s] = "idle"
      BY <2>1, <2>3 DEF Done, Goto, TypeOK
    <3>2. QED
      BY <1>0, <2>1, <2>3, <3>1, AccountRest, BreakerRecovers
  <2>4. QED
    BY <2>2, <2>3
<1>10. ASSUME NEW r \in Runs, (\E good \in BOOLEAN : Answered(r, good)) \/ Embedded(r)
       PROVE  LogsAt(s)' /\ BreakerAt(s)'
  <2>1. /\ UNCHANGED logs /\ pc[r] = "call" /\ Recovers(r) /\ Goto(r, "event") /\ Note(r)
    BY <1>10 DEF Answered, Embedded, Trying
  <2>2. CASE s # r
    <3>1. job'[s] = job[s]
      BY <1>10, <2>2 DEF Answered, Embedded, TypeOK
    <3>2. QED
      BY <1>0, <2>1, <2>2, <3>1, AccountFrame DEF Recovers, Goto, Note, TypeOK
  <2>3. CASE s = r
    <3>1. pc'[s] = "event" /\ calls'[s] = calls[s] + 1
      BY <2>1, <2>3 DEF Goto, Note, TypeOK
    <3>2. job'[s].channel = "chat" => ~ job'[s].cached
      <4>1. CASE Embedded(r)
        BY <2>3, <4>1 DEF Embedded
      <4>2. ASSUME NEW good \in BOOLEAN, Answered(r, good)
            PROVE  ~ job'[s].cached
        <5>1. job'[s].cached = job[s].cached /\ job[s].channel = "chat"
          BY <1>0, <2>3, <4>2 DEF Answered, TypeOK, Job
        <5>2. QED
          BY <1>0, <2>1, <2>3, <5>1 DEF CapsAt
      <4>3. QED
        BY <1>10, <4>1, <4>2
    <3>3. LogsAt(s)'
      BY <1>0, <2>1, <2>3, <3>1, <3>2 DEF LogsAt
    <3>4. QED
      BY <1>0, <2>1, <2>3, <3>1, <3>3, BreakerRecovers
  <2>4. QED
    BY <2>2, <2>3
<1>11. ASSUME NEW r \in Runs, WriteEvent(r)
       PROVE  LogsAt(s)' /\ BreakerAt(s)'
  <2>1. UNCHANGED <<calls, rows, failures, job>> /\ pc[r] = "event"
    BY <1>11 DEF WriteEvent
  <2>2. CASE s # r
    BY <1>0, <1>11, <2>1, <2>2, AccountFrame DEF WriteEvent, Goto, TypeOK
  <2>3. CASE s = r
    <3>1. pc'[s] = "row" /\ events'[s] = events[s] + 1
      BY <1>11, <2>3 DEF WriteEvent, Goto, TypeOK
    <3>2. QED
      BY <1>0, <2>1, <2>3, <3>1, BreakerRest DEF LogsAt
  <2>4. QED
    BY <2>2, <2>3
<1>12. ASSUME NEW r \in Runs, HitRow(r)
       PROVE  LogsAt(s)' /\ BreakerAt(s)'
  <2>1. /\ UNCHANGED <<events, failures>> /\ pc[r] = "row"
        /\ job[r].channel = "chat" /\ job[r].cached /\ Row(r) /\ Note(r) /\ Done(r)
    BY <1>12 DEF HitRow
  <2>2. CASE s # r
    BY <1>0, <2>1, <2>2, AccountFrame DEF Row, Note, Done, Goto, TypeOK
  <2>3. CASE s = r
    <3>1. pc'[s] = "idle" /\ rows'[s] = rows[s] + 1 /\ calls'[s] = calls[s] + 1
      BY <2>1, <2>3 DEF Row, Note, Done, Goto, TypeOK
    <3>2. QED
      BY <1>0, <2>1, <2>3, <3>1, BreakerRest DEF LogsAt
  <2>4. QED
    BY <2>2, <2>3
<1>13. ASSUME NEW r \in Runs, AnswerRow(r) \/ RefusedRow(r) \/ LastRow(r)
       PROVE  LogsAt(s)' /\ BreakerAt(s)'
  <2>1. UNCHANGED <<calls, events, failures>> /\ pc[r] = "row" /\ Row(r)
    BY <1>13 DEF AnswerRow, RefusedRow, LastRow
  <2>2. CASE s # r
    <3>1. pc'[s] = pc[s] /\ job'[s] = job[s]
      BY <1>13, <2>2 DEF AnswerRow, RefusedRow, LastRow, Done, Goto, TypeOK
    <3>2. QED
      BY <1>0, <2>1, <2>2, <3>1, AccountFrame DEF Row, TypeOK
  <2>3. CASE s = r
    <3>1. rows'[s] = rows[s] + 1
      BY <2>1, <2>3 DEF Row, TypeOK
    <3>2. pc'[s] \in {"idle", "store"} \/ (pc'[s] = "call" /\ job'[s].try = 1)
      <4>1. CASE AnswerRow(r) \/ LastRow(r)
        BY <2>3, <4>1 DEF AnswerRow, LastRow, Done, Goto, TypeOK
      <4>2. CASE RefusedRow(r) /\ job[r].attempt < Repairs
        BY <1>0, <2>3, <4>2 DEF RefusedRow, Goto, TypeOK, Job
      <4>3. CASE RefusedRow(r) /\ ~ (job[r].attempt < Repairs)
        BY <2>3, <4>3 DEF RefusedRow, Done, Goto, TypeOK
      <4>4. QED
        BY <1>13, <4>1, <4>2, <4>3
    <3>3. BreakerAt(s)'
      BY <1>0, <2>1, <3>2, BreakerRest
    <3>4. QED
      BY <1>0, <2>1, <2>3, <3>1, <3>2, <3>3 DEF LogsAt
  <2>4. QED
    BY <2>2, <2>3
<1>14. ASSUME NEW r \in Runs, ClaudeStart(r) \/ ClaudeMessage(r)
       PROVE  LogsAt(s)' /\ BreakerAt(s)'
  BY <1>0, <1>14, AccountFrame DEF ClaudeStart, ClaudeMessage
<1>15. ASSUME NEW r \in Runs, ClaudeStop(r)
       PROVE  LogsAt(s)' /\ BreakerAt(s)'
  <2>1. UNCHANGED <<logs, failures>> /\ pc[r] = "idle"
    BY <1>15 DEF ClaudeStop
  <2>2. CASE s # r
    BY <1>0, <1>15, <2>1, <2>2, AccountFrame DEF ClaudeStop, Note, Goto, TypeOK
  <2>3. CASE s = r
    <3>1. pc'[s] = "event" /\ job'[s].channel = "claude" /\ calls'[s] = calls[s] + 1
      BY <1>0, <1>15, <2>3 DEF ClaudeStop, Note, Goto, TypeOK, Job
    <3>2. QED
      BY <1>0, <2>1, <2>3, <3>1, BreakerRest DEF LogsAt
  <2>4. QED
    BY <2>2, <2>3
<1>16. CASE UNCHANGED vars \/ \E a \in Aliases, m \in Models : Drift(a, m)
  BY <1>0, <1>16, AccountFrame DEF vars, Drift
<1>17. QED
  BY <1>1, <1>2, <1>3, <1>4, <1>5, <1>6, <1>7, <1>8, <1>9, <1>10, <1>11, <1>12, <1>13, <1>14,
     <1>15, <1>16 DEF Next, CallStep

\* The transcript, the cost log and the call count agree, and an open breaker lets no new
\* call through, wherever a call fails, drifts or is killed (recording.py, throttle.py).
THEOREM CallsAreAccounted == Spec => []CallsAccounted
<1>1. Init => CapsInv /\ AccountInv
  <2>1. SUFFICES ASSUME Init, NEW r \in Runs
                 PROVE  CapsAt(r) /\ LogsAt(r) /\ BreakerAt(r)
    BY DEF CapsInv, AccountInv
  <2>2. /\ pc[r] = "closed" /\ calls[r] = 0 /\ messages[r] = 0 /\ ~ streaming[r]
        /\ events[r] = 0 /\ rows[r] = 0 /\ failures[r] = NoFailures
    BY <2>1 DEF Init
  <2>3. QED
    BY <2>2 DEF CapsAt, LogsAt, BreakerAt, NoFailures, Repairs
<1>2. AccountInv => CallsAccounted
  BY DEF AccountInv, LogsAt, BreakerAt, CallsAccounted, LogsAgree, BreakerHolds
<1>3. QED
  BY <1>1, <1>2, InitType, TypeStep, CapsStep, AccountStep, PTL DEF Spec

=============================================================================
