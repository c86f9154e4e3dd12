----------------------------- MODULE LandingProofs -----------------------------
(***************************************************************************)
(* What Landing guarantees for any number of clones, paths and changes:     *)
(* the types, that no push drops another's file, that no commit is dropped  *)
(* unless what it wrote is kept, that a gated push extends a head that was *)
(* green, and that main stays valid while no call is cut off half-way.     *)
(***************************************************************************)
EXTENDS Landing, NaturalsInduction, WellFoundedInduction, TLAPS

USE ChangesAssumption, BoundsAssumption, AbsentAssumption

\* The tree after a set of commits is a tree: what a path holds afterwards was
\* written by one of them or was there before (land.py commits whole files).
LEMMA AfterType ==
    ASSUME NEW t \in Tree, NEW S \in SUBSET Commit
    PROVE  After(t, S) \in Tree
<1>1. SUFFICES ASSUME NEW p \in Paths
               PROVE  After(t, S)[p] \in Cell
  BY DEF After, Tree
<1>2. CASE Latest(S, p) = {}
  BY <1>2 DEF After, Tree
<1>3. CASE Latest(S, p) # {}
  <2>1. PICK m \in Latest(S, p) : m = CHOOSE k \in Latest(S, p) : TRUE
    BY <1>3
  <2>2. m \in Commit /\ p \in DOMAIN m.to
    BY <2>1 DEF Latest, Touches
  <2>3. m.to[p] \in Cell
    BY <2>2 DEF Commit, Patch
  <2>4. QED
    BY <1>3, <2>1, <2>3 DEF After
<1>4. QED
  BY <1>2, <1>3

\* Nothing committed, nothing changed.
LEMMA AfterNothing ==
    ASSUME NEW t \in Tree
    PROVE  After(t, {}) = t
BY DEF After, Latest, Tree

\* Committing the index on top of HEAD yields the index.
LEMMA AfterCommit ==
    ASSUME NEW t \in Tree, NEW S \in SUBSET Commit, NEW i \in Tree,
           NEW m \in Commit, \A o \in S : o.n < m.n,
           DOMAIN m.to = {p \in Paths : i[p] # After(t, S)[p]},
           \A p \in DOMAIN m.to : m.to[p] = i[p]
    PROVE  After(t, S \cup {m}) = i
<1>1. SUFFICES ASSUME NEW p \in Paths
               PROVE  After(t, S \cup {m})[p] = i[p]
  BY DEF After, Tree
<1>2. CASE p \in DOMAIN m.to
  <2>1. Latest(S \cup {m}, p) = {m}
    BY <1>2 DEF Latest, Touches, Commit
  <2>2. QED
    BY <1>2, <2>1 DEF After
<1>3. CASE p \notin DOMAIN m.to
  <2>1. Latest(S \cup {m}, p) = Latest(S, p)
    BY <1>3 DEF Latest, Touches
  <2>2. QED
    BY <1>3, <2>1 DEF After
<1>4. QED
  BY <1>2, <1>3

-----------------------------------------------------------------------------
(* Types. *)

\* What a rebase keeps of a clone's commits are commits.
LEMMA ReplayedType ==
    ASSUME RemoteTypeOK, CloneTypeOK, NEW c \in Clones, fetched[c] \in 0 .. Len(main)
    PROVE  Tip(c) \in Tree /\ Replayed(c) \in SUBSET Commit
<1>1. Tip(c) \in Tree
  <2>1. CASE fetched[c] = 0
    BY <2>1 DEF Tip, MainTree, Blank, Tree, Cell
  <2>2. CASE fetched[c] # 0
    <3>1. main[fetched[c]] \in Push
      BY <2>2 DEF RemoteTypeOK
    <3>2. QED
      BY <2>2, <3>1 DEF Tip, MainTree, Push
  <2>3. QED
    BY <2>1, <2>2
<1>2. ASSUME NEW m \in Pending(c)
      PROVE  [m EXCEPT !.from = [p \in DOMAIN m.to |-> Before(c, m)[p]]] \in Commit
  <2>1. m \in Commit
    BY DEF CloneTypeOK, Pending
  <2>2. {o \in Pending(c) : o.n < m.n} \in SUBSET Commit
    BY DEF CloneTypeOK, Pending
  <2>3. Before(c, m) \in Tree
    BY <1>1, <2>2, AfterType DEF Before
  <2>4. DOMAIN m.to \in (SUBSET Paths) \ {{}}
    BY <2>1 DEF Commit, Patch
  <2>5. [p \in DOMAIN m.to |-> Before(c, m)[p]] \in [DOMAIN m.to -> Cell]
    BY <2>3, <2>4 DEF Tree
  <2>6. [p \in DOMAIN m.to |-> Before(c, m)[p]] \in Patch
    BY <2>4, <2>5 DEF Patch
  <2>7. QED
    BY <2>1, <2>6 DEF Commit
<1>3. Replayed(c) \in SUBSET Commit
  BY <1>2 DEF Replayed
<1>4. QED
  BY <1>1, <1>3

\* An accepted push extends main with well-typed commits and starts its CI status.
LEMMA AcceptType ==
    ASSUME RemoteTypeOK, CloneTypeOK, NEW c \in Clones, Accept(c), UNCHANGED wasGreen
    PROVE  RemoteTypeOK' /\ Len(main') \in Nat /\ Len(main) <= Len(main')
<1>1. CASE ahead[c] = {}
  BY <1>1 DEF RemoteTypeOK, Accept
<1>2. CASE ahead[c] # {}
  <2>1. [commits |-> ahead[c], tree |-> head[c]] \in Push
    BY DEF CloneTypeOK, Push
  <2>2. main' \in Seq(Push) /\ Len(main') = Len(main) + 1
    BY <1>2, <2>1 DEF RemoteTypeOK, Accept
  <2>3. ci' = [b \in 0 .. Len(main) + 1 |-> IF b \in DOMAIN ci THEN ci[b] ELSE "unknown"]
    BY <1>2 DEF Accept
  <2>4. ci' \in [0 .. Len(main) + 1 -> Verdicts]
    BY <2>3 DEF RemoteTypeOK, Verdicts
  <2>5. QED
    BY <2>2, <2>4 DEF RemoteTypeOK
<1>3. QED
  BY <1>1, <1>2

\* A call that returns leaves well-typed locals behind.
LEMMA ReturnType ==
    ASSUME CallTypeOK, NEW c \in Clones, NEW r \in Outcomes, Return(c, r)
    PROVE  CallTypeOK'
BY DEF CallTypeOK, Return, Goto, Steps

\* So does one that moves on to its next step.
LEMMA GotoType ==
    ASSUME CallTypeOK, NEW c \in Clones, NEW s \in Steps, Goto(c, s),
           change[c] \in Changes, attempt' \in [Clones -> 0 .. Retries],
           UNCHANGED <<change, outcome, calls>>
    PROVE  CallTypeOK'
BY DEF CallTypeOK, Goto

\* A rejected push either starts the next attempt or gives up.
LEMMA RetryType ==
    ASSUME CallTypeOK, NEW c \in Clones, pc[c] = "checked", RetryOrGiveUp(c)
    PROVE  CallTypeOK'
<1>1. CASE attempt[c] < Retries
  <2>1. attempt' \in [Clones -> 0 .. Retries]
    BY <1>1 DEF CallTypeOK, RetryOrGiveUp
  <2>2. change[c] \in Changes
    BY DEF CallTypeOK
  <2>3. QED
    BY <1>1, <2>1, <2>2, GotoType DEF RetryOrGiveUp, Steps
<1>2. CASE ~(attempt[c] < Retries)
  BY <1>2, ReturnType DEF RetryOrGiveUp, Outcomes
<1>3. QED
  BY <1>1, <1>2

\* Every step of a call keeps the types of the call's own variables.
LEMMA CallType ==
    ASSUME CallTypeOK, NEW c \in Clones, CallStep(c) \/ Crash(c)
    PROVE  CallTypeOK'
<1> USE DEF Outcomes, Steps
<1>1. CASE pc[c] # "idle"
  <2>1. change[c] \in Changes /\ attempt \in [Clones -> 0 .. Retries]
    BY <1>1 DEF CallTypeOK
  <2>2. CASE Stage(c)
    BY <2>1, <2>2, GotoType DEF Stage
  <2>3. CASE MakeCommit(c)
    <3>1. CASE {p \in Paths : index[c][p] # head[c][p]} = {}
      BY <2>3, <3>1, ReturnType DEF MakeCommit
    <3>2. CASE {p \in Paths : index[c][p] # head[c][p]} # {}
      <4>1. attempt' \in [Clones -> 0 .. Retries]
        BY <2>1, <2>3, <3>2 DEF MakeCommit
      <4>2. QED
        BY <2>1, <2>3, <3>2, <4>1, GotoType DEF MakeCommit
    <3>3. QED
      BY <3>1, <3>2
  <2>4. CASE Timeout(c) \/ Crash(c)
    BY <2>4, ReturnType DEF Timeout, Crash
  <2>5. CASE Fetch(c)
    BY <2>1, <2>5, GotoType DEF Fetch
  <2>6. CASE Rebase(c)
    BY <2>1, <2>6, GotoType, ReturnType DEF Rebase
  <2>7. CASE Validate(c)
    BY <2>1, <2>7, GotoType, ReturnType DEF Validate
  <2>8. CASE CheckStatus(c)
    BY <2>1, <2>8, GotoType, ReturnType DEF CheckStatus
  <2>9. CASE PushLands(c)
    BY <2>9, ReturnType DEF PushLands
  <2>10. CASE PushRejected(c) \/ PushUnacknowledged(c)
    BY <2>10, RetryType DEF PushRejected, PushUnacknowledged
  <2>11. QED
    BY <2>2, <2>3, <2>4, <2>5, <2>6, <2>7, <2>8, <2>9, <2>10 DEF CallStep
<1>2. CASE pc[c] = "idle"
  BY <1>2 DEF CallStep, Stage, MakeCommit, Timeout, Fetch, Rebase, Validate, CheckStatus,
              PushLands, PushRejected, PushUnacknowledged, Crash
<1>3. QED
  BY <1>1, <1>2

\* Staging copies files from disk to the index.
LEMMA StageType ==
    ASSUME CloneTypeOK, NEW c \in Clones, Stage(c)
    PROVE  CloneTypeOK'
BY DEF CloneTypeOK, Stage, Tree

\* What is staged makes a commit.
LEMMA MakeCommitType ==
    ASSUME CloneTypeOK, CallTypeOK, NEW c \in Clones, MakeCommit(c)
    PROVE  CloneTypeOK'
<1> DEFINE staged == {p \in Paths : index[c][p] # head[c][p]}
           m == [n |-> calls[c], key |-> change[c],
                 from |-> [p \in staged |-> head[c][p]],
                 to |-> [p \in staged |-> index[c][p]]]
<1>1. CASE staged = {}
  BY <1>1 DEF CloneTypeOK, MakeCommit
<1>2. CASE staged # {}
  <2>1. m.from \in Patch /\ m.to \in Patch
    <3>1. m.from \in [staged -> Cell] /\ m.to \in [staged -> Cell]
      BY DEF CloneTypeOK, Tree
    <3>2. staged \in (SUBSET Paths) \ {{}}
      BY <1>2
    <3>3. QED
      BY <3>1, <3>2 DEF Patch
  <2>2. m \in Commit
    BY <2>1 DEF CallTypeOK, MakeCommit, Commit
  <2>3. ahead' = [ahead EXCEPT ![c] = @ \cup {m}]
    BY <1>2 DEF MakeCommit
  <2>4. ahead' \in [Clones -> SUBSET Commit]
    BY <2>2, <2>3 DEF CloneTypeOK
  <2>5. QED
    BY <1>2, <2>4 DEF CloneTypeOK, MakeCommit
<1>3. QED
  BY <1>1, <1>2

\* A rebase leaves a well-typed clone that builds on what it fetched.
LEMMA RebaseType ==
    ASSUME RemoteTypeOK, RefsTypeOK, CloneTypeOK, NEW c \in Clones, Rebase(c)
    PROVE  CloneTypeOK' /\ RefsTypeOK'
<1>1. CASE Refuses(c) \/ Conflicts(c)
  BY <1>1 DEF CloneTypeOK, RefsTypeOK, Rebase
<1>2. CASE ~(Refuses(c) \/ Conflicts(c))
  <2>1. fetched[c] \in 0 .. Len(main)
    BY DEF RefsTypeOK, RemoteTypeOK
  <2>2. Replayed(c) \in SUBSET Commit /\ After(Tip(c), Replayed(c)) \in Tree
    BY <2>1, ReplayedType, AfterType
  <2>3. ahead' \in [Clones -> SUBSET Commit]
    BY <1>2, <2>2 DEF CloneTypeOK, Rebase
  <2>4. head' \in [Clones -> Tree]
    BY <1>2, <2>2 DEF CloneTypeOK, Rebase
  <2>5. index' \in [Clones -> Tree]
    BY <1>2, <2>4 DEF CloneTypeOK, Rebase
  <2>6. tree' \in [Clones -> Tree]
    <3> DEFINE after == [p \in Paths |-> IF Untracked(c, p) THEN tree[c][p] ELSE head'[c][p]]
    <3>1. after \in Tree
      BY <2>4 DEF CloneTypeOK, Tree
    <3>2. tree' = [tree EXCEPT ![c] = after]
      BY <1>2 DEF Rebase
    <3>3. QED
      BY <3>1, <3>2 DEF CloneTypeOK
  <2>7. RefsTypeOK'
    <3>1. base' = [base EXCEPT ![c] = fetched[c]] /\ UNCHANGED <<fetched, main>>
      BY <1>2 DEF Rebase
    <3>2. QED
      BY <2>1, <3>1 DEF RefsTypeOK
  <2>8. QED
    BY <2>3, <2>4, <2>5, <2>6, <2>7 DEF CloneTypeOK
<1>3. QED
  BY <1>1, <1>2

\* A push that origin accepts, acknowledged or not.
LEMMA PushType ==
    ASSUME TypeOK, NEW c \in Clones, PushLands(c) \/ PushUnacknowledged(c)
    PROVE  RemoteTypeOK' /\ RefsTypeOK' /\ CloneTypeOK'
<1>1. RemoteTypeOK' /\ Len(main') \in Nat /\ Len(main) <= Len(main')
  BY AcceptType DEF TypeOK, PushLands, PushUnacknowledged, history
<1>2. Len(main) \in Nat
  BY DEF TypeOK, RemoteTypeOK
<1>3. CASE PushLands(c)
  <2>1. /\ base' = [base EXCEPT ![c] = Len(main')]
        /\ fetched' = [fetched EXCEPT ![c] = Len(main')]
        /\ ahead' = [ahead EXCEPT ![c] = {}]
        /\ UNCHANGED <<head, index, tree>>
    BY <1>3 DEF PushLands
  <2>2. RefsTypeOK'
    BY <1>1, <1>2, <2>1 DEF TypeOK, RefsTypeOK
  <2>3. CloneTypeOK'
    BY <2>1 DEF TypeOK, CloneTypeOK
  <2>4. QED
    BY <1>1, <2>2, <2>3
<1>4. CASE PushUnacknowledged(c)
  BY <1>1, <1>2, <1>4 DEF TypeOK, RefsTypeOK, CloneTypeOK, PushUnacknowledged
<1>5. QED
  BY <1>3, <1>4

\* A call that begins writes its change over the working tree.
LEMMA BeginType ==
    ASSUME TypeOK, NEW c \in Clones, NEW ch \in Changes, Begin(c, ch)
    PROVE  TypeOK'
<1>1. Overwrite(tree[c], ch) \in Tree
  BY DEF TypeOK, CloneTypeOK, Overwrite, Tree, Patch
<1>2. CloneTypeOK'
  BY <1>1 DEF TypeOK, CloneTypeOK, Begin
<1>3. CallTypeOK'
  BY DEF TypeOK, CallTypeOK, Begin, Goto, Steps, Outcomes
<1>4. QED
  BY <1>2, <1>3 DEF TypeOK, RemoteTypeOK, RefsTypeOK, Begin, budgets

\* Every step keeps the types.
LEMMA TypeStep == TypeOK /\ [Next]_vars => TypeOK'
<1> SUFFICES ASSUME TypeOK, [Next]_vars
             PROVE  TypeOK'
  OBVIOUS
<1>1. ASSUME NEW c \in Clones, NEW ch \in Changes, Begin(c, ch)
      PROVE  TypeOK'
  BY <1>1, BeginType
<1>2. ASSUME NEW c \in Clones, Stage(c)
      PROVE  TypeOK'
  <2>1. CallTypeOK' /\ CloneTypeOK'
    BY <1>2, CallType, StageType DEF TypeOK, CallStep
  <2>2. QED
    BY <1>2, <2>1 DEF TypeOK, RemoteTypeOK, RefsTypeOK, Stage, budgets, history
<1>3. ASSUME NEW c \in Clones, MakeCommit(c)
      PROVE  TypeOK'
  <2>1. CallTypeOK' /\ CloneTypeOK'
    BY <1>3, CallType, MakeCommitType DEF TypeOK, CallStep
  <2>2. QED
    BY <1>3, <2>1 DEF TypeOK, RemoteTypeOK, RefsTypeOK, MakeCommit, budgets, history
<1>4. ASSUME NEW c \in Clones,
             Timeout(c) \/ Validate(c) \/ CheckStatus(c) \/ PushRejected(c)
      PROVE  TypeOK'
  <2>1. CallTypeOK'
    BY <1>4, CallType DEF TypeOK, CallStep
  <2>2. QED
    BY <1>4, <2>1 DEF TypeOK, RemoteTypeOK, RefsTypeOK, CloneTypeOK, Timeout, Validate,
                      CheckStatus, PushRejected, gitVars, budgets, history
<1>5. ASSUME NEW c \in Clones, Fetch(c)
      PROVE  TypeOK'
  <2>1. CallTypeOK'
    BY <1>5, CallType DEF TypeOK, CallStep
  <2>2. RefsTypeOK'
    BY <1>5 DEF TypeOK, RemoteTypeOK, RefsTypeOK, Fetch
  <2>3. QED
    BY <1>5, <2>1, <2>2 DEF TypeOK, RemoteTypeOK, CloneTypeOK, Fetch, budgets, history
<1>6. ASSUME NEW c \in Clones, Rebase(c)
      PROVE  TypeOK'
  <2>1. CallTypeOK' /\ CloneTypeOK' /\ RefsTypeOK'
    BY <1>6, CallType, RebaseType DEF TypeOK, CallStep
  <2>2. QED
    BY <1>6, <2>1 DEF TypeOK, RemoteTypeOK, Rebase, budgets, history
<1>7. ASSUME NEW c \in Clones, PushLands(c) \/ PushUnacknowledged(c)
      PROVE  TypeOK'
  <2>1. CallTypeOK'
    BY <1>7, CallType DEF TypeOK, CallStep
  <2>2. RemoteTypeOK' /\ RefsTypeOK' /\ CloneTypeOK'
    BY <1>7, PushType
  <2>3. crashes' \in Nat /\ edits' \in Nat
    BY <1>7 DEF TypeOK, PushLands, PushUnacknowledged, budgets
  <2>4. reported' \subseteq Changes
    BY <1>7 DEF TypeOK, CallTypeOK, PushLands, PushUnacknowledged, Report, history
  <2>5. QED
    BY <2>1, <2>2, <2>3, <2>4 DEF TypeOK
<1>8. ASSUME NEW c \in Clones, Crash(c)
      PROVE  TypeOK'
  <2>1. CallTypeOK'
    BY <1>8, CallType DEF TypeOK
  <2>2. /\ UNCHANGED <<main, ci, base, fetched, ahead, head, index, tree>>
        /\ UNCHANGED <<edits, wasGreen, reported>>
        /\ crashes' = crashes + 1
    BY <1>8 DEF Crash, gitVars, history
  <2>3. RemoteTypeOK' /\ RefsTypeOK' /\ CloneTypeOK'
    BY <2>2 DEF TypeOK, RemoteTypeOK, RefsTypeOK, CloneTypeOK
  <2>4. QED
    BY <2>1, <2>2, <2>3 DEF TypeOK
<1>9. ASSUME NEW c \in Clones, NEW p \in Paths, NEW x \in Contents, Edit(c, p, x)
      PROVE  TypeOK'
  <2>1. CloneTypeOK'
    BY <1>9 DEF TypeOK, CloneTypeOK, Edit, Tree, Cell
  <2>2. /\ UNCHANGED <<main, ci, base, fetched, pc, change, attempt, outcome, calls>>
        /\ UNCHANGED <<crashes, wasGreen, reported>>
        /\ edits' = edits + 1
    BY <1>9 DEF Edit, callVars, history
  <2>3. RemoteTypeOK' /\ RefsTypeOK'
    BY <2>2 DEF TypeOK, RemoteTypeOK, RefsTypeOK
  <2>4. CallTypeOK'
    BY <2>2 DEF TypeOK, CallTypeOK
  <2>5. QED
    BY <2>1, <2>2, <2>3, <2>4 DEF TypeOK
<1>10. ASSUME NEW b \in 0 .. Len(main), NEW v \in {"green", "red"}, CIReport(b, v)
       PROVE  TypeOK'
  <2>1. RemoteTypeOK'
    BY <1>10 DEF TypeOK, RemoteTypeOK, CIReport, gitVars, Verdicts
  <2>2. /\ UNCHANGED <<main, base, fetched, ahead, head, index, tree>>
        /\ UNCHANGED <<pc, change, attempt, outcome, calls, crashes, edits, reported>>
    BY <1>10 DEF CIReport, gitVars, callVars, budgets
  <2>3. RefsTypeOK' /\ CloneTypeOK'
    BY <2>2 DEF TypeOK, RefsTypeOK, CloneTypeOK
  <2>4. CallTypeOK'
    BY <2>2 DEF TypeOK, CallTypeOK
  <2>5. QED
    BY <2>1, <2>2, <2>3, <2>4 DEF TypeOK
<1>11. CASE UNCHANGED vars
  <2>1. /\ UNCHANGED <<main, ci, base, fetched, ahead, head, index, tree, wasGreen>>
        /\ UNCHANGED <<pc, change, attempt, outcome, calls, crashes, edits, reported>>
    BY <1>11 DEF vars, gitVars, callVars, budgets, history
  <2>2. RemoteTypeOK' /\ RefsTypeOK' /\ CloneTypeOK'
    BY <2>1 DEF TypeOK, RemoteTypeOK, RefsTypeOK, CloneTypeOK
  <2>3. CallTypeOK'
    BY <2>1 DEF TypeOK, CallTypeOK
  <2>4. QED
    BY <2>1, <2>2, <2>3 DEF TypeOK
<1>12. QED
  BY <1>1, <1>2, <1>3, <1>4, <1>5, <1>6, <1>7, <1>8, <1>9, <1>10, <1>11
  DEF Next, CallStep

\* Every variable keeps its type on every path through a landing call (land.py).
THEOREM TypeCorrect == Spec => []TypeOK
<1>1. Init => TypeOK
  BY DEF Init, TypeOK, RemoteTypeOK, RefsTypeOK, CloneTypeOK, CallTypeOK, Blank, Tree,
         Cell, Verdicts, Steps, Outcomes
<1>2. QED
  BY <1>1, TypeStep, PTL DEF Spec

-----------------------------------------------------------------------------
(* No push drops another's file. *)

\* Every snapshot of main is a tree.
LEMMA MainTreeType ==
    ASSUME RemoteTypeOK, NEW b \in 0 .. Len(main)
    PROVE  MainTree(b) \in Tree
<1>1. CASE b = 0
  BY <1>1 DEF MainTree, Blank, Tree, Cell
<1>2. CASE b # 0
  <2>1. main[b] \in Push
    BY <1>2 DEF RemoteTypeOK
  <2>2. QED
    BY <1>2, <2>1 DEF MainTree, Push
<1>3. QED
  BY <1>1, <1>2

\* The snapshot of the first b pushes of a history h, which need not be today's main.
SnapshotAt(h, b) == IF b = 0 THEN Blank ELSE h[b].tree

\* An accepted push keeps every earlier snapshot of main and makes the clone's HEAD
\* its last; if the clone's HEAD is a replay on main, no update is lost.
LEMMA AcceptKeeps ==
    ASSUME UpdateInv, NEW c \in Clones, Accept(c)
    PROVE  /\ NoLostUpdate'
           /\ \A b \in 0 .. Len(main) : SnapshotAt(main', b) = MainTree(b)
           /\ SnapshotAt(main', Len(main')) = head[c]
           /\ Len(main') \in Nat
<1> USE DEF UpdateInv, TypeOK
<1>1. Len(main) \in Nat /\ base[c] = Len(main)
  BY DEF RemoteTypeOK, Accept
<1>2. CASE ahead[c] = {}
  <2>1. main' = main
    BY <1>2 DEF Accept
  <2>2. head[c] = MainTree(Len(main))
    <3>1. head[c] = After(MainTree(base[c]), {})
      BY <1>2 DEF HeadIsReplay
    <3>2. MainTree(base[c]) \in Tree
      BY <1>1, MainTreeType
    <3>3. QED
      BY <1>1, <3>1, <3>2, AfterNothing
  <2>3. \A b \in 0 .. Len(main) : SnapshotAt(main', b) = MainTree(b)
    BY <2>1 DEF MainTree, SnapshotAt
  <2>4. NoLostUpdate'
    BY <2>1 DEF NoLostUpdate, MainTree
  <2>5. QED
    BY <1>1, <2>1, <2>2, <2>3, <2>4
<1>3. CASE ahead[c] # {}
  <2> DEFINE push == [commits |-> ahead[c], tree |-> head[c]]
  <2>1. main' = Append(main, push)
    BY <1>3 DEF Accept
  <2>2. push \in Push
    BY DEF CloneTypeOK, Push
  <2>3. /\ Len(main') = Len(main) + 1
        /\ main'[Len(main) + 1] = push
        /\ \A b \in 1 .. Len(main) : main'[b] = main[b]
    BY <2>1, <2>2 DEF RemoteTypeOK
  <2>4. \A b \in 0 .. Len(main) : SnapshotAt(main', b) = MainTree(b)
    BY <1>1, <2>3 DEF MainTree, SnapshotAt
  <2>5. SnapshotAt(main', Len(main')) = head[c]
    BY <1>1, <2>3 DEF SnapshotAt
  <2>6. NoLostUpdate'
    <3>1. SUFFICES ASSUME NEW b \in 1 .. Len(main')
                   PROVE  main'[b].tree = After(SnapshotAt(main', b - 1), main'[b].commits)
      BY DEF NoLostUpdate, MainTree, SnapshotAt
    <3>2. CASE b \in 1 .. Len(main)
      <4>1. main'[b] = main[b] /\ SnapshotAt(main', b - 1) = MainTree(b - 1)
        BY <1>1, <2>3, <2>4, <3>2
      <4>2. QED
        BY <3>2, <4>1 DEF NoLostUpdate
    <3>3. CASE b = Len(main) + 1
      <4>1. main'[b] = push /\ SnapshotAt(main', b - 1) = MainTree(base[c])
        BY <1>1, <2>3, <2>4, <3>3
      <4>2. QED
        BY <4>1 DEF HeadIsReplay
    <3>4. QED
      BY <1>1, <2>3, <3>2, <3>3
  <2>7. QED
    BY <1>1, <2>3, <2>4, <2>5, <2>6
<1>4. QED
  BY <1>2, <1>3

\* Every step keeps HEAD a replay of its own commits, which is why a push adds just those.
LEMMA UpdateStep == UpdateInv /\ [Next]_vars => UpdateInv'
<1> SUFFICES ASSUME UpdateInv, [Next]_vars
             PROVE  UpdateInv'
  OBVIOUS
<1> USE DEF UpdateInv
<1>1. TypeOK'
  BY TypeStep
<1>2. \A d \in Clones : base[d] \in 0 .. Len(main) /\ calls[d] \in Nat /\ ahead[d] \subseteq Commit
  BY DEF TypeOK, RemoteTypeOK, RefsTypeOK, CloneTypeOK, CallTypeOK
<1>3. ASSUME UNCHANGED <<main, base, ahead, head>>
      PROVE  NoLostUpdate' /\ HeadIsReplay'
  BY <1>3 DEF NoLostUpdate, HeadIsReplay, MainTree
<1>4. ASSUME NEW c \in Clones, NEW ch \in Changes, Begin(c, ch)
      PROVE  UpdateInv'
  <2>1. Numbered'
    BY <1>2, <1>4 DEF Numbered, Begin, Goto, TypeOK, CallTypeOK, Commit
  <2>2. QED
    BY <1>1, <1>3, <1>4, <2>1 DEF Begin
<1>5. ASSUME NEW c \in Clones, Stage(c)
      PROVE  UpdateInv'
  <2>1. Numbered'
    BY <1>5 DEF Numbered, Stage, Goto, TypeOK, CallTypeOK
  <2>2. QED
    BY <1>1, <1>3, <1>5, <2>1 DEF Stage
<1>6. ASSUME NEW c \in Clones, MakeCommit(c)
      PROVE  UpdateInv'
  <2> DEFINE staged == {p \in Paths : index[c][p] # head[c][p]}
             m == [n |-> calls[c], key |-> change[c],
                   from |-> [p \in staged |-> head[c][p]],
                   to |-> [p \in staged |-> index[c][p]]]
  <2>1. CASE staged = {}
    <3>1. Numbered'
      BY <1>6, <2>1 DEF Numbered, MakeCommit, Return, Goto, TypeOK, CallTypeOK
    <3>2. QED
      BY <1>1, <1>3, <1>6, <2>1, <3>1 DEF MakeCommit
  <2>2. CASE staged # {}
    <3>1. /\ ahead' = [ahead EXCEPT ![c] = @ \cup {m}]
          /\ head' = [head EXCEPT ![c] = index[c]]
          /\ pc' = [pc EXCEPT ![c] = "committed"]
          /\ UNCHANGED <<main, base, calls>>
      BY <1>6, <2>2 DEF MakeCommit, Goto
    <3>2. m \in Commit
      <4>1. ahead'[c] \subseteq Commit
        BY <1>1 DEF TypeOK, CloneTypeOK
      <4>2. m \in ahead'[c]
        BY <3>1 DEF TypeOK, CloneTypeOK
      <4>3. QED
        BY <4>1, <4>2
    <3>3. Numbered'
      BY <1>2, <3>1 DEF Numbered, TypeOK, CloneTypeOK, CallTypeOK
    <3>4. After(MainTree(base[c]), ahead[c] \cup {m}) = index[c]
      <4>1. \A o \in ahead[c] : o.n < m.n
        BY <1>6 DEF Numbered, MakeCommit
      <4>2. head[c] = After(MainTree(base[c]), ahead[c])
        BY DEF HeadIsReplay
      <4>3. MainTree(base[c]) \in Tree /\ index[c] \in Tree
        BY <1>2, MainTreeType DEF TypeOK, CloneTypeOK
      <4>4. ahead[c] \in SUBSET Commit
        BY <1>2
      <4>5. DOMAIN m.to = {p \in Paths : index[c][p] # After(MainTree(base[c]), ahead[c])[p]}
        BY <4>2
      <4>6. \A p \in DOMAIN m.to : m.to[p] = index[c][p]
        OBVIOUS
      <4> HIDE DEF m
      <4>7. QED
        BY <3>2, <4>1, <4>3, <4>4, <4>5, <4>6, AfterCommit
    <3>5. HeadIsReplay'
      BY <3>1, <3>4 DEF HeadIsReplay, MainTree, TypeOK, CloneTypeOK
    <3>6. NoLostUpdate'
      BY <3>1 DEF NoLostUpdate, MainTree
    <3>7. QED
      BY <1>1, <3>3, <3>5, <3>6
  <2>3. QED
    BY <2>1, <2>2
<1>7. ASSUME NEW c \in Clones,
             Timeout(c) \/ Fetch(c) \/ Validate(c) \/ CheckStatus(c) \/ PushRejected(c) \/ Crash(c)
      PROVE  UpdateInv'
  <2>1. Numbered'
    BY <1>7 DEF Numbered, Timeout, Fetch, Validate, CheckStatus, PushRejected, Crash,
                RetryOrGiveUp, Return, Goto, gitVars, TypeOK, CallTypeOK
  <2>2. UNCHANGED <<main, base, ahead, head>>
    BY <1>7 DEF Timeout, Fetch, Validate, CheckStatus, PushRejected, Crash, gitVars
  <2>3. QED
    BY <1>1, <1>3, <2>1, <2>2
<1>8. ASSUME NEW c \in Clones, Rebase(c)
      PROVE  UpdateInv'
  <2>1. CASE Refuses(c) \/ Conflicts(c)
    <3>1. Numbered'
      BY <1>8, <2>1 DEF Numbered, Rebase, Return, Goto, TypeOK, CallTypeOK
    <3>2. QED
      BY <1>1, <1>3, <1>8, <2>1, <3>1 DEF Rebase
  <2>2. CASE ~(Refuses(c) \/ Conflicts(c))
    <3>1. /\ base' = [base EXCEPT ![c] = fetched[c]]
          /\ ahead' = [ahead EXCEPT ![c] = Replayed(c)]
          /\ head' = [head EXCEPT ![c] = After(Tip(c), Replayed(c))]
          /\ pc' = [pc EXCEPT ![c] = "rebased"]
          /\ UNCHANGED <<main, calls>>
      BY <1>8, <2>2 DEF Rebase, Goto
    <3>2. \A r \in Replayed(c) : \E m \in ahead[c] : r.n = m.n
      BY <1>2 DEF Replayed, Pending, Commit
    <3>3. Numbered'
      BY <3>1, <3>2 DEF Numbered, TypeOK, CloneTypeOK, CallTypeOK
    <3>4. HeadIsReplay'
      BY <3>1 DEF HeadIsReplay, Tip, MainTree, TypeOK, RefsTypeOK, CloneTypeOK
    <3>5. NoLostUpdate'
      BY <3>1 DEF NoLostUpdate, MainTree
    <3>6. QED
      BY <1>1, <3>3, <3>4, <3>5
  <2>3. QED
    BY <2>1, <2>2
<1>9. ASSUME NEW c \in Clones, PushLands(c)
      PROVE  UpdateInv'
  <2>1. /\ NoLostUpdate'
        /\ \A b \in 0 .. Len(main) : SnapshotAt(main', b) = MainTree(b)
        /\ SnapshotAt(main', Len(main')) = head[c]
        /\ Len(main') \in Nat
    BY <1>9, AcceptKeeps DEF PushLands
  <2>2. /\ base' = [base EXCEPT ![c] = Len(main')]
        /\ ahead' = [ahead EXCEPT ![c] = {}]
        /\ pc' = [pc EXCEPT ![c] = "idle"]
        /\ UNCHANGED <<head, calls>>
    BY <1>9 DEF PushLands, Return, Goto
  <2>3. Numbered'
    BY <2>2 DEF Numbered, TypeOK, CloneTypeOK, CallTypeOK
  <2>4. ASSUME NEW d \in Clones
        PROVE  head'[d] = After(SnapshotAt(main', base'[d]), ahead'[d])
    <3>1. CASE d = c
      <4>1. base'[d] = Len(main') /\ ahead'[d] = {} /\ head'[d] = head[c]
        BY <2>2, <3>1 DEF TypeOK, RefsTypeOK, CloneTypeOK
      <4>2. head[c] \in Tree
        BY DEF TypeOK, CloneTypeOK
      <4>3. QED
        BY <2>1, <4>1, <4>2, AfterNothing
    <3>2. CASE d # c
      <4>1. base'[d] = base[d] /\ ahead'[d] = ahead[d] /\ head'[d] = head[d]
        BY <2>2, <3>2 DEF TypeOK, RefsTypeOK, CloneTypeOK
      <4>2. SnapshotAt(main', base[d]) = MainTree(base[d])
        BY <1>2, <2>1
      <4>3. QED
        BY <4>1, <4>2 DEF HeadIsReplay
    <3>3. QED
      BY <3>1, <3>2
  <2>5. HeadIsReplay'
    BY <2>4 DEF HeadIsReplay, MainTree, SnapshotAt
  <2>6. QED
    BY <1>1, <2>1, <2>3, <2>5
<1>10. ASSUME NEW c \in Clones, PushUnacknowledged(c)
       PROVE  UpdateInv'
  <2>1. NoLostUpdate' /\ \A b \in 0 .. Len(main) : SnapshotAt(main', b) = MainTree(b)
    BY <1>10, AcceptKeeps DEF PushUnacknowledged
  <2>2. UNCHANGED <<base, ahead, head>>
    BY <1>10 DEF PushUnacknowledged
  <2>3. Numbered'
    BY <1>10 DEF Numbered, PushUnacknowledged, RetryOrGiveUp, Return, Goto, TypeOK, CallTypeOK
  <2>4. ASSUME NEW d \in Clones
        PROVE  head'[d] = After(SnapshotAt(main', base'[d]), ahead'[d])
    <3>1. SnapshotAt(main', base[d]) = MainTree(base[d])
      BY <1>2, <2>1
    <3>2. QED
      BY <2>2, <3>1 DEF HeadIsReplay
  <2>5. HeadIsReplay'
    BY <2>4 DEF HeadIsReplay, MainTree, SnapshotAt
  <2>6. QED
    BY <1>1, <2>1, <2>3, <2>5
<1>11. ASSUME NEW c \in Clones, NEW p \in Paths, NEW x \in Contents, Edit(c, p, x)
       PROVE  UpdateInv'
  BY <1>1, <1>3, <1>11 DEF Edit, callVars, Numbered
<1>12. ASSUME NEW b \in 0 .. Len(main), NEW v \in {"green", "red"}, CIReport(b, v)
       PROVE  UpdateInv'
  BY <1>1, <1>3, <1>12 DEF CIReport, gitVars, callVars, Numbered
<1>13. CASE UNCHANGED vars
  BY <1>1, <1>3, <1>13 DEF vars, gitVars, callVars, Numbered
<1>14. QED
  BY <1>4, <1>5, <1>6, <1>7, <1>8, <1>9, <1>10, <1>11, <1>12, <1>13 DEF Next, CallStep

LEMMA UpdateInit == Init => UpdateInv
<1> SUFFICES ASSUME Init
             PROVE  UpdateInv
  OBVIOUS
<1>1. TypeOK
  BY DEF Init, TypeOK, RemoteTypeOK, RefsTypeOK, CloneTypeOK, CallTypeOK, Blank, Tree,
         Cell, Verdicts, Steps, Outcomes
<1>2. Blank \in Tree
  BY DEF Blank, Tree, Cell
<1>3. HeadIsReplay
  BY <1>2, AfterNothing DEF Init, HeadIsReplay, MainTree
<1>4. QED
  BY <1>1, <1>3 DEF Init, UpdateInv, NoLostUpdate, Numbered

\* No lost update: each push to main is the previous main plus the commits it carries,
\* however many clones fetch, rebase, retry, crash or lose the reply (land.py _integrate).
THEOREM NoUpdateIsLost == Spec => []NoLostUpdate
<1>1. UpdateInv => NoLostUpdate
  BY DEF UpdateInv
<1>2. QED
  BY <1>1, UpdateInit, UpdateStep, PTL DEF Spec

-----------------------------------------------------------------------------
(* No work is lost. *)

\* Of the commits that touch a path, one is the latest.
LEMMA LatestExists ==
    ASSUME NEW S \in SUBSET Commit, NEW N \in Nat, \A o \in S : o.n <= N,
           NEW p, NEW m \in S, Touches(m, p)
    PROVE  Latest(S, p) # {}
<1> DEFINE Left == {N - o.n : o \in {s \in S : Touches(s, p)}}
<1>1. Left \in SUBSET Nat /\ N - m.n \in Left
  BY DEF Commit
<1>2. PICK x \in Left : \A y \in Left : <<y, x>> \notin OpToRel(<, Nat)
  BY <1>1, NatLessThanWellFounded, WFMin
<1>3. PICK o \in S : Touches(o, p) /\ x = N - o.n
  BY <1>2
<1>4. ASSUME NEW s \in S, Touches(s, p)
      PROVE  s.n <= o.n
  <2>1. N - s.n \in Left /\ s.n \in Nat /\ o.n \in Nat
    BY <1>4 DEF Commit
  <2>2. ~ (N - s.n < N - o.n)
    BY <1>1, <1>2, <1>3, <2>1 DEF OpToRel
  <2>3. QED
    BY <2>1, <2>2
<1>5. QED
  BY <1>3, <1>4 DEF Latest

\* What a path holds after some commits, one of them wrote there, or none has touched it.
LEMMA AfterReads ==
    ASSUME NEW t, NEW S \in SUBSET Commit, NEW N \in Nat, \A o \in S : o.n <= N, NEW p \in Paths
    PROVE  \/ \E o \in S : Touches(o, p) /\ o.to[p] = After(t, S)[p]
           \/ After(t, S)[p] = t[p] /\ \A o \in S : ~ Touches(o, p)
<1>1. CASE Latest(S, p) = {}
  BY <1>1, LatestExists DEF After
<1>2. CASE Latest(S, p) # {}
  <2>1. PICK o \in Latest(S, p) : o = CHOOSE m \in Latest(S, p) : TRUE
    BY <1>2
  <2>2. After(t, S)[p] = o.to[p]
    BY <1>2, <2>1 DEF After
  <2>3. QED
    BY <2>1, <2>2 DEF Latest
<1>3. QED
  BY <1>1, <1>2

\* An accepted push leaves the earlier ones as they are and adds the clone's commits.
LEMMA AcceptAdds ==
    ASSUME UpdateInv, NEW c \in Clones, Accept(c)
    PROVE  /\ Len(main) \in Nat /\ base[c] = Len(main)
           /\ \A b \in 1 .. Len(main) : main'[b] = main[b]
           /\ ahead[c] = {} => main' = main
           /\ ahead[c] # {} => /\ Len(main') = Len(main) + 1
                               /\ main'[Len(main) + 1] = [commits |-> ahead[c], tree |-> head[c]]
<1> USE DEF UpdateInv, TypeOK
<1>1. Len(main) \in Nat /\ base[c] = Len(main)
  BY DEF RemoteTypeOK, Accept
<1>2. CASE ahead[c] = {}
  BY <1>1, <1>2 DEF Accept
<1>3. CASE ahead[c] # {}
  <2> DEFINE push == [commits |-> ahead[c], tree |-> head[c]]
  <2>1. main' = Append(main, push) /\ push \in Push
    BY <1>3 DEF Accept, CloneTypeOK, Push
  <2>2. QED
    BY <1>1, <1>3, <2>1 DEF RemoteTypeOK
<1>4. QED
  BY <1>2, <1>3

\* Main keeps telling where its contents come from.
LEMMA AcceptTells ==
    ASSUME WorkInv, NEW c \in Clones, Accept(c)
    PROVE  Told'
<1>1. UpdateInv /\ Told /\ TypeOK
  BY DEF WorkInv, UpdateInv
<1>2. /\ Len(main) \in Nat /\ base[c] = Len(main)
      /\ \A b \in 1 .. Len(main) : main'[b] = main[b]
      /\ ahead[c] = {} => main' = main
      /\ ahead[c] # {} => /\ Len(main') = Len(main) + 1
                          /\ main'[Len(main) + 1] = [commits |-> ahead[c], tree |-> head[c]]
  BY <1>1, AcceptAdds
<1>3. CASE ahead[c] = {}
  BY <1>1, <1>2, <1>3 DEF Told, MainTree
<1>4. CASE ahead[c] # {}
  <2>1. SUFFICES ASSUME NEW b \in 0 .. Len(main'), NEW p \in Paths
                 PROVE  \/ Wrote(main', b, p, SnapshotAt(main', b)[p])
                        \/ SnapshotAt(main', b)[p] = Absent /\ ~ Touched(main', b, p)
    BY DEF Told, MainTree, SnapshotAt
  <2>2. CASE b \in 0 .. Len(main)
    <3>1. SnapshotAt(main', b) = MainTree(b) /\ \A i \in 1 .. b : main'[i] = main[i]
      BY <1>2, <2>2 DEF SnapshotAt, MainTree
    <3>2. /\ Touched(main', b, p) <=> Touched(main, b, p)
          /\ \A v : Wrote(main', b, p, v) <=> Wrote(main, b, p, v)
      BY <3>1 DEF Touched, Wrote
    <3>3. QED
      BY <1>1, <2>2, <3>1, <3>2 DEF Told
  <2>3. CASE b = Len(main) + 1
    <3> DEFINE n == Len(main)
    <3>1. /\ main'[n + 1].commits = ahead[c] /\ SnapshotAt(main', b) = head[c]
          /\ head[c] = After(MainTree(n), ahead[c])
      BY <1>1, <1>2, <1>4, <2>3 DEF SnapshotAt, UpdateInv, HeadIsReplay
    <3>2. /\ ahead[c] \in SUBSET Commit /\ calls[c] \in Nat
          /\ \A o \in ahead[c] : o.n <= calls[c]
      BY <1>1 DEF TypeOK, CloneTypeOK, CallTypeOK, UpdateInv, Numbered
    <3>3. CASE \E o \in ahead[c] : Touches(o, p) /\ o.to[p] = head[c][p]
      BY <1>2, <2>3, <3>1, <3>3 DEF Wrote
    <3>4. CASE head[c][p] = MainTree(n)[p] /\ \A o \in ahead[c] : ~ Touches(o, p)
      <4>1. CASE Wrote(main, n, p, MainTree(n)[p])
        <5>1. PICK i \in 1 .. n : \E u \in main[i].commits : Touches(u, p) /\ u.to[p] = MainTree(n)[p]
          BY <4>1 DEF Wrote
        <5>2. i \in 1 .. n + 1 /\ main'[i] = main[i]
          BY <1>2, <5>1
        <5>3. QED
          BY <2>3, <3>1, <3>4, <5>1, <5>2 DEF Wrote
      <4>2. CASE MainTree(n)[p] = Absent /\ ~ Touched(main, n, p)
        <5>1. ~ Touched(main', n + 1, p)
          <6>1. SUFFICES ASSUME NEW i \in 1 .. n + 1, NEW u \in main'[i].commits, Touches(u, p)
                         PROVE  FALSE
            BY DEF Touched
          <6>2. CASE i = n + 1
            BY <3>1, <3>4, <6>1, <6>2
          <6>3. CASE i # n + 1
            BY <1>2, <4>2, <6>1, <6>3 DEF Touched
          <6>4. QED
            BY <6>2, <6>3
        <5>2. QED
          BY <2>3, <3>1, <3>4, <4>2, <5>1
      <4>3. Wrote(main, n, p, MainTree(n)[p]) \/ (MainTree(n)[p] = Absent /\ ~ Touched(main, n, p))
        BY <1>1, <1>2 DEF Told
      <4>4. QED
        BY <4>1, <4>2, <4>3
    <3>5. QED
      BY <3>1, <3>2, <3>3, <3>4, AfterReads
  <2>4. QED
    BY <1>2, <1>4, <2>2, <2>3
<1>5. QED
  BY <1>3, <1>4

\* What a rebase does with one commit: it replays it, or finds what it wrote at each path
\* on the new base or in an earlier commit that it does consider.
LEMMA RebaseFinds ==
    ASSUME WorkInv, NEW c \in Clones, NEW x \in ahead[c]
    PROVE  \/ \E r \in Replayed(c) : r.n = x.n /\ r.to = x.to
           \/ \A p \in DOMAIN x.to :
                 \/ Wrote(main, fetched[c], p, x.to[p])
                 \/ \E o \in Pending(c) : o.n < x.n /\ Touches(o, p) /\ o.to[p] = x.to[p]
<1>1. /\ TypeOK /\ x \in Commit /\ ahead[c] \in SUBSET Commit
      /\ base[c] \in Nat /\ fetched[c] \in Nat /\ Len(main) \in Nat
      /\ base[c] <= fetched[c] /\ fetched[c] <= Len(main)
  BY DEF WorkInv, UpdateInv, TypeOK, CloneTypeOK, RefsTypeOK, RemoteTypeOK
\* A commit that is skipped is on the new base.
<1>2. ASSUME NEW o \in ahead[c], o \notin Pending(c), NEW p \in DOMAIN o.to
      PROVE  Wrote(main, fetched[c], p, o.to[p]) /\ Touched(main, fetched[c], p)
  <2>1. PICK u \in Upstream(c) : u.to = o.to
    BY <1>2 DEF Pending
  <2>2. PICK b \in base[c] + 1 .. fetched[c] : u \in main[b].commits
    BY <2>1 DEF Upstream
  <2>3. b \in 1 .. fetched[c]
    BY <1>1, <2>2
  <2>4. QED
    BY <2>1, <2>2, <2>3 DEF Wrote, Touched, Touches
<1>3. CASE x \notin Pending(c)
  BY <1>2, <1>3
<1>4. CASE x \in Pending(c)
  <2> DEFINE r == [x EXCEPT !.from = [p \in DOMAIN x.to |-> Before(c, x)[p]]]
  <2>1. r.n = x.n /\ r.to = x.to /\ r.from = [p \in DOMAIN x.to |-> Before(c, x)[p]]
    BY <1>1 DEF Commit
  <2>2. CASE r.from # r.to
    BY <1>4, <2>1, <2>2 DEF Replayed
  <2>3. CASE r.from = r.to
    <3> SUFFICES ASSUME NEW p \in DOMAIN x.to
                 PROVE  \/ Wrote(main, fetched[c], p, x.to[p])
                        \/ \E o \in Pending(c) : o.n < x.n /\ Touches(o, p) /\ o.to[p] = x.to[p]
      OBVIOUS
    <3> DEFINE earlier == {o \in Pending(c) : o.n < x.n}
    <3>1. Before(c, x)[p] = x.to[p] /\ Before(c, x) = After(Tip(c), earlier)
      BY <2>1, <2>3 DEF Before
    <3>2. /\ p \in Paths /\ earlier \in SUBSET Commit /\ x.n \in Nat
          /\ \A o \in earlier : o.n <= x.n
      BY <1>1 DEF Commit, Patch, Pending
    <3>3. CASE \E o \in earlier : Touches(o, p) /\ o.to[p] = Before(c, x)[p]
      BY <3>1, <3>3
    <3>4. CASE Before(c, x)[p] = Tip(c)[p] /\ \A o \in earlier : ~ Touches(o, p)
      <4>1. \/ Wrote(main, fetched[c], p, Tip(c)[p])
            \/ Tip(c)[p] = Absent /\ ~ Touched(main, fetched[c], p)
        BY <1>1, <3>2 DEF WorkInv, Told, Tip
      <4>2. ASSUME Tip(c)[p] = Absent, ~ Touched(main, fetched[c], p)
            PROVE  FALSE
        <5>1. ~ Touched(main, base[c], p)
          BY <1>1, <4>2 DEF Touched
        <5>2. PICK o \in ahead[c] : o.n < x.n /\ Touches(o, p)
          BY <3>1, <3>4, <4>2, <5>1 DEF WorkInv, Removals
        <5>3. o \notin Pending(c)
          BY <3>4, <5>2
        <5>4. QED
          BY <1>2, <4>2, <5>2, <5>3 DEF Touches
      <4>3. QED
        BY <3>1, <3>4, <4>1, <4>2
    <3>5. QED
      BY <3>1, <3>2, <3>3, <3>4, AfterReads
  <2>4. QED
    BY <2>2, <2>3
<1>5. QED
  BY <1>3, <1>4

\* So what a commit wrote at a path is on the new base, or in a commit the rebase keeps
\* that is not later.
LEMMA RebaseKeeps ==
    ASSUME WorkInv, NEW c \in Clones, NEW p, NEW x \in ahead[c], Touches(x, p)
    PROVE  \/ Wrote(main, fetched[c], p, x.to[p])
           \/ \E r \in Replayed(c) : r.n <= x.n /\ Touches(r, p) /\ r.to[p] = x.to[p]
<1> DEFINE Kept(o) == \/ Wrote(main, fetched[c], p, o.to[p])
                      \/ \E r \in Replayed(c) : r.n <= o.n /\ Touches(r, p) /\ r.to[p] = o.to[p]
           Lost == {o.n : o \in {m \in ahead[c] : Touches(m, p) /\ ~ Kept(m)}}
<1>1. Lost \in SUBSET Nat /\ \A o \in ahead[c] : o.n \in Nat
  BY DEF WorkInv, UpdateInv, TypeOK, CloneTypeOK, Commit
<1>2. SUFFICES ASSUME ~ Kept(x)
               PROVE  FALSE
  OBVIOUS
<1>a. x.n \in Lost
  BY <1>2
<1>3. PICK n \in Lost : \A k \in Lost : <<k, n>> \notin OpToRel(<, Nat)
  BY <1>1, <1>a, NatLessThanWellFounded, WFMin
<1>4. PICK m \in ahead[c] : m.n = n /\ Touches(m, p) /\ ~ Kept(m)
  BY <1>3
<1>5. ~ \E r \in Replayed(c) : r.n = m.n /\ r.to = m.to
  BY <1>1, <1>4 DEF Touches
<1>6. PICK o \in Pending(c) : o.n < m.n /\ Touches(o, p) /\ o.to[p] = m.to[p]
  BY <1>4, <1>5, RebaseFinds DEF Touches
<1>7. o \in ahead[c] /\ o.n \in Nat /\ m.n \in Nat
  BY <1>1, <1>6 DEF Pending
<1>8. Kept(o)
  BY <1>1, <1>3, <1>4, <1>6, <1>7 DEF OpToRel
<1>9. QED
  <2>1. CASE Wrote(main, fetched[c], p, o.to[p])
    BY <1>4, <1>6, <2>1
  <2>2. ASSUME NEW r \in Replayed(c), r.n <= o.n, Touches(r, p), r.to[p] = o.to[p]
        PROVE  FALSE
    <3>1. r.n \in Nat
      BY <1>1 DEF Replayed, Pending, WorkInv, UpdateInv, TypeOK, CloneTypeOK, Commit
    <3>2. r.n <= m.n
      BY <1>6, <1>7, <2>2, <3>1
    <3>3. QED
      BY <1>4, <1>6, <2>2, <3>2
  <2>3. QED
    BY <1>8, <2>1, <2>2

\* A step that keeps main, what each clone builds on and its commits keeps where they come from.
LEMMA WorkFrame ==
    ASSUME Told, Removals, UNCHANGED <<main, base, ahead>>
    PROVE  Told' /\ Removals'
BY DEF Told, Removals, Wrote, Touched, MainTree

LEMMA WorkStep == WorkInv /\ [Next]_vars => WorkInv'
<1> SUFFICES ASSUME WorkInv, [Next]_vars
             PROVE  WorkInv'
  OBVIOUS
<1>1. UpdateInv /\ UpdateInv' /\ Told /\ Removals
  BY UpdateStep DEF WorkInv
<1>2. /\ \A c \in Clones : /\ base[c] \in Nat /\ base[c] <= Len(main) /\ calls[c] \in Nat
                           /\ ahead[c] \in SUBSET Commit /\ head[c] \in Tree /\ index[c] \in Tree
                           /\ fetched[c] \in Nat /\ base[c] <= fetched[c] /\ fetched[c] <= Len(main)
      /\ Len(main) \in Nat
  BY <1>1 DEF UpdateInv, TypeOK, RefsTypeOK, RemoteTypeOK, CloneTypeOK, CallTypeOK
<1>3. CASE UNCHANGED <<main, base, ahead>>
  BY <1>1, <1>3, WorkFrame DEF WorkInv
<1>4. ASSUME NEW c \in Clones, MakeCommit(c)
      PROVE  WorkInv'
  <2>1. CASE ahead' = ahead
    BY <1>3, <1>4, <2>1 DEF MakeCommit
  <2>2. CASE ahead' # ahead
    <3> DEFINE staged == {p \in Paths : index[c][p] # head[c][p]}
               mine == [n |-> calls[c], key |-> change[c],
                        from |-> [p \in staged |-> head[c][p]],
                        to |-> [p \in staged |-> index[c][p]]]
    <3>1. /\ UNCHANGED <<main, base>> /\ pc[c] = "staged"
          /\ ahead' = [ahead EXCEPT ![c] = @ \cup {mine}]
      BY <1>4, <2>2 DEF MakeCommit
    <3>2. Told'
      BY <1>1, <3>1 DEF Told, Wrote, Touched, MainTree
    <3>3. ahead'[c] = ahead[c] \cup {mine} /\ \A d \in Clones \ {c} : ahead'[d] = ahead[d]
      BY <1>1, <3>1 DEF UpdateInv, TypeOK, CloneTypeOK
    <3>4. ASSUME NEW p \in DOMAIN mine.to, mine.to[p] = Absent
          PROVE  \/ Touched(main, base[c], p)
                 \/ \E o \in ahead[c] : o.n < mine.n /\ Touches(o, p)
      <4>1. p \in Paths /\ head[c][p] # Absent /\ mine.n = calls[c]
        BY <3>4
      <4>2. /\ head[c] = After(MainTree(base[c]), ahead[c])
            /\ \A o \in ahead[c] : o.n < calls[c] /\ o.n <= calls[c]
        BY <1>1, <3>1 DEF UpdateInv, HeadIsReplay, Numbered
      <4>3. \/ \E o \in ahead[c] : Touches(o, p)
            \/ head[c][p] = MainTree(base[c])[p]
        BY <1>2, <4>1, <4>2, AfterReads
      <4>4. CASE head[c][p] = MainTree(base[c])[p]
        <5>1. Wrote(main, base[c], p, MainTree(base[c])[p])
          BY <1>1, <1>2, <4>1, <4>4 DEF Told
        <5>2. QED
          BY <5>1 DEF Wrote, Touched
      <4>5. QED
        BY <4>1, <4>2, <4>3, <4>4
    <3>5. Removals'
      <4>1. SUFFICES ASSUME NEW d \in Clones, NEW m \in ahead'[d], NEW p \in DOMAIN m.to,
                            m.to[p] = Absent
                     PROVE  \/ Touched(main, base[d], p)
                            \/ \E o \in ahead'[d] : o.n < m.n /\ Touches(o, p)
        BY <3>1 DEF Removals, Touched
      <4>2. ahead[d] \subseteq ahead'[d]
        BY <3>3
      <4>3. CASE m \in ahead[d]
        BY <1>1, <4>1, <4>2, <4>3 DEF Removals
      <4>4. CASE m \notin ahead[d]
        <5>1. d = c /\ m = mine
          BY <3>3, <4>4
        <5>2. QED
          BY <3>4, <4>1, <4>2, <5>1
      <4>5. QED
        BY <4>3, <4>4
    <3>6. QED
      BY <1>1, <3>2, <3>5 DEF WorkInv
  <2>3. QED
    BY <2>1, <2>2
<1>5. ASSUME NEW c \in Clones, Rebase(c)
      PROVE  WorkInv'
  <2>1. CASE Refuses(c) \/ Conflicts(c)
    BY <1>3, <1>5, <2>1 DEF Rebase
  <2>2. CASE ~ (Refuses(c) \/ Conflicts(c))
    <3>1. /\ main' = main /\ base' = [base EXCEPT ![c] = fetched[c]]
          /\ ahead' = [ahead EXCEPT ![c] = Replayed(c)]
      BY <1>5, <2>2 DEF Rebase
    <3>2. Told'
      BY <1>1, <3>1 DEF Told, Wrote, Touched, MainTree
    <3>3. /\ ahead'[c] = Replayed(c) /\ base'[c] = fetched[c]
          /\ \A d \in Clones \ {c} : ahead'[d] = ahead[d] /\ base'[d] = base[d]
      BY <1>1, <3>1 DEF UpdateInv, TypeOK, CloneTypeOK, RefsTypeOK
    <3>4. ASSUME NEW r \in Replayed(c), NEW p \in DOMAIN r.to, r.to[p] = Absent
          PROVE  \/ Touched(main, fetched[c], p)
                 \/ \E o \in Replayed(c) : o.n < r.n /\ Touches(o, p)
      <4>1. PICK m \in Pending(c) : r = [m EXCEPT !.from = [q \in DOMAIN m.to |-> Before(c, m)[q]]]
        BY DEF Replayed
      <4>2. m \in ahead[c] /\ m \in Commit
        BY <1>2, <4>1 DEF Pending
      <4>3. r.n = m.n /\ r.to = m.to /\ m.n \in Nat
        BY <4>1, <4>2 DEF Commit
      <4>4. \/ Touched(main, base[c], p)
            \/ \E o \in ahead[c] : o.n < m.n /\ Touches(o, p)
        BY <1>1, <3>4, <4>2, <4>3 DEF Removals
      <4>5. CASE Touched(main, base[c], p)
        BY <1>2, <4>5 DEF Touched
      <4>6. ASSUME NEW o \in ahead[c], o.n < m.n, Touches(o, p)
            PROVE  \/ Touched(main, fetched[c], p)
                   \/ \E k \in Replayed(c) : k.n < r.n /\ Touches(k, p)
        <5>1. \/ Wrote(main, fetched[c], p, o.to[p])
              \/ \E k \in Replayed(c) : k.n <= o.n /\ Touches(k, p) /\ k.to[p] = o.to[p]
          BY <4>6, RebaseKeeps
        <5>2. o.n \in Nat /\ \A k \in Replayed(c) : k.n \in Nat
          BY <1>2 DEF Replayed, Pending, Commit
        <5>3. QED
          BY <4>3, <4>6, <5>1, <5>2 DEF Wrote, Touched
      <4>7. QED
        BY <4>4, <4>5, <4>6
    <3>5. Removals'
      <4>1. SUFFICES ASSUME NEW d \in Clones, NEW m \in ahead'[d], NEW p \in DOMAIN m.to,
                            m.to[p] = Absent
                     PROVE  \/ Touched(main, base'[d], p)
                            \/ \E o \in ahead'[d] : o.n < m.n /\ Touches(o, p)
        BY <3>1 DEF Removals, Touched
      <4>2. CASE d = c
        BY <3>3, <3>4, <4>1, <4>2
      <4>3. CASE d # c
        BY <1>1, <3>3, <4>1, <4>3 DEF Removals
      <4>4. QED
        BY <4>2, <4>3
    <3>6. QED
      BY <1>1, <3>2, <3>5 DEF WorkInv
  <2>3. QED
    BY <2>1, <2>2
<1>6. ASSUME NEW c \in Clones, PushLands(c) \/ PushUnacknowledged(c)
      PROVE  WorkInv'
  <2>1. Accept(c)
    BY <1>6 DEF PushLands, PushUnacknowledged
  <2>2. Told'
    BY <2>1, AcceptTells
  <2>3. \A b \in 1 .. Len(main) : main'[b] = main[b]
    BY <1>1, <2>1, AcceptAdds
  <2>4. \A d \in Clones : ahead'[d] = {} \/ (ahead'[d] = ahead[d] /\ base'[d] = base[d])
    BY <1>1, <1>6 DEF PushLands, PushUnacknowledged, UpdateInv, TypeOK, CloneTypeOK, RefsTypeOK
  <2>5. Removals'
    <3>1. SUFFICES ASSUME NEW d \in Clones, NEW m \in ahead'[d], NEW p \in DOMAIN m.to,
                          m.to[p] = Absent
                   PROVE  \/ Touched(main', base'[d], p)
                          \/ \E o \in ahead'[d] : o.n < m.n /\ Touches(o, p)
      BY DEF Removals, Touched
    <3>2. ahead'[d] = ahead[d] /\ base'[d] = base[d]
      BY <2>4, <3>1
    <3>3. Touched(main, base[d], p) => Touched(main', base[d], p)
      BY <1>2, <2>3 DEF Touched
    <3>4. QED
      BY <1>1, <3>1, <3>2, <3>3 DEF Removals
  <2>6. QED
    BY <1>1, <2>2, <2>5 DEF WorkInv
<1>7. QED
  <2>1. CASE \E c \in Clones : MakeCommit(c) \/ Rebase(c) \/ PushLands(c) \/ PushUnacknowledged(c)
    BY <1>4, <1>5, <1>6, <2>1
  <2>2. CASE ~ \E c \in Clones : MakeCommit(c) \/ Rebase(c) \/ PushLands(c) \/ PushUnacknowledged(c)
    <3>1. UNCHANGED <<main, base, ahead>>
      BY <2>2 DEF Next, CallStep, Begin, Stage, Timeout, Fetch, Validate, CheckStatus, PushRejected,
         Crash, Edit, CIReport, vars, gitVars
    <3>2. QED
      BY <1>3, <3>1
  <2>3. QED
    BY <2>1, <2>2

\* No commit of a clone goes without main, or an earlier commit of the clone that stays,
\* holding what it wrote: through rebases that skip or empty it, conflicts, contention,
\* kills and lost replies (land.py _integrate).
THEOREM WorkIsKept == Spec => NoWorkLost
<1>1. Init => WorkInv
  <2>1. SUFFICES ASSUME Init
                 PROVE  WorkInv
    OBVIOUS
  <2>2. UpdateInv
    BY <2>1, UpdateInit
  <2>3. Told
    BY <2>1 DEF Init, Told, MainTree, Blank, Touched
  <2>4. Removals
    BY <2>1 DEF Init, Removals
  <2>5. QED
    BY <2>2, <2>3, <2>4 DEF WorkInv
<1>2. ASSUME WorkInv, [Next]_vars, NEW c \in Clones, NEW m \in ahead[c]
      PROVE  \/ \E k \in ahead'[c] : k.n = m.n /\ k.to = m.to
             \/ \A p \in DOMAIN m.to :
                   \/ Wrote(main', Len(main'), p, m.to[p])
                   \/ \E k \in ahead'[c] : k.n < m.n /\ Touches(k, p) /\ k.to[p] = m.to[p]
  <2>0. UpdateInv /\ ahead[c] \in SUBSET Commit /\ fetched[c] \in Nat /\ Len(main) \in Nat
        /\ fetched[c] <= Len(main)
    BY <1>2 DEF WorkInv, UpdateInv, TypeOK, CloneTypeOK, RefsTypeOK, RemoteTypeOK
  <2>1. CASE m \in ahead'[c]
    BY <2>1
  <2>2. ASSUME Rebase(c), ~ (Refuses(c) \/ Conflicts(c))
        PROVE  \/ \E k \in ahead'[c] : k.n = m.n /\ k.to = m.to
               \/ \A p \in DOMAIN m.to :
                     \/ Wrote(main', Len(main'), p, m.to[p])
                     \/ \E k \in ahead'[c] : k.n < m.n /\ Touches(k, p) /\ k.to[p] = m.to[p]
    <3>1. main' = main /\ ahead'[c] = Replayed(c)
      BY <2>0, <2>2 DEF Rebase, UpdateInv, TypeOK, CloneTypeOK
    <3>2. CASE \E r \in Replayed(c) : r.n = m.n /\ r.to = m.to
      BY <3>1, <3>2
    <3>3. ASSUME NEW p \in DOMAIN m.to, ~ \E r \in Replayed(c) : r.n = m.n /\ r.to = m.to
          PROVE  \/ Wrote(main, Len(main), p, m.to[p])
                 \/ \E k \in Replayed(c) : k.n < m.n /\ Touches(k, p) /\ k.to[p] = m.to[p]
      <4>1. \A v : Wrote(main, fetched[c], p, v) => Wrote(main, Len(main), p, v)
        BY <2>0 DEF Wrote
      <4>2. \/ Wrote(main, fetched[c], p, m.to[p])
            \/ \E o \in Pending(c) : o.n < m.n /\ Touches(o, p) /\ o.to[p] = m.to[p]
        BY <1>2, <3>3, RebaseFinds
      <4>3. ASSUME NEW o \in Pending(c), o.n < m.n, Touches(o, p), o.to[p] = m.to[p]
            PROVE  \/ Wrote(main, fetched[c], p, m.to[p])
                   \/ \E k \in Replayed(c) : k.n < m.n /\ Touches(k, p) /\ k.to[p] = m.to[p]
        <5>1. o \in ahead[c] /\ o.n \in Nat /\ m.n \in Nat /\ \A k \in Replayed(c) : k.n \in Nat
          BY <2>0 DEF Replayed, Pending, Commit
        <5>2. \/ Wrote(main, fetched[c], p, o.to[p])
              \/ \E r \in Replayed(c) : r.n <= o.n /\ Touches(r, p) /\ r.to[p] = o.to[p]
          BY <1>2, <4>3, <5>1, RebaseKeeps
        <5>3. QED
          BY <4>3, <5>1, <5>2
      <4>4. QED
        BY <4>1, <4>2, <4>3
    <3>4. QED
      BY <3>1, <3>2, <3>3
  <2>3. ASSUME PushLands(c)
        PROVE  \A p \in DOMAIN m.to : Wrote(main', Len(main'), p, m.to[p])
    <3>1. Accept(c) /\ ahead[c] # {}
      BY <2>3 DEF PushLands
    <3>2. /\ Len(main') = Len(main) + 1
          /\ main'[Len(main) + 1] = [commits |-> ahead[c], tree |-> head[c]]
      BY <2>0, <3>1, AcceptAdds
    <3>3. QED
      BY <2>0, <3>2 DEF Wrote, Touches
  <2>4. CASE m \notin ahead'[c]
    <3>1. Rebase(c) \/ PushLands(c)
      <4>1. ahead' # ahead
        BY <2>4
      <4>2. PICK d \in Clones : MakeCommit(d) \/ Rebase(d) \/ PushLands(d)
        BY <1>2, <4>1 DEF Next, CallStep, Begin, Stage, Timeout, Fetch, Validate, CheckStatus,
           PushRejected, PushUnacknowledged, Crash, Edit, CIReport, vars, gitVars
      <4>3. CASE MakeCommit(d)
        <5>1. PICK x : ahead' = [ahead EXCEPT ![d] = @ \cup {x}]
          BY <4>1, <4>3 DEF MakeCommit
        <5>2. QED
          BY <2>0, <2>4, <5>1 DEF UpdateInv, TypeOK, CloneTypeOK
      <4>4. CASE Rebase(d) \/ PushLands(d)
        <5>1. ahead' = [ahead EXCEPT ![d] = ahead'[d]]
          BY <2>0, <4>4 DEF Rebase, PushLands, UpdateInv, TypeOK, CloneTypeOK
        <5>2. QED
          BY <2>0, <2>4, <4>4, <5>1 DEF UpdateInv, TypeOK, CloneTypeOK
      <4>5. QED
        BY <4>2, <4>3, <4>4
    <3>2. CASE PushLands(c)
      BY <2>3, <3>2
    <3>3. CASE Rebase(c)
      <4>1. ~ (Refuses(c) \/ Conflicts(c))
        BY <2>4, <3>3 DEF Rebase
      <4>2. QED
        BY <2>2, <3>3, <4>1
    <3>4. QED
      BY <3>1, <3>2, <3>3
  <2>5. QED
    BY <2>1, <2>4
<1>3. WorkInv /\ [Next]_vars =>
        [\A c \in Clones : \A m \in ahead[c] :
            \/ \E k \in ahead'[c] : k.n = m.n /\ k.to = m.to
            \/ \A p \in DOMAIN m.to :
                  \/ Wrote(main', Len(main'), p, m.to[p])
                  \/ \E k \in ahead'[c] : k.n < m.n /\ Touches(k, p) /\ k.to[p] = m.to[p]]_vars
  BY <1>2
<1>4. QED
  BY <1>1, <1>3, WorkStep, PTL DEF Spec, NoWorkLost

-----------------------------------------------------------------------------
(* A gated push extends a head that was green. *)

\* Every step keeps the gate: only a push moves main, and only a green head passes.
LEMMA GateStep == GateInv /\ [Next]_vars => GateInv'
<1> SUFFICES ASSUME GateInv, [Next]_vars
             PROVE  GateInv'
  OBVIOUS
<1> USE DEF GateInv
<1>1. TypeOK'
  BY TypeStep
<1>2. Len(main) \in Nat /\ \A d \in Clones : fetched[d] \in 0 .. Len(main)
  BY DEF TypeOK, RemoteTypeOK, RefsTypeOK
<1>3. ASSUME NEW c \in Clones, NEW ch \in Changes, Begin(c, ch)
      PROVE  Gate'
  <2>1. UNCHANGED <<main, ci, base, fetched, wasGreen>>
    BY <1>3 DEF Begin
  <2>2. \A d \in Clones : pc'[d] = pc[d] \/ pc'[d] = "written"
    BY <1>3 DEF Begin, Goto, TypeOK, CallTypeOK
  <2>3. QED
    BY <2>1, <2>2 DEF Gate
<1>4. ASSUME NEW c \in Clones, Stage(c) \/ MakeCommit(c) \/ Timeout(c) \/ PushRejected(c) \/ Crash(c)
      PROVE  Gate'
  BY <1>4 DEF Gate, Stage, MakeCommit, Timeout, PushRejected, Crash, RetryOrGiveUp, Return,
              Goto, gitVars, history, TypeOK, CallTypeOK
<1>5. ASSUME NEW c \in Clones, Fetch(c)
      PROVE  Gate'
  BY <1>5 DEF Gate, Fetch, Goto, history, TypeOK, CallTypeOK, RefsTypeOK
<1>6. ASSUME NEW c \in Clones, Rebase(c)
      PROVE  Gate'
  <2>1. UNCHANGED <<main, ci, fetched, wasGreen>>
    BY <1>6 DEF Rebase, history
  <2>2. \/ base' = base /\ pc' = [pc EXCEPT ![c] = "idle"]
        \/ base' = [base EXCEPT ![c] = fetched[c]] /\ pc' = [pc EXCEPT ![c] = "rebased"]
    BY <1>6 DEF Rebase, Return, Goto
  <2>3. QED
    BY <2>1, <2>2 DEF Gate, TypeOK, CallTypeOK, RefsTypeOK
<1>7. ASSUME NEW c \in Clones, Validate(c)
      PROVE  Gate'
  BY <1>7 DEF Gate, Validate, Return, Goto, gitVars, history, TypeOK, CallTypeOK
<1>8. ASSUME NEW c \in Clones, CheckStatus(c)
      PROVE  Gate'
  BY <1>2, <1>8 DEF Gate, CheckStatus, Return, Goto, gitVars, history, TypeOK, CallTypeOK
<1>9. ASSUME NEW c \in Clones, Accept(c), UNCHANGED wasGreen
      PROVE  \A b \in 0 .. Len(main') : ci'[b] = "green" => b \in wasGreen'
  <2>1. CASE ahead[c] = {}
    BY <1>9, <2>1 DEF Gate, Accept
  <2>2. CASE ahead[c] # {}
    <3>1. /\ main' = Append(main, [commits |-> ahead[c], tree |-> head[c]])
          /\ ci' = [b \in 0 .. Len(main) + 1 |-> IF b \in DOMAIN ci THEN ci[b] ELSE "unknown"]
      BY <1>9, <2>2 DEF Accept
    <3>2. [commits |-> ahead[c], tree |-> head[c]] \in Push
      BY DEF TypeOK, CloneTypeOK, Push
    <3>3. Len(main') = Len(main) + 1 /\ DOMAIN ci = 0 .. Len(main)
      BY <3>1, <3>2 DEF TypeOK, RemoteTypeOK
    <3>4. QED
      BY <1>2, <1>9, <3>1, <3>3 DEF Gate
  <2>3. QED
    BY <2>1, <2>2
<1>10. ASSUME NEW c \in Clones, PushLands(c) \/ PushUnacknowledged(c)
       PROVE  Gate'
  <2>1. Accept(c) /\ wasGreen' = wasGreen
    BY <1>10 DEF PushLands, PushUnacknowledged, history
  <2>2. \A b \in 0 .. Len(main') : ci'[b] = "green" => b \in wasGreen'
    BY <1>9, <2>1
  <2>3. ASSUME NEW d \in Clones
        PROVE  /\ pc'[d] \in {"rebased", "validated", "checked"} => base'[d] = fetched'[d]
               /\ Gated /\ pc'[d] = "checked" => fetched'[d] \in wasGreen'
    BY <1>10, <2>1 DEF Gate, PushLands, PushUnacknowledged, RetryOrGiveUp, Return, Goto,
                       TypeOK, CallTypeOK, RefsTypeOK
  <2>4. QED
    BY <2>2, <2>3 DEF Gate
<1>11. ASSUME NEW c \in Clones, NEW p \in Paths, NEW x \in Contents, Edit(c, p, x)
       PROVE  Gate'
  BY <1>11 DEF Gate, Edit, callVars, history
<1>12. ASSUME NEW b \in 0 .. Len(main), NEW v \in {"green", "red"}, CIReport(b, v)
       PROVE  Gate'
  <2>1. UNCHANGED <<main, base, fetched, pc>> /\ wasGreen \subseteq wasGreen'
    BY <1>12 DEF CIReport, gitVars, callVars
  <2>2. \A d \in 0 .. Len(main) : ci'[d] = "green" => d \in wasGreen'
    BY <1>12 DEF Gate, CIReport, TypeOK, RemoteTypeOK
  <2>3. QED
    BY <2>1, <2>2 DEF Gate
<1>13. CASE UNCHANGED vars
  <2>1. UNCHANGED <<main, ci, base, fetched, pc, wasGreen>>
    BY <1>13 DEF vars, gitVars, callVars, history
  <2>2. QED
    BY <1>1, <2>1 DEF Gate
<1>14. QED
  BY <1>1, <1>3, <1>4, <1>5, <1>6, <1>7, <1>8, <1>10, <1>11, <1>12, <1>13 DEF Next, CallStep

\* A gated clone never grows main past a head that CI had not reported green: the push
\* that main refuses is what re-arms the gate after a race (land.py _integrate).
THEOREM GateHolds == Spec => PushedOnGreen
<1>1. Init => GateInv
  <2>1. Init => TypeOK
    BY DEF Init, TypeOK, RemoteTypeOK, RefsTypeOK, CloneTypeOK, CallTypeOK, Blank, Tree,
           Cell, Verdicts, Steps, Outcomes
  <2>2. QED
    BY <2>1 DEF Init, GateInv, Gate
<1>2. GateInv /\ [Next]_vars => [Gated => Len(main) \in wasGreen]_main
  <2> SUFFICES ASSUME GateInv, [Next]_vars, main' # main, Gated
               PROVE  Len(main) \in wasGreen
    OBVIOUS
  <2>1. PICK c \in Clones : PushLands(c) \/ PushUnacknowledged(c)
    BY DEF Next, CallStep, Begin, Stage, MakeCommit, Timeout, Fetch, Rebase, Validate,
           CheckStatus, PushRejected, Crash, Edit, CIReport, vars, gitVars
  <2>2. pc[c] = "checked" /\ base[c] = Len(main)
    BY <2>1 DEF PushLands, PushUnacknowledged, Accept
  <2>3. QED
    BY <2>2 DEF GateInv, Gate
<1>3. QED
  BY <1>1, <1>2, GateStep, PTL DEF Spec, PushedOnGreen

-----------------------------------------------------------------------------
(* What is validated is what is pushed, as long as no call is cut off. *)

\* An accepted push of a valid HEAD leaves main valid.
LEMMA AcceptValid ==
    ASSUME RemoteTypeOK, CloneTypeOK, MainStaysValid, NEW c \in Clones, Valid(head[c]), Accept(c)
    PROVE  MainStaysValid'
<1>1. CASE ahead[c] = {}
  BY <1>1 DEF Accept, MainStaysValid, MainTree, Valid
<1>2. CASE ahead[c] # {}
  <2> DEFINE push == [commits |-> ahead[c], tree |-> head[c]]
  <2>1. main' = Append(main, push)
    BY <1>2 DEF Accept
  <2>2. push \in Push /\ Len(main) \in Nat
    BY DEF CloneTypeOK, RemoteTypeOK, Push
  <2>3. Len(main') = Len(main) + 1 /\ main'[Len(main) + 1] = push
        /\ \A b \in 1 .. Len(main) : main'[b] = main[b]
    BY <2>1, <2>2 DEF RemoteTypeOK
  <2>4. SUFFICES ASSUME NEW b \in 0 .. Len(main')
                 PROVE  Valid(SnapshotAt(main', b))
    BY DEF MainStaysValid, MainTree, SnapshotAt, Valid
  <2>5. CASE b \in 0 .. Len(main)
    <3>1. SnapshotAt(main', b) = MainTree(b)
      BY <2>2, <2>3, <2>5 DEF SnapshotAt, MainTree
    <3>2. QED
      BY <2>5, <3>1 DEF MainStaysValid
  <2>6. CASE b = Len(main) + 1
    BY <2>2, <2>3, <2>6 DEF SnapshotAt
  <2>7. QED
    BY <2>2, <2>3, <2>5, <2>6
<1>3. QED
  BY <1>1, <1>2

\* A clone whose disk, index, HEAD and position stay as they are stays in sync.
LEMMA InSyncKept ==
    ASSUME NEW d \in Clones, InSync(d), head'[d] = head[d], index'[d] = index[d],
           tree'[d] = tree[d], pc'[d] = pc[d], change'[d] = change[d]
    PROVE  InSync(d)'
BY DEF InSync, Overwrite, Valid

\* With no crash and no outside edit, every step keeps disk, index and HEAD together.
LEMMA ValidStep ==
    ASSUME MaxCrashes = 0, MaxEdits = 0
    PROVE  ValidInv /\ [Next]_vars => ValidInv'
<1> SUFFICES ASSUME ValidInv, [Next]_vars
             PROVE  ValidInv'
  OBVIOUS
<1>1. TypeOK'
  BY TypeStep DEF ValidInv
<1>2. /\ crashes = 0 /\ edits = 0 /\ MainStaysValid
      /\ RemoteTypeOK /\ CloneTypeOK /\ CallTypeOK
      /\ \A d \in Clones : InSync(d)
  BY DEF ValidInv, TypeOK
<1>3. ASSUME UNCHANGED main
      PROVE  MainStaysValid'
  BY <1>2, <1>3 DEF MainStaysValid, MainTree, Valid
<1>4. ASSUME UNCHANGED budgets, MainStaysValid',
             NEW c \in Clones, InSync(c)',
             \A d \in Clones \ {c} : /\ head'[d] = head[d] /\ index'[d] = index[d]
                                     /\ tree'[d] = tree[d] /\ pc'[d] = pc[d]
                                     /\ change'[d] = change[d]
      PROVE  ValidInv'
  <2>1. \A d \in Clones : InSync(d)'
    BY <1>2, <1>4, InSyncKept
  <2>2. QED
    BY <1>1, <1>2, <1>4, <2>1 DEF ValidInv, budgets
<1> USE DEF CloneTypeOK, CallTypeOK
<1>5. ASSUME NEW c \in Clones, NEW ch \in Changes, Begin(c, ch)
      PROVE  ValidInv'
  <2>1. /\ UNCHANGED <<main, head, index, budgets>>
        /\ \A d \in Clones \ {c} : tree'[d] = tree[d] /\ pc'[d] = pc[d] /\ change'[d] = change[d]
    BY <1>2, <1>5 DEF Begin, Goto
  <2>2. InSync(c)'
    <3>1. CASE ch \in KeysInHistory(c)
      BY <1>2, <1>5, <3>1, InSyncKept DEF Begin
    <3>2. CASE ch \notin KeysInHistory(c)
      <4>1. /\ pc'[c] = "written" /\ change'[c] = ch /\ tree'[c] = Overwrite(tree[c], ch)
            /\ tree[c] = index[c] /\ index[c] = head[c]
        BY <1>2, <1>5, <3>2 DEF Begin, Goto, InSync
      <4>2. QED
        BY <2>1, <4>1 DEF InSync, Overwrite
    <3>3. QED
      BY <3>1, <3>2
  <2>3. QED
    BY <1>3, <1>4, <2>1, <2>2
<1>6. ASSUME NEW c \in Clones, Stage(c)
      PROVE  ValidInv'
  <2>1. /\ UNCHANGED <<main, head, tree, change, budgets>>
        /\ \A d \in Clones \ {c} : index'[d] = index[d] /\ pc'[d] = pc[d]
    BY <1>2, <1>6 DEF Stage, Goto
  <2>2. InSync(c)'
    <3>1. /\ pc'[c] = "staged"
          /\ index'[c] = [p \in Paths |-> IF p \in DOMAIN change[c] THEN tree[c][p] ELSE index[c][p]]
          /\ tree[c] = Overwrite(index[c], change[c])
      BY <1>2, <1>6 DEF Stage, Goto, InSync
    <3>2. index'[c] = tree[c]
      BY <3>1 DEF Overwrite
    <3>3. QED
      BY <2>1, <3>1, <3>2 DEF InSync
  <2>3. QED
    BY <1>3, <1>4, <2>1, <2>2
<1>7. ASSUME NEW c \in Clones, MakeCommit(c)
      PROVE  ValidInv'
  <2>1. /\ UNCHANGED <<main, index, tree, budgets>>
        /\ \A d \in Clones \ {c} : head'[d] = head[d] /\ pc'[d] = pc[d] /\ change'[d] = change[d]
    BY <1>2, <1>7 DEF MakeCommit, Return, Goto
  <2>2. InSync(c)'
    <3>1. tree[c] = index[c]
      BY <1>2, <1>7 DEF MakeCommit, InSync
    <3>2. head'[c] = index[c] /\ pc'[c] \in {"idle", "committed"}
      <4>1. CASE {p \in Paths : index[c][p] # head[c][p]} = {}
        BY <1>2, <1>7, <4>1 DEF MakeCommit, Return, Goto, Tree
      <4>2. CASE {p \in Paths : index[c][p] # head[c][p]} # {}
        BY <1>2, <1>7, <4>2 DEF MakeCommit, Goto
      <4>3. QED
        BY <4>1, <4>2
    <3>3. QED
      BY <2>1, <3>1, <3>2 DEF InSync
  <2>3. QED
    BY <1>3, <1>4, <2>1, <2>2
<1>8. ASSUME NEW c \in Clones,
             Timeout(c) \/ Fetch(c) \/ Validate(c) \/ CheckStatus(c) \/ PushRejected(c)
      PROVE  ValidInv'
  <2>1. /\ UNCHANGED <<main, head, index, tree, budgets>>
        /\ \A d \in Clones \ {c} : pc'[d] = pc[d] /\ change'[d] = change[d]
    BY <1>2, <1>8 DEF Timeout, Fetch, Validate, CheckStatus, PushRejected, RetryOrGiveUp,
                      Return, Goto, gitVars
  <2>2. pc[c] \notin {"written", "staged"}
    BY <1>8 DEF Timeout, Fetch, Validate, CheckStatus, PushRejected
  <2>3. \/ pc'[c] \in {"idle", "committed", "fetched", "rebased"}
        \/ Valid(head[c]) /\ pc'[c] \in {"validated", "checked"}
    BY <1>2, <1>8 DEF Timeout, Fetch, Validate, CheckStatus, PushRejected, RetryOrGiveUp,
                      Return, Goto, InSync
  <2>4. InSync(c)'
    <3>1. InSync(c) /\ head'[c] = head[c] /\ index'[c] = index[c] /\ tree'[c] = tree[c]
      BY <1>2, <2>1
    <3>2. QED
      BY <2>2, <2>3, <3>1 DEF InSync, Valid
  <2>5. QED
    BY <1>3, <1>4, <2>1, <2>4
<1>9. ASSUME NEW c \in Clones, Rebase(c)
      PROVE  ValidInv'
  <2>1. /\ UNCHANGED <<main, budgets>>
        /\ \A d \in Clones \ {c} :
             /\ head'[d] = head[d] /\ index'[d] = index[d] /\ tree'[d] = tree[d]
             /\ pc'[d] = pc[d] /\ change'[d] = change[d]
    BY <1>2, <1>9 DEF Rebase, Return, Goto
  <2>2. InSync(c)'
    <3>1. CASE Refuses(c) \/ Conflicts(c)
      <4>1. InSync(c) /\ head'[c] = head[c] /\ index'[c] = index[c] /\ tree'[c] = tree[c]
        BY <1>2, <1>9, <3>1 DEF Rebase
      <4>2. pc[c] = "fetched" /\ pc'[c] = "idle"
        BY <1>2, <1>9, <3>1 DEF Rebase, Return, Goto
      <4>3. QED
        BY <4>1, <4>2 DEF InSync, Valid
    <3>2. CASE ~(Refuses(c) \/ Conflicts(c))
      <4>1. \A p \in Paths : ~Untracked(c, p)
        BY <1>2, <1>9 DEF Rebase, InSync, Untracked
      <4>2. tree' = [tree EXCEPT ![c] = [p \in Paths |-> IF Untracked(c, p) THEN tree[c][p]
                                                         ELSE head'[c][p]]]
        BY <1>9, <3>2 DEF Rebase
      <4>3. index'[c] = head'[c] /\ pc'[c] = "rebased"
        BY <1>2, <1>9, <3>2 DEF Rebase, Goto
      <4>4. tree'[c] = [p \in Paths |-> head'[c][p]]
        BY <1>2, <4>1, <4>2
      <4>5. tree'[c] = head'[c]
        BY <1>1, <4>4 DEF TypeOK, Tree
      <4>6. QED
        BY <4>3, <4>5 DEF InSync
    <3>3. QED
      BY <3>1, <3>2
  <2>3. QED
    BY <1>3, <1>4, <2>1, <2>2
<1>10. ASSUME NEW c \in Clones, PushLands(c) \/ PushUnacknowledged(c)
       PROVE  ValidInv'
  <2>1. /\ UNCHANGED <<head, index, tree, budgets>>
        /\ \A d \in Clones \ {c} : pc'[d] = pc[d] /\ change'[d] = change[d]
        /\ pc[c] = "checked" /\ pc'[c] \in {"idle", "committed"} /\ Accept(c)
    BY <1>2, <1>10 DEF PushLands, PushUnacknowledged, RetryOrGiveUp, Return, Goto
  <2>2. Valid(head[c])
    BY <1>2, <2>1 DEF InSync
  <2>3. MainStaysValid'
    BY <1>2, <2>1, <2>2, AcceptValid
  <2>4. InSync(c)'
    <3>1. InSync(c) /\ head'[c] = head[c] /\ index'[c] = index[c] /\ tree'[c] = tree[c]
      BY <1>2, <2>1
    <3>2. QED
      BY <2>1, <3>1 DEF InSync, Valid
  <2>5. QED
    BY <1>4, <2>1, <2>3, <2>4
<1>11. ASSUME NEW b \in 0 .. Len(main), NEW v \in {"green", "red"}, CIReport(b, v)
       PROVE  ValidInv'
  <2>1. UNCHANGED <<main, head, index, tree, pc, change, budgets>>
    BY <1>11 DEF CIReport, gitVars, callVars
  <2>2. \A d \in Clones : InSync(d)'
    BY <1>2, <2>1, InSyncKept
  <2>3. QED
    BY <1>1, <1>2, <1>3, <2>1, <2>2 DEF ValidInv, budgets
<1>12. CASE UNCHANGED vars
  <2>1. UNCHANGED <<main, head, index, tree, pc, change, budgets>>
    BY <1>12 DEF vars, gitVars, callVars
  <2>2. \A d \in Clones : InSync(d)'
    BY <1>2, <2>1, InSyncKept
  <2>3. QED
    BY <1>1, <1>2, <1>3, <2>1, <2>2 DEF ValidInv, budgets
<1>13. ASSUME NEW c \in Clones
       PROVE  ~Crash(c) /\ \A p \in Paths, x \in Contents : ~Edit(c, p, x)
  BY <1>2 DEF Crash, Edit
<1>14. QED
  BY <1>5, <1>6, <1>7, <1>8, <1>9, <1>10, <1>11, <1>12, <1>13 DEF Next, CallStep

\* As long as no landing call is cut off and nothing else writes the working tree, every
\* state of main passes the store validator, whatever the clones land side by side
\* (land.py _integrate validates the rebased tree in every attempt).
THEOREM MainIsValid ==
    ASSUME MaxCrashes = 0, MaxEdits = 0, Valid(Blank)
    PROVE  Spec => []MainStaysValid
<1>1. Init => ValidInv
  <2> SUFFICES ASSUME Init
               PROVE  ValidInv
    OBVIOUS
  <2>1. TypeOK
    BY DEF Init, TypeOK, RemoteTypeOK, RefsTypeOK, CloneTypeOK, CallTypeOK, Blank, Tree,
           Cell, Verdicts, Steps, Outcomes
  <2>2. MainStaysValid
    BY DEF Init, MainStaysValid, MainTree
  <2>3. \A c \in Clones : InSync(c)
    BY DEF Init, InSync
  <2>4. QED
    BY <2>1, <2>2, <2>3 DEF Init, ValidInv
<1>2. ValidInv => MainStaysValid
  BY DEF ValidInv
<1>3. ValidInv /\ [Next]_vars => ValidInv'
  BY ValidStep
<1>4. QED
  BY <1>1, <1>2, <1>3, PTL DEF Spec
=============================================================================
