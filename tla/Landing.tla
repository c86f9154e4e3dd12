------------------------------- MODULE Landing -------------------------------
(***************************************************************************)
(* The commit protocol of tools/commit: land_record and land_changeset,     *)
(* run by several clones of the corpus repository against one origin/main. *)
(*                                                                         *)
(* Git is modelled from how land.py drives it.  A commit carries a patch   *)
(* (what the touched paths held before and hold after) and the change its  *)
(* Record-Key trailer names.  main is the sequence of accepted pushes,     *)
(* each with its commits and the snapshot of the files it left.  A clone   *)
(* is its HEAD (a prefix of main plus the commits main does not have), its *)
(* index, its working tree and the position of the call it is executing.   *)
(*                                                                         *)
(* Two edits of one path conflict unless they agree: git's line-level      *)
(* merge inside a file is left out, and a rebase is one step.              *)
(***************************************************************************)
EXTENDS Naturals, Sequences

CONSTANTS
    Clones,       \* the working copies that land records
    Paths,        \* repo-relative file paths
    Contents,     \* what a file may hold
    Absent,       \* the content of a path that does not exist
    Changes,      \* the records and changesets callers land: path -> content
    Forbidden,    \* partial trees the store validator reports an error for
    Gated,        \* TRUE: callers pass a status_checker
    Retries,      \* the `retries` argument
    MaxCalls,     \* bound: landing calls per clone
    MaxCrashes,   \* bound: killed or raising calls, over all clones
    MaxEdits      \* bound: files the surrounding run rewrites, over all clones

Cell == Contents \cup {Absent}
Patch == UNION {[P -> Cell] : P \in (SUBSET Paths) \ {{}}}

ASSUME AbsentAssumption == Absent \notin Contents
ASSUME ChangesAssumption == Changes \subseteq Patch
ASSUME BoundsAssumption ==
    /\ Retries \in Nat \ {0}
    /\ MaxCalls \in Nat /\ MaxCrashes \in Nat /\ MaxEdits \in Nat
    /\ Gated \in BOOLEAN

VARIABLES
    main,       \* origin/main: the sequence of accepted pushes
    ci,         \* the combined CI status of main after each push
    base,       \* how much of main each clone's HEAD builds on
    fetched,    \* how much of main each clone's remote-tracking ref shows
    ahead,      \* the commits of each clone's HEAD that lie past base
    head,       \* the snapshot of each clone's HEAD
    index,      \* each clone's staged snapshot
    tree,       \* each clone's files on disk
    pc,         \* where each clone is in a landing call
    change,     \* the change that call lands
    attempt,    \* its fetch-rebase-validate-push attempt
    outcome,    \* the result of each clone's last call
    calls,      \* calls begun per clone
    crashes,    \* calls killed so far
    edits,      \* files rewritten by surrounding runs so far
    wasGreen,   \* history: the heads of main that were ever reported green
    reported    \* history: the changes some caller was told are Landed

gitVars == <<main, base, fetched, ahead, head, index, tree>>
callVars == <<pc, change, attempt, outcome, calls>>
budgets == <<crashes, edits>>
history == <<wasGreen, reported>>
vars == <<gitVars, callVars, ci, budgets, history>>

Tree == [Paths -> Cell]
Commit == [n : Nat, key : Changes, from : Patch, to : Patch]
Push == [commits : SUBSET Commit, tree : Tree]
Verdicts == {"unknown", "green", "red"}
Steps == {"idle", "written", "staged", "committed", "fetched", "rebased",
          "validated", "checked"}
Outcomes == {"none", "landed", "blocked", "contention", "halt", "error"}

RemoteTypeOK ==
    /\ main \in Seq(Push)
    /\ ci \in [0 .. Len(main) -> Verdicts]
    /\ wasGreen \subseteq Nat

RefsTypeOK ==
    /\ base \in [Clones -> Nat]
    /\ fetched \in [Clones -> Nat]
    /\ \A c \in Clones : base[c] <= fetched[c] /\ fetched[c] <= Len(main)

CloneTypeOK ==
    /\ ahead \in [Clones -> SUBSET Commit]
    /\ head \in [Clones -> Tree]
    /\ index \in [Clones -> Tree]
    /\ tree \in [Clones -> Tree]

CallTypeOK ==
    /\ pc \in [Clones -> Steps]
    /\ change \in [Clones -> Changes \cup {Absent}]
    /\ \A c \in Clones : pc[c] # "idle" => change[c] \in Changes
    /\ attempt \in [Clones -> 0 .. Retries]
    /\ outcome \in [Clones -> Outcomes]
    /\ calls \in [Clones -> Nat]

TypeOK ==
    /\ RemoteTypeOK /\ RefsTypeOK /\ CloneTypeOK /\ CallTypeOK
    /\ crashes \in Nat /\ edits \in Nat
    /\ reported \subseteq Changes

-----------------------------------------------------------------------------
(* Trees, patches and what git's commands make of them. *)

Blank == [p \in Paths |-> Absent]
MainTree(b) == IF b = 0 THEN Blank ELSE main[b].tree

Touches(m, p) == p \in DOMAIN m.to

\* The tree t after the commits S, whose order is their n.
Latest(S, p) ==
    {m \in S : Touches(m, p) /\ \A o \in S : Touches(o, p) => o.n <= m.n}

After(t, S) ==
    [p \in Paths |-> IF Latest(S, p) = {} THEN t[p]
                     ELSE (CHOOSE m \in Latest(S, p) : TRUE).to[p]]

Overwrite(t, patch) ==
    [p \in Paths |-> IF p \in DOMAIN patch THEN patch[p] ELSE t[p]]

Upstream(c) == UNION {main[b].commits : b \in base[c] + 1 .. fetched[c]}

\* git rebase skips a commit whose patch the upstream already has.
Pending(c) ==
    {m \in ahead[c] : ~ \E u \in Upstream(c) : u.from = m.from /\ u.to = m.to}

Tip(c) == MainTree(fetched[c])
Before(c, m) == After(Tip(c), {o \in Pending(c) : o.n < m.n})

Conflicts(c) ==
    \E m \in Pending(c) : \E p \in DOMAIN m.to :
        Before(c, m)[p] \notin {m.from[p], m.to[p]}

\* ... and drops a commit that becomes empty on the new base.
Replayed(c) ==
    {r \in {[m EXCEPT !.from = [p \in DOMAIN m.to |-> Before(c, m)[p]]] :
                m \in Pending(c)} : r.from # r.to}

Untracked(c, p) == index[c][p] = Absent /\ tree[c][p] # Absent

\* git rebase refuses a tree with unstaged edits of tracked files, and one whose
\* untracked files the checkout of the new base would overwrite.
Refuses(c) ==
    \/ \E p \in Paths : index[c][p] # Absent /\ tree[c][p] # index[c][p]
    \/ /\ base[c] # fetched[c]
       /\ \E p \in Paths : Untracked(c, p) /\ Tip(c)[p] # Absent

\* The Record-Key trailers `git log` of the clone's HEAD shows.
KeysInHistory(c) ==
    {m.key : m \in ahead[c] \cup UNION {main[b].commits : b \in 1 .. base[c]}}

Valid(t) == \A f \in Forbidden : \E p \in DOMAIN f : t[p] # f[p]

-----------------------------------------------------------------------------
Init ==
    /\ main = <<>>
    /\ ci \in [{0} -> {"unknown", "green"}]
    /\ base = [c \in Clones |-> 0]
    /\ fetched = [c \in Clones |-> 0]
    /\ ahead = [c \in Clones |-> {}]
    /\ head = [c \in Clones |-> Blank]
    /\ index = [c \in Clones |-> Blank]
    /\ tree = [c \in Clones |-> Blank]
    /\ pc = [c \in Clones |-> "idle"]
    /\ change = [c \in Clones |-> Absent]
    /\ attempt = [c \in Clones |-> 0]
    /\ outcome = [c \in Clones |-> "none"]
    /\ calls = [c \in Clones |-> 0]
    /\ crashes = 0
    /\ edits = 0
    /\ wasGreen = {b \in {0} : ci[b] = "green"}
    /\ reported = {}

Goto(c, step) == pc' = [pc EXCEPT ![c] = step]

\* The call's locals go with it; its result goes to the caller.
Return(c, result) ==
    /\ Goto(c, "idle")
    /\ change' = [change EXCEPT ![c] = Absent]
    /\ attempt' = [attempt EXCEPT ![c] = 0]
    /\ outcome' = [outcome EXCEPT ![c] = result]
    /\ UNCHANGED calls

Report(c) == reported' = reported \cup {change[c]}

\* A call starts: the trailer is looked up in HEAD's history, and only a change it
\* does not show is written to disk.
Begin(c, ch) ==
    /\ pc[c] = "idle"
    /\ calls[c] < MaxCalls
    /\ \A p \in DOMAIN ch : ch[p] = Absent => tree[c][p] # Absent
    /\ calls' = [calls EXCEPT ![c] = @ + 1]
    /\ UNCHANGED attempt
    /\ IF ch \in KeysInHistory(c)
       THEN /\ outcome' = [outcome EXCEPT ![c] = "landed"]
            /\ reported' = reported \cup {ch}
            /\ UNCHANGED <<pc, change, tree>>
       ELSE /\ Goto(c, "written")
            /\ change' = [change EXCEPT ![c] = ch]
            /\ tree' = [tree EXCEPT ![c] = Overwrite(@, ch)]
            /\ outcome' = [outcome EXCEPT ![c] = "none"]
            /\ UNCHANGED reported
    /\ UNCHANGED <<main, base, fetched, ahead, head, index, ci, budgets, wasGreen>>

Stage(c) ==
    /\ pc[c] = "written"
    /\ Goto(c, "staged")
    /\ index' = [index EXCEPT ![c] =
                    [p \in Paths |-> IF p \in DOMAIN change[c]
                                     THEN tree[c][p] ELSE @[p]]]
    /\ UNCHANGED <<main, base, fetched, ahead, head, tree, change, attempt,
                   outcome, calls, ci, budgets, history>>

\* `git commit` records the whole index under this call's trailer; with nothing
\* staged it exits nonzero and the call raises.
MakeCommit(c) ==
    /\ pc[c] = "staged"
    /\ LET staged == {p \in Paths : index[c][p] # head[c][p]}
       IN  IF staged = {}
           THEN Return(c, "error") /\ UNCHANGED <<ahead, head>>
           ELSE /\ ahead' = [ahead EXCEPT ![c] = @ \cup
                       {[n |-> calls[c], key |-> change[c],
                         from |-> [p \in staged |-> head[c][p]],
                         to |-> [p \in staged |-> index[c][p]]]}]
                /\ head' = [head EXCEPT ![c] = index[c]]
                /\ Goto(c, "committed")
                /\ attempt' = [attempt EXCEPT ![c] = 1]
                /\ UNCHANGED <<change, outcome, calls>>
    /\ UNCHANGED <<main, base, fetched, index, tree, ci, budgets, history>>

\* The top of the retry loop: out of time, or fetch.
Timeout(c) ==
    /\ pc[c] = "committed"
    /\ Return(c, "contention")
    /\ UNCHANGED <<gitVars, ci, budgets, history>>

Fetch(c) ==
    /\ pc[c] = "committed"
    /\ fetched' = [fetched EXCEPT ![c] = Len(main)]
    /\ Goto(c, "fetched")
    /\ UNCHANGED <<main, base, ahead, head, index, tree, change, attempt,
                   outcome, calls, ci, budgets, history>>

\* Mutant: resets to the upstream instead of stopping.
RebaseOrReset(c) ==
    /\ pc[c] = "fetched"
    /\ LET kept == IF Refuses(c) \/ Conflicts(c) THEN {} ELSE Replayed(c)
       IN  /\ base' = [base EXCEPT ![c] = fetched[c]]
           /\ ahead' = [ahead EXCEPT ![c] = kept]
           /\ head' = [head EXCEPT ![c] = After(Tip(c), kept)]
    /\ index' = [index EXCEPT ![c] = head'[c]]
    /\ tree' = [tree EXCEPT ![c] = head'[c]]
    /\ Goto(c, "rebased")
    /\ UNCHANGED <<change, attempt, outcome, calls, main, fetched, ci, budgets, history>>

\* A refused or conflicting rebase is aborted: HEAD stays where it was.
Rebase(c) ==
    /\ pc[c] = "fetched"
    /\ IF Refuses(c) \/ Conflicts(c)
       THEN Return(c, "halt") /\ UNCHANGED <<base, ahead, head, index, tree>>
       ELSE /\ base' = [base EXCEPT ![c] = fetched[c]]
            /\ ahead' = [ahead EXCEPT ![c] = Replayed(c)]
            /\ head' = [head EXCEPT ![c] = After(Tip(c), Replayed(c))]
            /\ index' = [index EXCEPT ![c] = head'[c]]
            /\ tree' = [tree EXCEPT ![c] =
                          [p \in Paths |-> IF Untracked(c, p) THEN @[p]
                                           ELSE head'[c][p]]]
            /\ Goto(c, "rebased")
            /\ UNCHANGED <<change, attempt, outcome, calls>>
    /\ UNCHANGED <<main, fetched, ci, budgets, history>>

\* Mutant: trusts the first attempt's validation.
ValidateOnce(c) ==
    /\ pc[c] = "rebased"
    /\ IF attempt[c] > 1 \/ Valid(tree[c])
       THEN /\ Goto(c, IF Gated THEN "validated" ELSE "checked")
            /\ UNCHANGED <<change, attempt, outcome, calls>>
       ELSE Return(c, "contention")
    /\ UNCHANGED <<gitVars, ci, budgets, history>>

\* The validator reads the files on disk, not HEAD.
Validate(c) ==
    /\ pc[c] = "rebased"
    /\ IF Valid(tree[c])
       THEN /\ Goto(c, IF Gated THEN "validated" ELSE "checked")
            /\ UNCHANGED <<change, attempt, outcome, calls>>
       ELSE Return(c, "contention")
    /\ UNCHANGED <<gitVars, ci, budgets, history>>

\* Mutant: takes a missing status for a pass.
CheckStatusNotRed(c) ==
    /\ pc[c] = "validated"
    /\ IF ci[fetched[c]] # "red"
       THEN Goto(c, "checked") /\ UNCHANGED <<change, attempt, outcome, calls>>
       ELSE Return(c, "blocked")
    /\ UNCHANGED <<gitVars, ci, budgets, history>>

\* The gate asks for the status of the head the clone fetched.
CheckStatus(c) ==
    /\ pc[c] = "validated"
    /\ IF ci[fetched[c]] = "green"
       THEN Goto(c, "checked") /\ UNCHANGED <<change, attempt, outcome, calls>>
       ELSE Return(c, "blocked")
    /\ UNCHANGED <<gitVars, ci, budgets, history>>

\* Mutant: pushes with --force.
AcceptForced(c) ==
    /\ main' = Append(main, [commits |-> ahead[c], tree |-> head[c]])
    /\ ci' = [b \in 0 .. Len(main) + 1 |-> IF b \in DOMAIN ci THEN ci[b] ELSE "unknown"]

\* origin accepts a push only if it extends main.
Accept(c) ==
    /\ base[c] = Len(main)
    /\ IF ahead[c] = {}
       THEN UNCHANGED <<main, ci>>
       ELSE /\ main' = Append(main, [commits |-> ahead[c], tree |-> head[c]])
            /\ ci' = [b \in 0 .. Len(main) + 1 |->
                         IF b \in DOMAIN ci THEN ci[b] ELSE "unknown"]

PushLands(c) ==
    /\ pc[c] = "checked"
    /\ Accept(c)
    /\ base' = [base EXCEPT ![c] = Len(main')]
    /\ fetched' = [fetched EXCEPT ![c] = Len(main')]
    /\ ahead' = [ahead EXCEPT ![c] = {}]
    /\ Return(c, "landed")
    /\ Report(c)
    /\ UNCHANGED <<head, index, tree, budgets, wasGreen>>

\* Mutant: one attempt too many.
RetryOnceMore(c) ==
    IF attempt[c] <= Retries
    THEN /\ Goto(c, "committed")
         /\ attempt' = [attempt EXCEPT ![c] = @ + 1]
         /\ UNCHANGED <<change, outcome, calls>>
    ELSE Return(c, "contention")

\* Mutant: the loop does not count.
RetryForever(c) ==
    IF attempt[c] < Retries
    THEN Goto(c, "committed") /\ UNCHANGED <<change, attempt, outcome, calls>>
    ELSE Return(c, "contention")

RetryOrGiveUp(c) ==
    IF attempt[c] < Retries
    THEN /\ Goto(c, "committed")
         /\ attempt' = [attempt EXCEPT ![c] = @ + 1]
         /\ UNCHANGED <<change, outcome, calls>>
    ELSE Return(c, "contention")

\* `git push` exits nonzero: main moved on, or the connection failed before ...
PushRejected(c) ==
    /\ pc[c] = "checked"
    /\ RetryOrGiveUp(c)
    /\ UNCHANGED <<gitVars, ci, budgets, history>>

\* ... or after origin took it.
PushUnacknowledged(c) ==
    /\ pc[c] = "checked"
    /\ Accept(c)
    /\ RetryOrGiveUp(c)
    /\ UNCHANGED <<base, fetched, ahead, head, index, tree, budgets, history>>

\* A call is killed, or one of its git or HTTP commands raises.
Crash(c) ==
    /\ pc[c] # "idle"
    /\ crashes < MaxCrashes
    /\ crashes' = crashes + 1
    /\ Return(c, "error")
    /\ UNCHANGED <<gitVars, ci, edits, history>>

\* The run around the calls rewrites a file itself (save_cycle, save_record, ...).
Edit(c, p, x) ==
    /\ pc[c] = "idle"
    /\ edits < MaxEdits
    /\ tree[c][p] # x
    /\ edits' = edits + 1
    /\ tree' = [tree EXCEPT ![c][p] = x]
    /\ UNCHANGED <<main, base, fetched, ahead, head, index, callVars, ci,
                   crashes, history>>

\* CI reports on a head of main, and may be run again.
CIReport(b, v) ==
    /\ ci[b] # v
    /\ ci' = [ci EXCEPT ![b] = v]
    /\ wasGreen' = IF v = "green" THEN wasGreen \cup {b} ELSE wasGreen
    /\ UNCHANGED <<gitVars, callVars, budgets, reported>>

CallStep(c) ==
    \/ Stage(c) \/ MakeCommit(c)
    \/ Timeout(c) \/ Fetch(c) \/ Rebase(c) \/ Validate(c) \/ CheckStatus(c)
    \/ PushLands(c) \/ PushRejected(c) \/ PushUnacknowledged(c)

Next ==
    \/ \E c \in Clones :
        \/ \E ch \in Changes : Begin(c, ch)
        \/ CallStep(c)
        \/ Crash(c)
        \/ \E p \in Paths, x \in Contents : Edit(c, p, x)
    \/ \E b \in 0 .. Len(main), v \in {"green", "red"} : CIReport(b, v)

Spec == Init /\ [][Next]_vars

\* A call that has begun keeps executing unless it is killed.
FairSpec == Spec /\ \A c \in Clones : WF_vars(CallStep(c))

-----------------------------------------------------------------------------
(* Properties. *)

\* No lost update: every push leaves main as it was, plus exactly the commits it
\* carries.  A push built on a stale fetch would drop what others landed meanwhile
\* (land.py _integrate: fetch and rebase are inside the retry loop).
NoLostUpdate ==
    \A b \in 1 .. Len(main) :
        main[b].tree = After(MainTree(b - 1), main[b].commits)

\* Whatever two clones land side by side, the store on main passes the validator:
\* it runs after every rebase, on the merged tree, and not once before the loop.
MainStaysValid == \A b \in 0 .. Len(main) : Valid(MainTree(b))

\* With a status checker, main only ever grows from a head that CI had reported
\* green: a push that raced past the checked head is refused, not accepted.
PushedOnGreen == [][Gated => Len(main) \in wasGreen]_main

\* Some commit of the first b pushes of a history h touches p, and writes v there.
Touched(h, b, p) == \E i \in 1 .. b : \E u \in h[i].commits : Touches(u, p)
Wrote(h, b, p, v) ==
    \E i \in 1 .. b : \E u \in h[i].commits : Touches(u, p) /\ u.to[p] = v

\* A commit leaves a clone's history only when main, or an earlier commit that stays,
\* has what it wrote: no outcome of the loop (conflict, red main, contention, retry
\* after a lost reply) drops work.
NoWorkLost ==
    [][\A c \in Clones : \A m \in ahead[c] :
        \/ \E k \in ahead'[c] : k.n = m.n /\ k.to = m.to
        \/ \A p \in DOMAIN m.to :
              \/ Wrote(main', Len(main'), p, m.to[p])
              \/ \E k \in ahead'[c] : k.n < m.n /\ Touches(k, p) /\ k.to[p] = m.to[p]]_vars

\* Every landing call returns: the loop is bounded by its retries.
CallsReturn == \A c \in Clones : (pc[c] # "idle") ~> (pc[c] = "idle")

OnMain(ch) ==
    \A p \in DOMAIN ch : \E b \in 1 .. Len(main) :
        \E m \in main[b].commits : Touches(m, p) /\ m.to[p] = ch[p]

\* What the callers take Landed to mean (trailers.py: the trailer lookup is "a cheap
\* grep against main's reachable history"): the change is on main.
LandedIsOnMain == \A ch \in reported : OnMain(ch)

-----------------------------------------------------------------------------
(* What makes those invariants inductive. *)

\* HEAD is the part of main it builds on, with the clone's own commits replayed.
HeadIsReplay == \A c \in Clones : head[c] = After(MainTree(base[c]), ahead[c])

\* A clone's commits carry the numbers of its past calls.
Numbered ==
    \A c \in Clones : \A m \in ahead[c] :
        /\ m.n <= calls[c]
        /\ pc[c] \in {"written", "staged"} => m.n < calls[c]

UpdateInv == TypeOK /\ NoLostUpdate /\ HeadIsReplay /\ Numbered

\* What main holds at a path was written there by a commit, or nobody has touched it ...
Told ==
    \A b \in 0 .. Len(main) : \A p \in Paths :
        \/ Wrote(main, b, p, MainTree(b)[p])
        \/ MainTree(b)[p] = Absent /\ ~ Touched(main, b, p)

\* ... and what a clone's commit removes, main or an earlier one of its commits had written.
Removals ==
    \A c \in Clones : \A m \in ahead[c] : \A p \in DOMAIN m.to :
        m.to[p] = Absent => \/ Touched(main, base[c], p)
                            \/ \E o \in ahead[c] : o.n < m.n /\ Touches(o, p)

WorkInv == UpdateInv /\ Told /\ Removals

\* Past the gate, the head the push must extend is the one whose status was read.
Gate ==
    /\ \A b \in 0 .. Len(main) : ci[b] = "green" => b \in wasGreen
    /\ \A c \in Clones :
          /\ pc[c] \in {"rebased", "validated", "checked"} => base[c] = fetched[c]
          /\ Gated /\ pc[c] = "checked" => fetched[c] \in wasGreen

GateInv == TypeOK /\ Gate

\* While no call is cut off and nobody else writes, disk, index and HEAD agree
\* outside the write-stage-commit steps: what was validated is what is pushed.
InSync(c) ==
    /\ pc[c] = "written" => /\ index[c] = head[c]
                            /\ tree[c] = Overwrite(index[c], change[c])
    /\ pc[c] = "staged" => tree[c] = index[c]
    /\ pc[c] \notin {"written", "staged"} => tree[c] = index[c] /\ index[c] = head[c]
    /\ pc[c] \in {"validated", "checked"} => Valid(head[c])

ValidInv ==
    TypeOK /\ MainStaysValid /\ crashes = 0 /\ edits = 0 /\ \A c \in Clones : InSync(c)
=============================================================================
