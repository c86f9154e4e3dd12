---------------------------- MODULE Orchestrator ----------------------------
(***************************************************************************)
(* The batch driver of tools/orchestrator: driver.run over a checkpoint    *)
(* database per job kind and one status.json that every kind shares.       *)
(*                                                                         *)
(* A process is a job kind: cron, or an operator, invokes run again and    *)
(* again for it, one invocation at a time.  Invocations of different kinds *)
(* overlap.  status.json is replaced in three steps (read, write the .tmp  *)
(* file, rename), each atomic here; the .tmp file is shared as well.       *)
(***************************************************************************)
EXTENDS Naturals, Sequences

CONSTANTS
    Kinds,          \* job kinds
    Items,          \* work items
    Enumerations,   \* Enumerations[k]: the item lists k's enumerator may return
    Cooldown,       \* the pause after a Claude usage limit, in ticks
    MaxFaults       \* bound: items that do not settle when run, and killed runs

ASSUME EnumerationsAssumption == Enumerations \in [Kinds -> SUBSET Seq(Items)]
ASSUME BoundsAssumption == Cooldown \in Nat /\ MaxFaults \in Nat

VARIABLES
    rows,       \* the checkpoint row of each kind's item
    status,     \* status.json
    temp,       \* status.json.tmp, or the empty file map if there is none
    now,        \* the clock
    landed,     \* the items whose Record-Key is in the repository's history
    pc,         \* where each kind's invocation is
    list,       \* the items it enumerated
    at,         \* its position in that list
    entry,      \* the status entry it is writing
    snapshot,   \* the status.json it read for that
    next,       \* where it goes on after the write: <<pc, exit code>>
    exit,       \* how each kind's last invocation ended
    faults,     \* faults so far
    limited     \* history: the end of the last cool-down each kind announced

fileVars == <<status, temp>>
runVars == <<pc, list, at>>
writeVars == <<entry, snapshot, next>>
world == <<now, landed>>
history == <<faults, limited>>
vars == <<rows, fileVars, world, runVars, writeVars, exit, history>>

Settled == {"done", "halted"}
RowStatus == Settled \cup {"none", "in_progress", "blocked", "contention"}
Row == [status : RowStatus, keyed : BOOLEAN]
Fresh == [status |-> "none", keyed |-> FALSE]

States == {"none", "running", "done", "paused", "cooling", "halted", "crashed"}
Entry == [state : States, until : Nat]
StatusFile == [Kinds -> Entry]
NoTemp == <<>>

PCs == {"idle", "invoked", "read", "temp", "rename", "setup", "loop", "running"}

\* "unstarted": the run raised before its item loop began.
Exits == {"none", "ok", "paused", "halted", "raised", "unstarted", "killed"}

TypeOK ==
    /\ rows \in [Kinds -> [Items -> Row]]
    /\ status \in StatusFile
    /\ temp \in StatusFile \cup {NoTemp}
    /\ now \in Nat
    /\ landed \subseteq Kinds \X Items
    /\ pc \in [Kinds -> PCs]
    /\ list \in [Kinds -> Seq(Items)]
    /\ at \in [Kinds -> Nat]
    /\ entry \in StatusFile
    /\ snapshot \in [Kinds -> StatusFile]
    /\ next \in [Kinds -> [goto : {"idle", "setup"}, code : Exits]]
    /\ exit \in [Kinds -> Exits]
    /\ faults \in Nat
    /\ limited \in [Kinds -> Nat]

-----------------------------------------------------------------------------
Nothing == [state |-> "none", until |-> 0]
Blank == [k \in Kinds |-> Nothing]

Init ==
    /\ rows = [k \in Kinds |-> [i \in Items |-> Fresh]]
    /\ status = Blank /\ temp = NoTemp
    /\ now = 0 /\ landed = {}
    /\ pc = [k \in Kinds |-> "idle"]
    /\ list = [k \in Kinds |-> <<>>]
    /\ at = [k \in Kinds |-> 1]
    /\ entry = Blank
    /\ snapshot = [k \in Kinds |-> Blank]
    /\ next = [k \in Kinds |-> [goto |-> "idle", code |-> "none"]]
    /\ exit = [k \in Kinds |-> "none"]
    /\ faults = 0
    /\ limited = [k \in Kinds |-> 0]

Item(k) == list[k][at[k]]

Upsert(k, s, key) ==
    rows' = [rows EXCEPT ![k][Item(k)] = [status |-> s, keyed |-> key]]

Goto(k, step) == pc' = [pc EXCEPT ![k] = step]

Leave(k, code) ==
    /\ Goto(k, "idle")
    /\ exit' = [exit EXCEPT ![k] = code]

\* write_status begins; afterwards the run goes on, or returns the code.
WriteStatus(k, s, until, goto, code) ==
    /\ Goto(k, "read")
    /\ entry' = [entry EXCEPT ![k] = [state |-> s, until |-> until]]
    /\ next' = [next EXCEPT ![k] = [goto |-> goto, code |-> code]]
    /\ UNCHANGED snapshot

\* A write's locals are gone once it is over.
Written(k) ==
    /\ entry' = [entry EXCEPT ![k] = Nothing]
    /\ snapshot' = [snapshot EXCEPT ![k] = Blank]
    /\ next' = [next EXCEPT ![k] = [goto |-> "idle", code |-> "none"]]

Fault == faults < MaxFaults /\ faults' = faults + 1

\* Mutant: a cooling entry pauses its kind whatever the time.
InvokeUnlessPaused(k) ==
    /\ pc[k] = "idle"
    /\ IF status[k].state = "cooling"
       THEN Leave(k, "paused")
       ELSE Goto(k, "invoked") /\ UNCHANGED exit
    /\ UNCHANGED <<rows, fileVars, world, list, at, writeVars, history>>

\* A run is invoked: a kind still cooling down from a usage limit is a no-op.
Invoke(k) ==
    /\ pc[k] = "idle"
    /\ IF status[k].state = "cooling" /\ now < status[k].until
       THEN Leave(k, "paused")
       ELSE Goto(k, "invoked") /\ UNCHANGED exit
    /\ UNCHANGED <<rows, fileVars, world, list, at, writeVars, history>>

Enumerate(k) ==
    /\ pc[k] = "invoked"
    /\ \E l \in Enumerations[k] : list' = [list EXCEPT ![k] = l]
    /\ at' = [at EXCEPT ![k] = 1]
    /\ WriteStatus(k, "running", 0, "setup", "none")
    /\ UNCHANGED <<rows, fileVars, world, exit, history>>

ReadStatus(k) ==
    /\ pc[k] = "read"
    /\ snapshot' = [snapshot EXCEPT ![k] = status]
    /\ Goto(k, "temp")
    /\ UNCHANGED <<rows, fileVars, world, list, at, entry, next, exit, history>>

WriteTemp(k) ==
    /\ pc[k] = "temp"
    /\ temp' = [snapshot[k] EXCEPT ![k] = entry[k]]
    /\ Goto(k, "rename")
    /\ UNCHANGED <<rows, status, world, list, at, writeVars, exit, history>>

\* os.replace: status.json is the .tmp file, which is gone.
Replace(k) ==
    /\ pc[k] = "rename"
    /\ temp # NoTemp
    /\ status' = temp
    /\ temp' = NoTemp
    /\ limited' = IF entry[k].state = "cooling"
                  THEN [limited EXCEPT ![k] = entry[k].until] ELSE limited
    /\ Written(k)
    /\ UNCHANGED <<rows, world, list, at>>

Rename(k) ==
    /\ Replace(k)
    /\ IF next[k].goto = "setup"
       THEN Goto(k, "setup") /\ UNCHANGED exit
       ELSE Leave(k, next[k].code)
    /\ UNCHANGED faults

\* Closing the run's transcripts raises: the exit code is lost, the write stands.
CloseRaises(k) ==
    /\ Replace(k)
    /\ next[k].goto = "idle"
    /\ Fault
    /\ Leave(k, "raised")

\* Another kind renamed the .tmp file away: os.replace raises.  From within the item
\* loop that is one more unexpected exception, and the run writes `crashed`; before the
\* loop, after it and within that handler the file is left as it is.
RenameRaises(k) ==
    /\ pc[k] = "rename"
    /\ temp = NoTemp
    /\ IF entry[k].state \in {"paused", "cooling", "halted"}
       THEN WriteStatus(k, "crashed", 0, "idle", "raised") /\ UNCHANGED exit
       ELSE /\ Leave(k, IF next[k].goto = "setup" THEN "unstarted" ELSE "raised")
            /\ Written(k)
    /\ UNCHANGED <<rows, fileVars, world, list, at, history>>

\* RunContext.start succeeds, and the item loop begins.
StartContext(k) ==
    /\ pc[k] = "setup"
    /\ Goto(k, "loop")
    /\ UNCHANGED <<rows, fileVars, world, list, at, writeVars, exit, history>>

\* The setup raises: the checkpoint store or the enumerator before `running` is written,
\* RunContext.start after it.  The handler that writes `crashed` is the loop's alone, so
\* the file keeps what it says.
SetupRaises(k) ==
    /\ pc[k] \in {"invoked", "setup"}
    /\ Fault
    /\ Leave(k, "unstarted")
    /\ Written(k)
    /\ UNCHANGED <<rows, fileVars, world, list, at, limited>>

\* Mutant: skips every item it has a row for.
SkipSeen(k) ==
    /\ pc[k] = "loop" /\ at[k] <= Len(list[k])
    /\ rows[k][Item(k)].status # "none"
    /\ at' = [at EXCEPT ![k] = @ + 1]
    /\ UNCHANGED <<rows, fileVars, world, pc, list, writeVars, exit, history>>

\* The loop looks at its next item: a settled row is skipped, a row whose Record-Key is
\* in history is done, any other is marked in_progress (without a key) and run.
Skip(k) ==
    /\ pc[k] = "loop" /\ at[k] <= Len(list[k])
    /\ rows[k][Item(k)].status \in Settled
    /\ at' = [at EXCEPT ![k] = @ + 1]
    /\ UNCHANGED <<rows, fileVars, world, pc, list, writeVars, exit, history>>

ByTrailer(k) ==
    LET row == rows[k][Item(k)]
    IN  /\ row.status \in {"in_progress", "blocked", "contention"}
        /\ row.keyed
        /\ <<k, Item(k)>> \in landed

Resolve(k) ==
    /\ pc[k] = "loop" /\ at[k] <= Len(list[k])
    /\ ByTrailer(k)
    /\ Upsert(k, "done", TRUE)
    /\ at' = [at EXCEPT ![k] = @ + 1]
    /\ UNCHANGED <<fileVars, world, pc, list, writeVars, exit, history>>

\* Mutant: runs a halted item again.
StartHalted(k) ==
    /\ pc[k] = "loop" /\ at[k] <= Len(list[k])
    /\ rows[k][Item(k)].status # "done"
    /\ ~ ByTrailer(k)
    /\ Upsert(k, "in_progress", FALSE)
    /\ Goto(k, "running")
    /\ UNCHANGED <<fileVars, world, list, at, writeVars, exit, history>>

Start(k) ==
    /\ pc[k] = "loop" /\ at[k] <= Len(list[k])
    /\ rows[k][Item(k)].status \notin Settled
    /\ ~ ByTrailer(k)
    /\ Upsert(k, "in_progress", FALSE)
    /\ Goto(k, "running")
    /\ UNCHANGED <<fileVars, world, list, at, writeVars, exit, history>>

\* The item runner commits the item's record.
Land(k) ==
    /\ pc[k] = "running"
    /\ landed' = landed \cup {<<k, Item(k)>>}
    /\ UNCHANGED <<rows, fileVars, now, runVars, writeVars, exit, history>>

\* The item runner returns ...
Finish(k) ==
    /\ pc[k] = "running"
    /\ Upsert(k, "done", <<k, Item(k)>> \in landed)
    /\ at' = [at EXCEPT ![k] = @ + 1]
    /\ Goto(k, "loop")
    /\ UNCHANGED <<fileVars, world, list, writeVars, exit, history>>

Halt(k) ==
    /\ pc[k] = "running"
    /\ Upsert(k, "halted", FALSE)
    /\ WriteStatus(k, "halted", 0, "idle", "halted")
    /\ UNCHANGED <<fileVars, world, list, at, exit, history>>

Defer(k) ==
    /\ pc[k] = "running"
    /\ Fault
    /\ \E s \in {"blocked", "contention"}, key \in BOOLEAN : Upsert(k, s, key)
    /\ WriteStatus(k, "paused", 0, "idle", "paused")
    /\ UNCHANGED <<fileVars, world, list, at, exit, limited>>

\* Mutant: a cool-down that ends before it starts.
HitLimitBackwards(k) ==
    /\ pc[k] = "running"
    /\ Fault
    /\ Upsert(k, "blocked", FALSE)
    /\ WriteStatus(k, "cooling", now - Cooldown, "idle", "paused")
    /\ UNCHANGED <<fileVars, world, list, at, exit, limited>>

\* Mutant: an exception leaves the status as it was.
RaiseUnrecorded(k) ==
    /\ pc[k] = "running"
    /\ Fault
    /\ Leave(k, "raised")
    /\ UNCHANGED <<rows, fileVars, world, list, at, writeVars, limited>>

\* ... or raises: the run's budget is spent, Claude's usage limit is hit, or anything else.
OverBudget(k) ==
    /\ pc[k] = "running"
    /\ Fault
    /\ Upsert(k, "blocked", FALSE)
    /\ WriteStatus(k, "paused", 0, "idle", "paused")
    /\ UNCHANGED <<fileVars, world, list, at, exit, limited>>

HitLimit(k) ==
    /\ pc[k] = "running"
    /\ Fault
    /\ Upsert(k, "blocked", FALSE)
    /\ WriteStatus(k, "cooling", now + Cooldown, "idle", "paused")
    /\ UNCHANGED <<fileVars, world, list, at, exit, limited>>

Raise(k) ==
    /\ pc[k] = "running" \/ (pc[k] = "loop" /\ at[k] <= Len(list[k]))
    /\ Fault
    /\ WriteStatus(k, "crashed", 0, "idle", "raised")
    /\ UNCHANGED <<rows, fileVars, world, list, at, exit, limited>>

Complete(k) ==
    /\ pc[k] = "loop" /\ at[k] > Len(list[k])
    /\ WriteStatus(k, "done", 0, "idle", "ok")
    /\ UNCHANGED <<rows, fileVars, world, list, at, exit, history>>

\* The process ends where it is: it is killed, or interrupted from the keyboard, which
\* `except Exception` does not catch.
Kill(k) ==
    /\ pc[k] # "idle"
    /\ Fault
    /\ Leave(k, "killed")
    /\ Written(k)
    /\ UNCHANGED <<rows, fileVars, world, list, at, limited>>

\* Time passes, while that matters to somebody.
Tick ==
    /\ \E k \in Kinds : now < status[k].until
    /\ now' = now + 1
    /\ UNCHANGED <<rows, fileVars, landed, runVars, writeVars, exit, history>>

\* What a live run does next when nothing goes wrong.
RunStep(k) ==
    \/ Enumerate(k) \/ ReadStatus(k) \/ WriteTemp(k) \/ Rename(k) \/ RenameRaises(k)
    \/ StartContext(k) \/ Skip(k) \/ Resolve(k) \/ Start(k) \/ Finish(k) \/ Halt(k) \/ Complete(k)

Next ==
    \/ \E k \in Kinds :
        \/ Invoke(k) \/ RunStep(k)
        \/ Land(k) \/ Defer(k) \/ OverBudget(k) \/ HitLimit(k) \/ Raise(k)
        \/ SetupRaises(k) \/ CloseRaises(k) \/ Kill(k)
    \/ Tick

Spec == Init /\ [][Next]_vars

\* Runs go on, time passes, and the schedule keeps invoking every kind.
FairSpec ==
    /\ Spec
    /\ WF_vars(Tick)
    /\ \A k \in Kinds : WF_vars(Invoke(k)) /\ WF_vars(RunStep(k))

-----------------------------------------------------------------------------
(* Properties. *)

Listed(k) == {list[k][j] : j \in 1 .. Len(list[k])}

\* Exit code 0 is what the schedule's wrapper takes for completion: nothing the run
\* enumerated may be left unsettled, through pauses, crashes and changing enumerations.
OkMeansSettled ==
    \A k \in Kinds : exit[k] = "ok" /\ pc[k] = "idle" =>
        \A i \in Listed(k) : rows[k][i].status \in Settled

\* The same of `done` in status.json, which another kind's write may bring back from an
\* old copy: what every enumeration lists is settled whenever the file says so.
Always == [k \in Kinds |-> {i \in Items : \A l \in Enumerations[k] :
                                \E j \in 1 .. Len(l) : l[j] = i}]

DoneMeansSettled ==
    \A k \in Kinds : status[k].state = "done" =>
        \A i \in Always[k] : rows[k][i].status \in Settled

\* Once a cool-down is announced in status.json, the kind starts no run before its end.
CooldownHonoured ==
    \A k \in Kinds : pc[k] = "idle" /\ pc'[k] = "invoked" => now >= limited[k]

\* What the operator reads in status.json of a run that got to its item loop and was not
\* killed is how it ended: the state of its exit code, and after an exception neither a stale
\* `running` nor what an earlier run left (test_driver.py:235).  Of a run whose setup raised it
\* tells nothing: the entry is the earlier run's, or the `running` written before
\* RunContext.start, as after a kill.
StateAfter(code) ==
    CASE code = "none" -> {"none"}
      [] code = "ok" -> {"done"}
      [] code = "paused" -> {"paused", "cooling"}
      [] code = "halted" -> {"halted"}
      [] code = "raised" -> States \ {"none", "running"}
      [] code \in {"unstarted", "killed"} -> States

StatusTellsExit ==
    \A k \in Kinds : pc[k] = "idle" => status[k].state \in StateAfter(exit[k])

\* Of a kind that runs alone, status.json is obeyed and can be believed (status.py:31):
\* through pauses, raises in and before the loop and kills at every point of its three-step
\* write.
StatusHolds == [][StatusTellsExit' /\ CooldownHonoured]_vars

\* The driver implements the job queue: an item's verdict is the settled status of its
\* checkpoint row, and no verdict while it has none.
verdict ==
    [k \in Kinds |-> [i \in Items |->
        IF rows[k][i].status \in Settled THEN rows[k][i].status ELSE "none"]]

Queue == INSTANCE JobQueue WITH verdict <- verdict, Always <- Always

\* A verdict is given once and stands, through pauses, kills and lost status writes.
VerdictsStand == Queue!Safe

\* And every item that its kind keeps enumerating gets one.
EveryItemSettles == Queue!Spec

-----------------------------------------------------------------------------
(* What makes those invariants inductive. *)

IsSettled(k, i) == rows[k][i].status \in Settled
AllSettled(k) == \A i \in Listed(k) : IsSettled(k, i)
Writing(k) == pc[k] \in {"read", "temp", "rename"}
InLoop(k) ==
    pc[k] \in {"setup", "loop", "running"} \/ (Writing(k) /\ next[k].goto = "setup")

\* A run has settled what lies behind it, and never runs a settled item.
RunOK(k) ==
    /\ pc[k] \notin {"idle", "invoked"} => list[k] \in Enumerations[k]
    /\ InLoop(k) => /\ at[k] >= 1
                    /\ \A j \in 1 .. Len(list[k]) : j < at[k] => IsSettled(k, list[k][j])
    /\ pc[k] = "running" => at[k] <= Len(list[k]) /\ ~ IsSettled(k, Item(k))
    /\ Writing(k) /\ (next[k].code = "ok" \/ entry[k].state = "done") => AllSettled(k)
    /\ pc[k] = "idle" /\ exit[k] = "ok" => AllSettled(k)
    /\ pc[k] = "idle" => entry[k].state = "none"
    /\ next[k].code = "ok" => next[k].goto = "idle"

RunInv == TypeOK /\ \A k \in Kinds : RunOK(k)

\* Every copy of status.json is true of the rows where it says `done`.
CopyOK(file) ==
    \A k \in Kinds : file[k].state = "done" => \A i \in Always[k] : IsSettled(k, i)

FileInv ==
    /\ RunInv
    /\ CopyOK(status)
    /\ temp # NoTemp => CopyOK(temp)
    /\ \A k \in Kinds : CopyOK(snapshot[k])
=============================================================================
