-------------------------- MODULE OrchestratorProofs --------------------------
(***************************************************************************)
(* What Orchestrator guarantees for any job kinds, items and enumerations: *)
(* the types, that a verdict once recorded stands (the driver implements   *)
(* the safety part of JobQueue), and that completion is never reported     *)
(* early, neither by an exit code nor by any copy of status.json.          *)
(***************************************************************************)
EXTENDS Orchestrator, TLAPS

USE EnumerationsAssumption, BoundsAssumption

\* What a step may do to settled rows: nothing.
Standing == \A k \in Kinds, i \in Items :
                IsSettled(k, i) => rows'[k][i].status = rows[k][i].status

-----------------------------------------------------------------------------
(* Types. *)

\* The item at a run's position is one of the items.
LEMMA ItemType ==
    ASSUME TypeOK, NEW k \in Kinds, at[k] >= 1, at[k] <= Len(list[k])
    PROVE  Item(k) \in Items /\ Item(k) \in Listed(k)
<1>1. list[k] \in Seq(Items) /\ at[k] \in 1 .. Len(list[k])
  BY DEF TypeOK
<1>2. QED
  BY <1>1 DEF Item, Listed

\* Recording a status for one item leaves well-typed rows.
LEMMA UpsertType ==
    ASSUME TypeOK, NEW k \in Kinds, NEW s \in RowStatus, NEW key \in BOOLEAN, Upsert(k, s, key)
    PROVE  rows' \in [Kinds -> [Items -> Row]]
<1>1. [status |-> s, keyed |-> key] \in Row
  BY DEF Row
<1>2. QED
  BY <1>1 DEF TypeOK, Upsert

\* A write of status.json begins with a well-typed entry.
LEMMA WriteType ==
    ASSUME TypeOK, NEW k \in Kinds, NEW s \in States, NEW until \in Nat,
           NEW goto \in {"idle", "setup"}, NEW code \in Exits, WriteStatus(k, s, until, goto, code)
    PROVE  /\ pc' \in [Kinds -> PCs]
           /\ entry' \in StatusFile
           /\ snapshot' \in [Kinds -> StatusFile]
           /\ next' \in [Kinds -> [goto : {"idle", "setup"}, code : Exits]]
<1>1. [state |-> s, until |-> until] \in Entry
  BY DEF Entry
<1>2. entry' \in StatusFile
  BY <1>1 DEF WriteStatus, TypeOK, StatusFile
<1>3. next' \in [Kinds -> [goto : {"idle", "setup"}, code : Exits]]
  BY DEF WriteStatus, TypeOK
<1>4. QED
  BY <1>2, <1>3 DEF WriteStatus, Goto, TypeOK, PCs

\* And it ends with well-typed locals.
LEMMA WrittenType ==
    ASSUME TypeOK, NEW k \in Kinds, Written(k)
    PROVE  /\ entry' \in StatusFile
           /\ snapshot' \in [Kinds -> StatusFile]
           /\ next' \in [Kinds -> [goto : {"idle", "setup"}, code : Exits]]
<1>1. Nothing \in Entry /\ Blank \in StatusFile
  BY DEF Nothing, Blank, Entry, StatusFile, States
<1>2. entry' \in StatusFile /\ snapshot' \in [Kinds -> StatusFile]
  BY <1>1 DEF Written, TypeOK, StatusFile
<1>3. next' \in [Kinds -> [goto : {"idle", "setup"}, code : Exits]]
  BY DEF Written, TypeOK, Exits
<1>4. QED
  BY <1>2, <1>3

\* Every step keeps the types.
LEMMA TypeStep == RunInv /\ [Next]_vars => TypeOK'
<1> SUFFICES ASSUME RunInv, [Next]_vars
             PROVE  TypeOK'
  OBVIOUS
<1>0. TypeOK
  BY DEF RunInv
<1> USE <1>0
<1> USE DEF PCs, Exits, fileVars, runVars, writeVars, world, history
<1>1. ASSUME NEW k \in Kinds, Invoke(k)
      PROVE  TypeOK'
  BY <1>1 DEF Invoke, Leave, Goto, TypeOK
<1>2. ASSUME NEW k \in Kinds, Enumerate(k)
      PROVE  TypeOK'
  <2>1. list' \in [Kinds -> Seq(Items)] /\ at' \in [Kinds -> Nat]
    BY <1>2 DEF Enumerate, TypeOK
  <2>2. /\ pc' \in [Kinds -> PCs] /\ entry' \in StatusFile /\ snapshot' \in [Kinds -> StatusFile]
        /\ next' \in [Kinds -> [goto : {"idle", "setup"}, code : Exits]]
    BY <1>2, WriteType DEF Enumerate, States
  <2>3. QED
    BY <1>2, <2>1, <2>2 DEF Enumerate, TypeOK
<1>3. ASSUME NEW k \in Kinds, ReadStatus(k)
      PROVE  TypeOK'
  BY <1>3 DEF ReadStatus, Goto, TypeOK
<1>4. ASSUME NEW k \in Kinds, WriteTemp(k)
      PROVE  TypeOK'
  <2>1. temp' \in StatusFile
    BY <1>4 DEF WriteTemp, TypeOK, StatusFile
  <2>2. QED
    BY <1>4, <2>1 DEF WriteTemp, Goto, TypeOK
<1>5. ASSUME NEW k \in Kinds, Rename(k) \/ CloseRaises(k)
      PROVE  TypeOK'
  <2>1. Replace(k)
    BY <1>5 DEF Rename, CloseRaises
  <2>2. status' \in StatusFile /\ temp' = NoTemp
    BY <2>1 DEF Replace, TypeOK
  <2>3. limited' \in [Kinds -> Nat]
    BY <2>1 DEF Replace, TypeOK, StatusFile, Entry
  <2>4. /\ entry' \in StatusFile /\ snapshot' \in [Kinds -> StatusFile]
        /\ next' \in [Kinds -> [goto : {"idle", "setup"}, code : Exits]]
    BY <2>1, WrittenType DEF Replace
  <2>5. pc' \in [Kinds -> PCs] /\ exit' \in [Kinds -> Exits] /\ faults' \in Nat
    <3>1. CASE Rename(k)
      BY <3>1 DEF Rename, Leave, Goto, TypeOK
    <3>2. CASE CloseRaises(k)
      BY <3>2 DEF CloseRaises, Fault, Leave, Goto, TypeOK
    <3>3. QED
      BY <1>5, <3>1, <3>2
  <2>6. QED
    BY <2>1, <2>2, <2>3, <2>4, <2>5 DEF Replace, TypeOK
<1>6. ASSUME NEW k \in Kinds, RenameRaises(k)
      PROVE  TypeOK'
  <2>1. /\ pc' \in [Kinds -> PCs] /\ entry' \in StatusFile /\ snapshot' \in [Kinds -> StatusFile]
        /\ next' \in [Kinds -> [goto : {"idle", "setup"}, code : Exits]]
        /\ exit' \in [Kinds -> Exits]
    <3>1. CASE entry[k].state \in {"paused", "cooling", "halted"}
      BY <1>6, <3>1, WriteType DEF RenameRaises, States, TypeOK
    <3>2. CASE entry[k].state \notin {"paused", "cooling", "halted"}
      BY <1>6, <3>2, WrittenType DEF RenameRaises, Leave, Goto, TypeOK
    <3>3. QED
      BY <3>1, <3>2
  <2>2. QED
    BY <1>6, <2>1 DEF RenameRaises, TypeOK
<1>7. ASSUME NEW k \in Kinds, Skip(k) \/ StartContext(k)
      PROVE  TypeOK'
  <2>1. CASE Skip(k)
    BY <2>1 DEF Skip, TypeOK
  <2>2. CASE StartContext(k)
    BY <2>2 DEF StartContext, Goto, TypeOK
  <2>3. QED
    BY <1>7, <2>1, <2>2
<1>8. ASSUME NEW k \in Kinds, Resolve(k)
      PROVE  TypeOK'
  <2>1. rows' \in [Kinds -> [Items -> Row]]
    BY <1>8, UpsertType DEF Resolve, RowStatus, Settled
  <2>2. at' \in [Kinds -> Nat]
    BY <1>8 DEF Resolve, TypeOK
  <2>3. QED
    BY <1>8, <2>1, <2>2 DEF Resolve, TypeOK
<1>9. ASSUME NEW k \in Kinds, Start(k)
      PROVE  TypeOK'
  <2>1. rows' \in [Kinds -> [Items -> Row]]
    BY <1>9, UpsertType DEF Start, RowStatus
  <2>2. QED
    BY <1>9, <2>1 DEF Start, Goto, TypeOK
<1>10. ASSUME NEW k \in Kinds, Finish(k)
       PROVE  TypeOK'
  <2>1. rows' \in [Kinds -> [Items -> Row]]
    <3>1. (<<k, Item(k)>> \in landed) \in BOOLEAN /\ "done" \in RowStatus
      BY DEF RowStatus, Settled
    <3>2. QED
      BY <1>10, <3>1, UpsertType DEF Finish
  <2>2. at' \in [Kinds -> Nat] /\ pc' \in [Kinds -> PCs]
    BY <1>10 DEF Finish, Goto, TypeOK
  <2>3. QED
    BY <1>10, <2>1, <2>2 DEF Finish, TypeOK
<1>11. ASSUME NEW k \in Kinds, NEW s \in States, NEW until \in Nat, NEW code \in Exits,
              NEW r \in RowStatus, NEW key \in BOOLEAN,
              Upsert(k, r, key) \/ rows' = rows, WriteStatus(k, s, until, "idle", code),
              UNCHANGED <<fileVars, world, list, at, exit, limited>>, faults' \in Nat
       PROVE  TypeOK'
  <2>1. rows' \in [Kinds -> [Items -> Row]]
    BY <1>11, UpsertType DEF TypeOK
  <2>2. /\ pc' \in [Kinds -> PCs] /\ entry' \in StatusFile /\ snapshot' \in [Kinds -> StatusFile]
        /\ next' \in [Kinds -> [goto : {"idle", "setup"}, code : Exits]]
    BY <1>11, WriteType
  <2>3. QED
    BY <1>11, <2>1, <2>2 DEF TypeOK
<1>12. ASSUME NEW k \in Kinds,
              Halt(k) \/ Defer(k) \/ OverBudget(k) \/ HitLimit(k) \/ Raise(k) \/ Complete(k)
       PROVE  TypeOK'
  <2>1. faults \in Nat /\ faults + 1 \in Nat /\ now + Cooldown \in Nat /\ 0 \in Nat
    BY DEF TypeOK
  <2>2. CASE Halt(k)
    BY <1>11, <2>1, <2>2 DEF Halt, RowStatus, Settled, States
  <2>3. CASE Defer(k)
    <3>1. PICK s \in {"blocked", "contention"}, key \in BOOLEAN : Upsert(k, s, key)
      BY <2>3 DEF Defer
    <3>2. QED
      BY <1>11, <2>1, <2>3, <3>1 DEF Defer, Fault, RowStatus, States
  <2>4. CASE OverBudget(k)
    BY <1>11, <2>1, <2>4 DEF OverBudget, Fault, RowStatus, States
  <2>5. CASE HitLimit(k)
    BY <1>11, <2>1, <2>5 DEF HitLimit, Fault, RowStatus, States
  <2>6. CASE Raise(k)
    BY <1>11, <2>1, <2>6 DEF Raise, Fault, RowStatus, States
  <2>7. CASE Complete(k)
    BY <1>11, <2>1, <2>7 DEF Complete, RowStatus, States
  <2>8. QED
    BY <1>12, <2>2, <2>3, <2>4, <2>5, <2>6, <2>7
<1>13. ASSUME NEW k \in Kinds, Land(k)
       PROVE  TypeOK'
  <2>1. Item(k) \in Items
    BY <1>13, ItemType DEF Land, RunInv, RunOK, InLoop
  <2>2. QED
    BY <1>13, <2>1 DEF Land, TypeOK
<1>14. ASSUME NEW k \in Kinds, Kill(k) \/ SetupRaises(k)
       PROVE  TypeOK'
  <2>1. /\ entry' \in StatusFile /\ snapshot' \in [Kinds -> StatusFile]
        /\ next' \in [Kinds -> [goto : {"idle", "setup"}, code : Exits]]
    BY <1>14, WrittenType DEF Kill, SetupRaises
  <2>2. pc' \in [Kinds -> PCs] /\ exit' \in [Kinds -> Exits] /\ faults' \in Nat
    <3>1. Fault /\ (Leave(k, "killed") \/ Leave(k, "unstarted"))
      BY <1>14 DEF Kill, SetupRaises
    <3>2. pc' = [pc EXCEPT ![k] = "idle"] /\ \E code \in Exits : exit' = [exit EXCEPT ![k] = code]
      BY <3>1 DEF Leave, Goto
    <3>3. QED
      BY <3>1, <3>2 DEF Fault, TypeOK
  <2>3. QED
    BY <1>14, <2>1, <2>2 DEF Kill, SetupRaises, TypeOK
<1>15. CASE Tick
  BY <1>15 DEF Tick, TypeOK
<1>16. CASE UNCHANGED vars
  BY <1>16 DEF vars, TypeOK
<1>17. QED
  BY <1>1, <1>2, <1>3, <1>4, <1>5, <1>6, <1>7, <1>8, <1>9, <1>10, <1>12, <1>13, <1>14, <1>15, <1>16
  DEF Next, RunStep

-----------------------------------------------------------------------------
(* A settled row stands. *)

\* A step changes no row, or one row that was not settled.
RowChange ==
    \/ rows' = rows
    \/ \E k \in Kinds, i \in Items, row \in Row :
          ~ IsSettled(k, i) /\ rows' = [rows EXCEPT ![k][i] = row]

\* Recording a status for an unsettled item is such a change.
LEMMA UpsertChange ==
    ASSUME TypeOK, NEW k \in Kinds, NEW s \in RowStatus, NEW key \in BOOLEAN,
           Upsert(k, s, key), Item(k) \in Items, ~ IsSettled(k, Item(k))
    PROVE  RowChange
<1>1. [status |-> s, keyed |-> key] \in Row
  BY DEF Row
<1>2. QED
  BY <1>1 DEF Upsert, RowChange

\* The loop skips settled rows, and the item being run is not one.
LEMMA RowStep == RunInv /\ [Next]_vars => RowChange
<1> SUFFICES ASSUME RunInv, [Next]_vars
             PROVE  RowChange
  OBVIOUS
<1>0. TypeOK /\ \A k \in Kinds : RunOK(k)
  BY DEF RunInv
<1>1. ASSUME rows' = rows
      PROVE  RowChange
  BY <1>1 DEF RowChange
<1>2. ASSUME NEW k \in Kinds, pc[k] = "running"
      PROVE  Item(k) \in Items /\ ~ IsSettled(k, Item(k))
  BY <1>0, <1>2, ItemType DEF RunOK, InLoop
<1>3. ASSUME NEW k \in Kinds, pc[k] = "loop", at[k] <= Len(list[k])
      PROVE  Item(k) \in Items
  BY <1>0, <1>3, ItemType DEF RunOK, InLoop
<1>4. ASSUME NEW k \in Kinds, Invoke(k) \/ Enumerate(k) \/ ReadStatus(k) \/ WriteTemp(k) \/ Rename(k)
                \/ RenameRaises(k) \/ Skip(k) \/ Complete(k) \/ Land(k) \/ Raise(k)
                \/ StartContext(k) \/ SetupRaises(k) \/ CloseRaises(k) \/ Kill(k)
      PROVE  RowChange
  BY <1>1, <1>4 DEF Invoke, Enumerate, ReadStatus, WriteTemp, Rename, CloseRaises, Replace,
                    RenameRaises, StartContext, SetupRaises, Skip, Complete, Land, Raise, Kill
<1>5. ASSUME NEW k \in Kinds, Resolve(k)
      PROVE  RowChange
  <2>1. Item(k) \in Items /\ ~ IsSettled(k, Item(k))
    BY <1>3, <1>5 DEF Resolve, ByTrailer, IsSettled, Settled
  <2>2. QED
    BY <1>0, <1>5, <2>1, UpsertChange DEF Resolve, RowStatus, Settled
<1>6. ASSUME NEW k \in Kinds, Start(k)
      PROVE  RowChange
  <2>1. Item(k) \in Items /\ ~ IsSettled(k, Item(k))
    BY <1>3, <1>6 DEF Start, IsSettled
  <2>2. QED
    BY <1>0, <1>6, <2>1, UpsertChange DEF Start, RowStatus
<1>7. ASSUME NEW k \in Kinds, Finish(k)
      PROVE  RowChange
  <2>1. (<<k, Item(k)>> \in landed) \in BOOLEAN /\ "done" \in RowStatus
    BY DEF RowStatus, Settled
  <2>2. QED
    BY <1>0, <1>2, <1>7, <2>1, UpsertChange DEF Finish
<1>8. ASSUME NEW k \in Kinds, Halt(k) \/ OverBudget(k) \/ HitLimit(k)
      PROVE  RowChange
  BY <1>0, <1>2, <1>8, UpsertChange DEF Halt, OverBudget, HitLimit, RowStatus, Settled
<1>9. ASSUME NEW k \in Kinds, Defer(k)
      PROVE  RowChange
  <2>1. PICK s \in {"blocked", "contention"}, key \in BOOLEAN : Upsert(k, s, key)
    BY <1>9 DEF Defer
  <2>2. QED
    BY <1>0, <1>2, <1>9, <2>1, UpsertChange DEF Defer, RowStatus
<1>10. CASE Tick \/ UNCHANGED vars
  BY <1>1, <1>10 DEF Tick, vars
<1>11. QED
  BY <1>4, <1>5, <1>6, <1>7, <1>8, <1>9, <1>10 DEF Next, RunStep

\* So every settled row stands.
LEMMA RowsStand == TypeOK /\ RowChange => Standing
<1> SUFFICES ASSUME TypeOK, RowChange,
                    NEW k \in Kinds, NEW i \in Items, IsSettled(k, i)
             PROVE  rows'[k][i].status = rows[k][i].status
  BY DEF Standing
<1>1. CASE rows' = rows
  BY <1>1
<1>2. ASSUME NEW m \in Kinds, NEW n \in Items, NEW row \in Row,
             ~ IsSettled(m, n), rows' = [rows EXCEPT ![m][n] = row]
      PROVE  rows'[k][i].status = rows[k][i].status
  <2>1. m # k \/ n # i
    BY <1>2
  <2>2. rows'[k][i] = rows[k][i]
    BY <1>2, <2>1 DEF TypeOK
  <2>3. QED
    BY <2>2
<1>3. QED
  BY <1>1, <1>2 DEF RowChange

-----------------------------------------------------------------------------
(* A run has settled what lies behind it. *)

\* What a run knows to be settled stays so while others move.
LEMMA ListedStand ==
    ASSUME TypeOK, Standing, NEW k \in Kinds, list'[k] = list[k]
    PROVE  /\ \A j \in 1 .. Len(list[k]) : IsSettled(k, list[k][j]) => IsSettled(k, list[k][j])'
           /\ AllSettled(k) => AllSettled(k)'
<1>1. \A j \in 1 .. Len(list[k]) : list[k][j] \in Items
  BY DEF TypeOK
<1>2. \A i \in Items : IsSettled(k, i) => rows'[k][i].status \in Settled
  BY DEF Standing, IsSettled
<1>3. \A j \in 1 .. Len(list[k]) : IsSettled(k, list[k][j]) => rows'[k][list[k][j]].status \in Settled
  BY <1>1, <1>2
<1>4. ASSUME AllSettled(k)
      PROVE  AllSettled(k)'
  BY <1>3, <1>4 DEF AllSettled, Listed, IsSettled
<1>5. \A j \in 1 .. Len(list[k]) : IsSettled(k, list[k][j]) => IsSettled(k, list[k][j])'
  BY <1>3 DEF IsSettled
<1>6. QED
  BY <1>4, <1>5

\* Another kind's step leaves a run where it is.
LEMMA OthersStay ==
    ASSUME TypeOK, Standing, NEW k \in Kinds, RunOK(k), rows'[k] = rows[k], list'[k] = list[k],
           at'[k] = at[k], pc'[k] = pc[k], entry'[k] = entry[k], next'[k] = next[k],
           exit'[k] = exit[k]
    PROVE  RunOK(k)'
BY DEF RunOK, InLoop, Writing, Item, IsSettled, AllSettled, Listed

\* Every step keeps what a run knows of the items behind it.
LEMMA RunStepOK == RunInv /\ [Next]_vars => RunInv'
<1> SUFFICES ASSUME RunInv, [Next]_vars
             PROVE  RunInv'
  OBVIOUS
<1>1. TypeOK /\ TypeOK' /\ Standing /\ \A k \in Kinds : RunOK(k)
  BY TypeStep, RowStep, RowsStand DEF RunInv
<1>2. ASSUME NEW k \in Kinds, RunOK(k)',
             \A m \in Kinds \ {k} : /\ rows'[m] = rows[m] /\ list'[m] = list[m] /\ at'[m] = at[m]
                                    /\ pc'[m] = pc[m] /\ entry'[m] = entry[m]
                                    /\ next'[m] = next[m] /\ exit'[m] = exit[m]
      PROVE  RunInv'
  <2>1. ASSUME NEW m \in Kinds, m # k
        PROVE  RunOK(m)'
    BY <1>1, <1>2, <2>1, OthersStay
  <2>2. QED
    BY <1>1, <1>2, <2>1 DEF RunInv
<1>3. ASSUME NEW k \in Kinds, list'[k] = list[k]
      PROVE  /\ AllSettled(k) => AllSettled(k)'
             /\ \A j \in 1 .. Len(list[k]) : IsSettled(k, list[k][j]) => IsSettled(k, list[k][j])'
  BY <1>1, <1>3, ListedStand
<1> USE DEF TypeOK, StatusFile
<1>4. ASSUME NEW k \in Kinds, Invoke(k)
      PROVE  RunInv'
  <2>1. /\ rows' = rows /\ list' = list /\ at' = at /\ entry' = entry /\ next' = next
        /\ pc[k] = "idle"
        /\ \/ pc' = [pc EXCEPT ![k] = "idle"] /\ exit' = [exit EXCEPT ![k] = "paused"]
           \/ pc' = [pc EXCEPT ![k] = "invoked"] /\ exit' = exit
    BY <1>4 DEF Invoke, Leave, Goto, writeVars
  <2>2. RunOK(k)'
    BY <1>1, <2>1 DEF RunOK, InLoop, Writing
  <2>3. QED
    BY <1>1, <1>2, <2>1, <2>2
<1>5. ASSUME NEW k \in Kinds, Enumerate(k)
      PROVE  RunInv'
  <2>1. PICK l \in Enumerations[k] : list' = [list EXCEPT ![k] = l]
    BY <1>5 DEF Enumerate
  <2>2. /\ rows' = rows /\ exit' = exit
        /\ at' = [at EXCEPT ![k] = 1]
        /\ pc' = [pc EXCEPT ![k] = "read"]
        /\ entry' = [entry EXCEPT ![k] = [state |-> "running", until |-> 0]]
        /\ next' = [next EXCEPT ![k] = [goto |-> "setup", code |-> "none"]]
    BY <1>5 DEF Enumerate, WriteStatus, Goto
  <2>3. /\ list'[k] = l /\ at'[k] = 1 /\ pc'[k] = "read" /\ entry'[k].state = "running"
        /\ next'[k].code = "none"
    BY <1>1, <2>1, <2>2
  <2>4. RunOK(k)'
    BY <2>3 DEF RunOK, InLoop, Writing
  <2>5. QED
    BY <1>1, <1>2, <2>1, <2>2, <2>4
<1>6. ASSUME NEW k \in Kinds, ReadStatus(k) \/ WriteTemp(k)
      PROVE  RunInv'
  <2>1. /\ rows' = rows /\ exit' = exit /\ list' = list /\ at' = at /\ entry' = entry /\ next' = next
        /\ pc[k] \in {"read", "temp"}
        /\ pc' = [pc EXCEPT ![k] = "temp"] \/ pc' = [pc EXCEPT ![k] = "rename"]
    BY <1>6 DEF ReadStatus, WriteTemp, Goto, writeVars
  <2>2. RunOK(k)'
    BY <1>1, <1>3, <2>1 DEF RunOK, InLoop, Writing, IsSettled, AllSettled, Listed
  <2>3. QED
    BY <1>1, <1>2, <2>1, <2>2
<1>7. ASSUME NEW k \in Kinds, Rename(k)
      PROVE  RunInv'
  <2>1. /\ rows' = rows /\ list' = list /\ at' = at /\ pc[k] = "rename"
        /\ entry' = [entry EXCEPT ![k] = Nothing]
        /\ next' = [next EXCEPT ![k] = [goto |-> "idle", code |-> "none"]]
    BY <1>7 DEF Rename, Replace, Written
  <2>2. \/ /\ next[k].goto = "setup" /\ pc' = [pc EXCEPT ![k] = "setup"] /\ exit' = exit
        \/ /\ pc' = [pc EXCEPT ![k] = "idle"] /\ exit' = [exit EXCEPT ![k] = next[k].code]
    BY <1>7 DEF Rename, Leave, Goto
  <2>3. RunOK(k)'
    <3>1. next'[k].code = "none" /\ entry'[k].state = "none"
      BY <1>1, <2>1 DEF Nothing
    <3>2. list[k] \in Enumerations[k] /\ (next[k].code = "ok" => AllSettled(k))
      BY <1>1, <2>1 DEF RunOK, Writing
    <3>3. AllSettled(k) => AllSettled(k)'
      BY <1>3, <2>1
    <3>4. CASE next[k].goto = "setup" /\ pc' = [pc EXCEPT ![k] = "setup"]
      <4>1. /\ at[k] >= 1
            /\ \A j \in 1 .. Len(list[k]) : j < at[k] => IsSettled(k, list[k][j])
        BY <1>1, <2>1, <3>4 DEF RunOK, InLoop, Writing
      <4>2. pc'[k] = "setup" /\ list'[k] = list[k] /\ at'[k] = at[k]
        BY <1>1, <2>1, <3>4
      <4>3. QED
        BY <2>1, <3>1, <3>2, <4>1, <4>2 DEF RunOK, InLoop, Writing, IsSettled
    <3>5. CASE pc' = [pc EXCEPT ![k] = "idle"] /\ exit' = [exit EXCEPT ![k] = next[k].code]
      <4>1. pc'[k] = "idle" /\ exit'[k] = next[k].code
        BY <1>1, <3>5
      <4>2. QED
        BY <3>1, <3>2, <3>3, <4>1 DEF RunOK, InLoop, Writing
    <3>6. QED
      BY <2>2, <3>4, <3>5
  <2>4. QED
    BY <1>1, <1>2, <2>1, <2>2, <2>3
<1>8. ASSUME NEW k \in Kinds, NEW s \in States \ {"done"}, NEW until \in Nat,
             NEW code \in Exits \ {"ok"}, WriteStatus(k, s, until, "idle", code),
             UNCHANGED <<list, at, exit>>, pc[k] \notin {"idle", "invoked"},
             \A m \in Kinds \ {k} : rows'[m] = rows[m]
      PROVE  RunInv'
  <2>1. /\ pc' = [pc EXCEPT ![k] = "read"]
        /\ entry' = [entry EXCEPT ![k] = [state |-> s, until |-> until]]
        /\ next' = [next EXCEPT ![k] = [goto |-> "idle", code |-> code]]
    BY <1>8 DEF WriteStatus, Goto
  <2>2. /\ pc'[k] = "read" /\ next'[k].goto = "idle" /\ next'[k].code = code
        /\ entry'[k].state = s /\ list'[k] = list[k]
    BY <1>1, <1>8, <2>1
  <2>3. RunOK(k)'
    BY <1>1, <1>8, <2>2 DEF RunOK, InLoop, Writing
  <2>4. QED
    BY <1>1, <1>2, <1>8, <2>1, <2>3
<1>9. ASSUME NEW k \in Kinds, NEW code \in Exits \ {"ok"}, Leave(k, code), Written(k),
             UNCHANGED <<rows, list, at>>
      PROVE  RunInv'
  <2>1. /\ pc' = [pc EXCEPT ![k] = "idle"]
        /\ exit' = [exit EXCEPT ![k] = code]
        /\ entry' = [entry EXCEPT ![k] = Nothing]
        /\ next' = [next EXCEPT ![k] = [goto |-> "idle", code |-> "none"]]
    BY <1>9 DEF Leave, Goto, Written
  <2>2. pc'[k] = "idle" /\ exit'[k] = code /\ entry'[k].state = "none" /\ next'[k].code = "none"
    BY <1>1, <2>1 DEF Nothing
  <2>3. RunOK(k)'
    BY <2>2 DEF RunOK, InLoop, Writing
  <2>4. QED
    BY <1>1, <1>2, <1>9, <2>1, <2>3
<1>10. ASSUME NEW k \in Kinds,
              RenameRaises(k) \/ SetupRaises(k) \/ CloseRaises(k) \/ Kill(k)
       PROVE  RunInv'
  <2>1. CASE RenameRaises(k) /\ entry[k].state \in {"paused", "cooling", "halted"}
    BY <1>1, <1>8, <2>1 DEF RenameRaises, States, Exits
  <2>2. CASE RenameRaises(k) /\ entry[k].state \notin {"paused", "cooling", "halted"}
    BY <1>9, <2>2 DEF RenameRaises, Exits
  <2>3. CASE SetupRaises(k) \/ Kill(k)
    BY <1>9, <2>3 DEF SetupRaises, Kill, Exits
  <2>4. CASE CloseRaises(k)
    BY <1>9, <2>4 DEF CloseRaises, Replace, Exits
  <2>5. QED
    BY <1>10, <2>1, <2>2, <2>3, <2>4
<1>11. ASSUME NEW k \in Kinds, Halt(k) \/ OverBudget(k) \/ HitLimit(k) \/ Defer(k) \/ Raise(k)
       PROVE  RunInv'
  <2>1. pc[k] \in {"loop", "running"} /\ UNCHANGED <<list, at, exit>>
    BY <1>11 DEF Halt, OverBudget, HitLimit, Defer, Raise
  <2>2. \A m \in Kinds \ {k} : rows'[m] = rows[m]
    BY <1>1, <1>11 DEF Halt, OverBudget, HitLimit, Defer, Raise, Upsert
  <2>3. PICK s \in States \ {"done"}, until \in Nat, code \in Exits \ {"ok"} :
               WriteStatus(k, s, until, "idle", code)
    <3>1. now + Cooldown \in Nat /\ 0 \in Nat
      BY <1>1
    <3>2. QED
      BY <1>11, <3>1 DEF Halt, OverBudget, HitLimit, Defer, Raise, States, Exits
  <2>4. QED
    BY <1>8, <2>1, <2>2, <2>3
<1>12. ASSUME NEW k \in Kinds, Skip(k) \/ Resolve(k) \/ Finish(k)
       PROVE  RunInv'
  <2>1. /\ at' = [at EXCEPT ![k] = @ + 1] /\ list' = list /\ exit' = exit
        /\ entry' = entry /\ next' = next
        /\ pc[k] \in {"loop", "running"}
        /\ pc' = [pc EXCEPT ![k] = "loop"]
        /\ at[k] <= Len(list[k])
    BY <1>1, <1>12 DEF Skip, Resolve, Finish, Goto, writeVars, RunOK
  <2>2. \A m \in Kinds \ {k} : rows'[m] = rows[m]
    BY <1>1, <1>12 DEF Skip, Resolve, Finish, Upsert
  <2>3. at[k] >= 1
    BY <1>1, <2>1 DEF RunOK, InLoop
  <2>4. Item(k) \in Items
    BY <1>1, <2>1, <2>3, ItemType
  <2>5. rows'[k][Item(k)].status \in Settled
    <3>1. CASE Skip(k)
      BY <3>1 DEF Skip
    <3>2. CASE Resolve(k) \/ Finish(k)
      BY <1>1, <2>4, <3>2 DEF Resolve, Finish, Upsert, Settled
    <3>3. QED
      BY <1>12, <3>1, <3>2
  <2>6. ASSUME NEW j \in 1 .. Len(list[k]), j < at[k] + 1
        PROVE  rows'[k][list[k][j]].status \in Settled
    <3>1. CASE j = at[k]
      BY <2>5, <3>1 DEF Item
    <3>2. CASE j < at[k]
      BY <1>1, <1>3, <2>1, <3>2 DEF RunOK, InLoop, IsSettled
    <3>3. QED
      BY <1>1, <2>6, <3>1, <3>2
  <2>7. /\ at'[k] = at[k] + 1 /\ list'[k] = list[k] /\ pc'[k] = "loop"
        /\ next'[k] = next[k]
    BY <1>1, <2>1
  <2>8. RunOK(k)'
    <3>1. list[k] \in Enumerations[k] /\ (next[k].code = "ok" => next[k].goto = "idle")
      BY <1>1, <2>1 DEF RunOK
    <3>2. at'[k] >= 1 /\ \A j \in 1 .. Len(list'[k]) : j < at'[k] => rows'[k][list'[k][j]].status \in Settled
      BY <1>1, <2>3, <2>6, <2>7
    <3>3. QED
      BY <2>7, <3>1, <3>2 DEF RunOK, InLoop, Writing, IsSettled
  <2>9. QED
    BY <1>1, <1>2, <2>1, <2>2, <2>8
<1>13. ASSUME NEW k \in Kinds, Start(k)
       PROVE  RunInv'
  <2>1. /\ list' = list /\ exit' = exit /\ at' = at /\ entry' = entry /\ next' = next
        /\ pc[k] = "loop" /\ at[k] <= Len(list[k])
        /\ pc' = [pc EXCEPT ![k] = "running"]
        /\ Upsert(k, "in_progress", FALSE)
    BY <1>13 DEF Start, Goto, writeVars
  <2>2. at[k] >= 1 /\ Item(k) \in Items
    BY <1>1, <2>1, ItemType DEF RunOK, InLoop
  <2>3. rows'[k][Item(k)].status = "in_progress"
    BY <1>1, <2>1, <2>2 DEF Upsert
  <2>4. RunOK(k)'
    <3>1. \A j \in 1 .. Len(list[k]) : j < at[k] => IsSettled(k, list[k][j])'
      BY <1>1, <1>3, <2>1 DEF RunOK, InLoop
    <3>2. pc'[k] = "running" /\ ~ IsSettled(k, Item(k))'
      BY <1>1, <2>1, <2>3 DEF IsSettled, Settled, Item
    <3>3. QED
      BY <1>1, <2>1, <2>2, <3>1, <3>2 DEF RunOK, InLoop, Writing, IsSettled
  <2>5. \A m \in Kinds \ {k} : rows'[m] = rows[m]
    BY <1>1, <2>1 DEF Upsert
  <2>6. QED
    BY <1>1, <1>2, <2>1, <2>4, <2>5
<1>14. ASSUME NEW k \in Kinds, Complete(k)
       PROVE  RunInv'
  <2>1. /\ rows' = rows /\ list' = list /\ exit' = exit /\ at' = at
        /\ pc[k] = "loop" /\ at[k] > Len(list[k])
        /\ pc' = [pc EXCEPT ![k] = "read"]
        /\ entry' = [entry EXCEPT ![k] = [state |-> "done", until |-> 0]]
        /\ next' = [next EXCEPT ![k] = [goto |-> "idle", code |-> "ok"]]
    BY <1>14 DEF Complete, WriteStatus, Goto
  <2>2. AllSettled(k)'
    <3>1. AllSettled(k)
      <4>1. \A j \in 1 .. Len(list[k]) : j < at[k]
        BY <1>1, <2>1
      <4>2. \A j \in 1 .. Len(list[k]) : IsSettled(k, list[k][j])
        BY <1>1, <2>1, <4>1 DEF RunOK, InLoop
      <4>3. QED
        BY <4>2 DEF AllSettled, Listed
    <3>2. QED
      BY <1>3, <2>1, <3>1
  <2>3. RunOK(k)'
    <3>1. pc'[k] = "read" /\ next'[k].goto = "idle" /\ list'[k] \in Enumerations[k]
      BY <1>1, <2>1 DEF RunOK
    <3>2. QED
      BY <2>2, <3>1 DEF RunOK, InLoop, Writing
  <2>4. QED
    BY <1>1, <1>2, <2>1, <2>3
<1>15. ASSUME UNCHANGED <<rows, runVars, writeVars, exit>>
       PROVE  RunInv'
  <2>1. ASSUME NEW k \in Kinds
        PROVE  RunOK(k)'
    BY <1>1, <1>15, OthersStay DEF runVars, writeVars
  <2>2. QED
    BY <1>1, <2>1 DEF RunInv
<1>16. ASSUME NEW k \in Kinds, Land(k)
       PROVE  RunInv'
  BY <1>15, <1>16 DEF Land
<1>17. ASSUME NEW k \in Kinds, StartContext(k)
       PROVE  RunInv'
  <2>1. /\ UNCHANGED <<rows, list, at, entry, next, exit>> /\ pc[k] = "setup"
        /\ pc' = [pc EXCEPT ![k] = "loop"]
    BY <1>17 DEF StartContext, Goto, writeVars
  <2>2. RunOK(k)'
    BY <1>1, <2>1 DEF RunOK, InLoop, Writing, IsSettled
  <2>3. QED
    BY <1>1, <1>2, <2>1, <2>2
<1>18. CASE Tick \/ UNCHANGED vars
  BY <1>15, <1>18 DEF Tick, vars
<1>19. QED
  BY <1>4, <1>5, <1>6, <1>7, <1>10, <1>11, <1>12, <1>13, <1>14, <1>16, <1>17, <1>18
  DEF Next, RunStep

-----------------------------------------------------------------------------
(* The theorems. *)

\* Nothing has run yet.
LEMMA InitOK == Init => FileInv
<1> SUFFICES ASSUME Init
             PROVE  FileInv
  OBVIOUS
<1>1. Nothing \in Entry /\ Nothing.state = "none"
  BY DEF Nothing, Entry, States
<1>2. Blank \in StatusFile /\ \A k \in Kinds : Blank[k].state = "none"
  BY <1>1 DEF Blank, StatusFile
<1>3. TypeOK
  <2>1. rows \in [Kinds -> [Items -> Row]]
    BY DEF Init, Fresh, Row, RowStatus
  <2>2. /\ status \in StatusFile /\ temp = NoTemp /\ entry \in StatusFile
        /\ snapshot \in [Kinds -> StatusFile]
    BY <1>2 DEF Init
  <2>3. QED
    BY <2>1, <2>2 DEF Init, TypeOK, PCs, Exits
<1>4. \A k \in Kinds : RunOK(k)
  BY <1>2 DEF Init, RunOK, InLoop, Writing
<1>5. CopyOK(status) /\ \A k \in Kinds : CopyOK(snapshot[k])
  BY <1>2 DEF Init, CopyOK
<1>6. QED
  BY <1>3, <1>4, <1>5 DEF Init, FileInv, RunInv

\* Every variable keeps its type on every path through driver.run and write_status.
THEOREM TypeCorrect == Spec => []TypeOK
<1>1. Init => RunInv
  BY InitOK DEF FileInv
<1>2. RunInv => TypeOK
  BY DEF RunInv
<1>3. QED
  BY <1>1, <1>2, RunStepOK, PTL DEF Spec

\* Exit code 0 leaves nothing the run enumerated unsettled, however earlier runs were
\* paused, killed or cut short (driver.py run).
THEOREM OkIsComplete == Spec => []OkMeansSettled
<1>1. Init => RunInv
  BY InitOK DEF FileInv
<1>2. RunInv => OkMeansSettled
  BY DEF RunInv, RunOK, OkMeansSettled, AllSettled, IsSettled
<1>3. QED
  BY <1>1, <1>2, RunStepOK, PTL DEF Spec

\* A copy of status.json that was true stays true: settled rows stand.
LEMMA CopyStands ==
    ASSUME Standing, NEW file, CopyOK(file)
    PROVE  \A k \in Kinds : file[k].state = "done" =>
               \A i \in Always[k] : rows'[k][i].status \in Settled
BY DEF Standing, CopyOK, IsSettled, Always

\* Every step keeps every copy of status.json true where it says `done`.
LEMMA FileStep == FileInv /\ [Next]_vars => FileInv'
<1> SUFFICES ASSUME FileInv, [Next]_vars
             PROVE  FileInv'
  OBVIOUS
<1>1. TypeOK /\ RunInv /\ RunInv' /\ Standing
  BY RunStepOK, RowStep, RowsStand DEF FileInv, RunInv
<1>2. ASSUME NEW file, CopyOK(file)
      PROVE  \A k \in Kinds : file[k].state = "done" =>
                 \A i \in Always[k] : rows'[k][i].status \in Settled
  BY <1>1, <1>2, CopyStands
<1>3. /\ \A k \in Kinds : status[k].state = "done" =>
             \A i \in Always[k] : rows'[k][i].status \in Settled
      /\ temp # NoTemp => \A k \in Kinds : temp[k].state = "done" =>
             \A i \in Always[k] : rows'[k][i].status \in Settled
      /\ \A m \in Kinds : \A k \in Kinds : snapshot[m][k].state = "done" =>
             \A i \in Always[k] : rows'[k][i].status \in Settled
  BY <1>2 DEF FileInv
<1>4. ASSUME UNCHANGED <<status, temp, snapshot>>
      PROVE  FileInv'
  BY <1>1, <1>3, <1>4 DEF FileInv, CopyOK, IsSettled
<1>5. \A m \in Kinds : Blank[m].state = "none"
  BY DEF Blank, Nothing
<1>6. ASSUME NEW k \in Kinds, ReadStatus(k)
      PROVE  FileInv'
  <2>1. UNCHANGED <<status, temp>> /\ snapshot' = [snapshot EXCEPT ![k] = status]
    BY <1>6 DEF ReadStatus, fileVars
  <2>2. \A m \in Kinds : snapshot'[m] = snapshot[m] \/ snapshot'[m] = status
    BY <1>1, <2>1 DEF TypeOK
  <2>3. QED
    BY <1>1, <1>3, <2>1, <2>2 DEF FileInv, CopyOK, IsSettled
<1>7. ASSUME NEW k \in Kinds, WriteTemp(k)
      PROVE  FileInv'
  <2>1. /\ UNCHANGED <<status, snapshot, rows>> /\ temp' = [snapshot[k] EXCEPT ![k] = entry[k]]
        /\ pc[k] = "temp"
    BY <1>7 DEF WriteTemp, writeVars
  <2>2. ASSUME entry[k].state = "done", NEW i \in Always[k]
        PROVE  rows'[k][i].status \in Settled
    <3>1. list[k] \in Enumerations[k] /\ AllSettled(k)
      BY <1>1, <2>1, <2>2 DEF RunInv, RunOK, Writing
    <3>2. i \in Listed(k)
      BY <3>1 DEF Always, Listed
    <3>3. QED
      BY <2>1, <3>1, <3>2 DEF AllSettled, IsSettled
  <2>3. \A m \in Kinds : temp'[m] = IF m = k THEN entry[k] ELSE snapshot[k][m]
    BY <1>1, <2>1 DEF TypeOK, StatusFile
  <2>4. \A m \in Kinds : temp'[m].state = "done" =>
            \A i \in Always[m] : rows'[m][i].status \in Settled
    BY <1>3, <2>2, <2>3
  <2>5. QED
    BY <1>1, <1>3, <2>1, <2>4 DEF FileInv, CopyOK, IsSettled
<1>8. ASSUME NEW k \in Kinds,
             Rename(k) \/ CloseRaises(k) \/ RenameRaises(k) \/ SetupRaises(k) \/ Kill(k)
      PROVE  FileInv'
  <2>1. \/ temp # NoTemp /\ status' = temp /\ temp' = NoTemp
        \/ UNCHANGED <<status, temp>>
    BY <1>8 DEF Rename, CloseRaises, Replace, RenameRaises, SetupRaises, Kill, fileVars
  <2>2. snapshot' = snapshot \/ snapshot' = [snapshot EXCEPT ![k] = Blank]
    BY <1>8 DEF Rename, CloseRaises, Replace, RenameRaises, SetupRaises, Kill, Written, WriteStatus
  <2>3. \A m \in Kinds : snapshot'[m] = snapshot[m] \/ snapshot'[m] = Blank
    BY <1>1, <2>2 DEF TypeOK
  <2>4. \A m \in Kinds : \A n \in Kinds : snapshot'[m][n].state = "done" =>
            \A i \in Always[n] : rows'[n][i].status \in Settled
    BY <1>3, <1>5, <2>3
  <2>5. QED
    BY <1>1, <1>3, <2>1, <2>4 DEF FileInv, CopyOK, IsSettled
<1>9. ASSUME NEW k \in Kinds,
             Invoke(k) \/ Enumerate(k) \/ StartContext(k)
             \/ Skip(k) \/ Resolve(k) \/ Start(k) \/ Finish(k) \/ Halt(k) \/ Complete(k) \/ Land(k) \/ Defer(k) \/ OverBudget(k) \/ HitLimit(k) \/ Raise(k)
      PROVE  FileInv'
  <2>1. UNCHANGED <<status, temp, snapshot>>
    BY <1>9 DEF Invoke, Enumerate, StartContext, Skip, Resolve, Start, Finish, Halt,
                Complete, Land, Defer, OverBudget, HitLimit, Raise, WriteStatus, fileVars, writeVars
  <2>2. QED
    BY <1>4, <2>1
<1>10. CASE Tick \/ UNCHANGED vars
  BY <1>4, <1>10 DEF Tick, vars, fileVars, writeVars
<1>11. QED
  BY <1>6, <1>7, <1>8, <1>9, <1>10 DEF Next, RunStep

\* status.json says `done` of a kind only when all it always enumerates is settled, even
\* where a concurrent writer has put an old copy back (status.py write_status).
THEOREM DoneIsComplete == Spec => []DoneMeansSettled
<1>1. FileInv => DoneMeansSettled
  BY DEF FileInv, CopyOK, DoneMeansSettled, IsSettled
<1>2. QED
  BY <1>1, InitOK, FileStep, PTL DEF Spec

\* The driver implements the job queue: an item's verdict is given once and stands,
\* through pauses, kills, retries and lost status writes.
THEOREM Refinement == Spec => VerdictsStand
<1>1. Init => Queue!Init
  BY DEF Init, Queue!Init, verdict, Fresh, Settled
<1>2. RunInv /\ [Next]_vars => [Queue!Next]_verdict
  <2> SUFFICES ASSUME RunInv, [Next]_vars
               PROVE  [Queue!Next]_verdict
    OBVIOUS
  <2>1. RowChange /\ TypeOK
    BY RowStep DEF RunInv
  <2>2. CASE rows' = rows
    BY <2>2 DEF verdict
  <2>3. ASSUME NEW k \in Kinds, NEW i \in Items, NEW row \in Row,
               ~ IsSettled(k, i), rows' = [rows EXCEPT ![k][i] = row]
        PROVE  [Queue!Next]_verdict
    <3>1. verdict[k][i] = "none"
      BY <2>3 DEF verdict, IsSettled
    <3>2. rows' \in [Kinds -> [Items -> Row]] /\ rows'[k][i] = row
          /\ \A m \in Kinds, n \in Items : m # k \/ n # i => rows'[m][n] = rows[m][n]
      BY <2>1, <2>3 DEF TypeOK
    <3>3. CASE row.status \in Settled
      <4>1. verdict' = [verdict EXCEPT ![k][i] = row.status]
        <5>1. verdict \in [Kinds -> [Items -> Settled \cup {"none"}]]
              /\ verdict' \in [Kinds -> [Items -> Settled \cup {"none"}]]
          BY DEF verdict
        <5>2. verdict'[k][i] = row.status
          BY <3>2, <3>3 DEF verdict
        <5>3. \A m \in Kinds, n \in Items : m # k \/ n # i => verdict'[m][n] = verdict[m][n]
          BY <3>2 DEF verdict
        <5>4. QED
          BY <5>1, <5>2, <5>3
      <4>2. row.status \in Queue!Verdicts
        BY <3>3 DEF Settled, Queue!Verdicts
      <4>3. QED
        BY <3>1, <4>1, <4>2 DEF Queue!Next, Queue!Settle
    <3>4. CASE row.status \notin Settled
      <4>1. \A m \in Kinds, n \in Items : verdict'[m][n] = verdict[m][n]
        BY <2>3, <3>2, <3>4 DEF verdict, IsSettled
      <4>2. verdict' = verdict
        BY <4>1 DEF verdict
      <4>3. QED
        BY <4>2
    <3>5. QED
      BY <3>3, <3>4
  <2>4. QED
    BY <2>1, <2>2, <2>3 DEF RowChange
<1>3. Init => RunInv
  BY InitOK DEF FileInv
<1>4. QED
  BY <1>1, <1>2, <1>3, RunStepOK, PTL DEF Spec, VerdictsStand, Queue!Safe

-----------------------------------------------------------------------------
(* One kind alone. *)

\* status.json is shared by every kind, so what it says of a run that ended and of a
\* cool-down is only as good as the other kinds let it be: these are the promises to a kind
\* that runs alone.
RunsAlone == \A k, l \in Kinds : k = l

\* A write tells how the run goes on: it is live, or the state that its exit code stands for.
Tells(k) ==
    IF next[k].goto = "setup" THEN entry[k].state = "running"
    ELSE entry[k].state \in StateAfter(next[k].code) \ {"none", "running"}

\* A cool-down is over, or the file announces it and no run has begun since.
Obeyed(k) ==
    \/ limited[k] <= now
    \/ pc[k] = "idle" /\ status[k].state = "cooling" /\ status[k].until = limited[k]

AloneOK(k) ==
    /\ pc[k] = "idle" => status[k].state \in StateAfter(exit[k])
    /\ Obeyed(k)
    /\ Writing(k) => Tells(k)
    /\ pc[k] = "rename" => temp # NoTemp /\ temp[k] = entry[k]

AloneInv == TypeOK /\ \A k \in Kinds : AloneOK(k)

\* The states the exit codes stand for.
LEMMA StatesAfter ==
    /\ StateAfter("none") = {"none"}
    /\ StateAfter("ok") = {"done"}
    /\ StateAfter("paused") = {"paused", "cooling"}
    /\ StateAfter("halted") = {"halted"}
    /\ StateAfter("raised") = States \ {"none", "running"}
    /\ StateAfter("killed") = States
    /\ StateAfter("unstarted") = States
BY DEF StateAfter

\* A run that begins to write its status, saying the right thing, has done nothing else yet.
LEMMA WriteBegins ==
    ASSUME AloneInv, NEW k \in Kinds, pc[k] # "idle", UNCHANGED <<limited, now>>,
           NEW s \in States, NEW until \in Nat, NEW goto \in {"idle", "setup"}, NEW code \in Exits,
           WriteStatus(k, s, until, goto, code),
           IF goto = "setup" THEN s = "running" ELSE s \in StateAfter(code) \ {"none", "running"}
    PROVE  AloneOK(k)'
<1>1. pc'[k] = "read" /\ entry'[k].state = s /\ next'[k].goto = goto /\ next'[k].code = code
  BY DEF WriteStatus, Goto, AloneInv, TypeOK, StatusFile
<1>2. limited'[k] <= now'
  BY DEF AloneInv, AloneOK, Obeyed
<1>3. QED
  BY <1>1, <1>2 DEF AloneOK, Obeyed, Tells

\* So has one that goes on within its loop.
LEMMA LoopGoesOn ==
    ASSUME AloneInv, NEW k \in Kinds, pc[k] \in {"setup", "loop", "running"},
           pc'[k] \in {"loop", "running"}, UNCHANGED <<limited, now>>
    PROVE  AloneOK(k)'
BY DEF AloneInv, AloneOK, Obeyed, Writing

\* The rename publishes what the run wrote.
LEMMA Published ==
    ASSUME RunsAlone, AloneInv, NEW k \in Kinds, Replace(k)
    PROVE  /\ status'[k] = entry[k] /\ entry[k] \in Entry /\ Tells(k) /\ pc[k] = "rename"
           /\ now' = now /\ limited[k] <= now
           /\ limited'[k] = IF entry[k].state = "cooling" THEN entry[k].until ELSE limited[k]
<1>1. pc[k] = "rename" /\ status' = temp /\ now' = now
  BY DEF Replace, world
<1>2. temp[k] = entry[k] /\ Tells(k) /\ limited[k] <= now
  BY <1>1 DEF AloneInv, AloneOK, Obeyed, Writing
<1>3. limited'[k] = IF entry[k].state = "cooling" THEN entry[k].until ELSE limited[k]
  BY DEF Replace, AloneInv, TypeOK
<1>4. entry[k] \in Entry
  BY DEF AloneInv, TypeOK, StatusFile
<1>5. QED
  BY <1>1, <1>2, <1>3, <1>4

LEMMA AloneStep == RunsAlone /\ RunInv /\ AloneInv /\ [Next]_vars => AloneInv'
<1> SUFFICES ASSUME RunsAlone, RunInv, AloneInv, [Next]_vars
             PROVE  AloneInv'
  OBVIOUS
<1>1. TypeOK /\ TypeOK' /\ \A k \in Kinds : AloneOK(k)
  BY TypeStep DEF AloneInv
<1>2. ASSUME NEW k \in Kinds, AloneOK(k)'
      PROVE  AloneInv'
  <2>1. \A m \in Kinds : m = k
    BY DEF RunsAlone
  <2>2. QED
    BY <1>1, <1>2, <2>1 DEF AloneInv
<1>3. ASSUME NEW k \in Kinds, Invoke(k)
      PROVE  AloneInv'
  <2>1. /\ pc[k] = "idle" /\ UNCHANGED <<status, now, limited>>
        /\ \/ /\ status[k].state = "cooling" /\ now < status[k].until
              /\ pc'[k] = "idle" /\ exit'[k] = "paused"
           \/ /\ ~ (status[k].state = "cooling" /\ now < status[k].until)
              /\ pc'[k] = "invoked"
    BY <1>1, <1>3 DEF Invoke, Leave, Goto, TypeOK, fileVars, world, history
  <2>2. now \in Nat /\ limited[k] \in Nat /\ AloneOK(k)
    BY <1>1 DEF TypeOK
  <2>3. AloneOK(k)'
    BY <2>1, <2>2, StatesAfter DEF AloneOK, Obeyed, Writing
  <2>4. QED
    BY <1>2, <2>3
<1>4. ASSUME NEW k \in Kinds, Enumerate(k)
      PROVE  AloneInv'
  <2>1. /\ pc[k] = "invoked" /\ UNCHANGED <<limited, now>>
        /\ WriteStatus(k, "running", 0, "setup", "none")
    BY <1>4 DEF Enumerate, world, history
  <2>2. AloneOK(k)'
    BY <1>1, <2>1, WriteBegins DEF States, Exits
  <2>3. QED
    BY <1>2, <2>2
<1>5. ASSUME NEW k \in Kinds, ReadStatus(k)
      PROVE  AloneInv'
  <2>1. pc[k] = "read" /\ pc'[k] = "temp" /\ UNCHANGED <<entry, next, now, limited>>
    BY <1>1, <1>5 DEF ReadStatus, Goto, TypeOK, world, history
  <2>2. AloneOK(k)'
    BY <1>1, <2>1 DEF AloneOK, Obeyed, Writing, Tells
  <2>3. QED
    BY <1>2, <2>2
<1>6. ASSUME NEW k \in Kinds, WriteTemp(k)
      PROVE  AloneInv'
  <2>1. pc[k] = "temp" /\ pc'[k] = "rename" /\ UNCHANGED <<entry, next, now, limited>>
    BY <1>1, <1>6 DEF WriteTemp, Goto, TypeOK, writeVars, world, history
  <2>2. temp' # NoTemp /\ temp'[k] = entry[k]
    <3>1. snapshot[k] \in StatusFile /\ temp' = [snapshot[k] EXCEPT ![k] = entry[k]]
      BY <1>1, <1>6 DEF WriteTemp, TypeOK
    <3>2. temp'[k] = entry[k] /\ DOMAIN temp' = Kinds
      BY <3>1 DEF StatusFile
    <3>3. DOMAIN NoTemp = {}
      BY DEF NoTemp
    <3>4. QED
      BY <3>2, <3>3
  <2>3. AloneOK(k)'
    BY <1>1, <2>1, <2>2 DEF AloneOK, Obeyed, Writing, Tells
  <2>4. QED
    BY <1>2, <2>3
<1>7. ASSUME NEW k \in Kinds, Rename(k)
      PROVE  AloneInv'
  <2>1. /\ status'[k] = entry[k] /\ Tells(k) /\ now' = now /\ limited[k] <= now
        /\ limited'[k] = IF entry[k].state = "cooling" THEN entry[k].until ELSE limited[k]
    BY <1>7, Published DEF Rename
  <2>2. CASE next[k].goto = "setup"
    <3>1. pc'[k] = "setup" /\ entry[k].state = "running"
      BY <1>1, <1>7, <2>1, <2>2 DEF Rename, Goto, TypeOK, Tells
    <3>2. AloneOK(k)'
      BY <2>1, <3>1 DEF AloneOK, Obeyed, Writing
    <3>3. QED
      BY <1>2, <3>2
  <2>3. CASE next[k].goto # "setup"
    <3>1. pc'[k] = "idle" /\ exit'[k] = next[k].code
      BY <1>1, <1>7, <2>3 DEF Rename, Leave, Goto, TypeOK
    <3>2. status'[k].state \in StateAfter(exit'[k])
      BY <2>1, <2>3, <3>1 DEF Tells
    <3>3. Obeyed(k)'
      BY <2>1, <3>1 DEF Obeyed
    <3>4. AloneOK(k)'
      BY <3>1, <3>2, <3>3 DEF AloneOK, Writing
    <3>5. QED
      BY <1>2, <3>4
  <2>4. QED
    BY <2>2, <2>3
<1>8. ASSUME NEW k \in Kinds, CloseRaises(k)
      PROVE  AloneInv'
  <2>1. /\ status'[k] = entry[k] /\ entry[k] \in Entry /\ Tells(k) /\ now' = now /\ limited[k] <= now
        /\ limited'[k] = IF entry[k].state = "cooling" THEN entry[k].until ELSE limited[k]
    BY <1>8, Published DEF CloseRaises
  <2>2. pc'[k] = "idle" /\ exit'[k] = "raised" /\ next[k].goto = "idle"
    BY <1>1, <1>8 DEF CloseRaises, Leave, Goto, TypeOK
  <2>3. status'[k].state \in StateAfter(exit'[k])
    BY <2>1, <2>2, StatesAfter DEF Tells, Entry
  <2>4. Obeyed(k)'
    BY <2>1, <2>2 DEF Obeyed
  <2>5. AloneOK(k)'
    BY <2>2, <2>3, <2>4 DEF AloneOK, Writing
  <2>6. QED
    BY <1>2, <2>5
<1>9. ASSUME NEW k \in Kinds, RenameRaises(k)
      PROVE  AloneInv'
  \* Nobody else can have taken the file.
  BY <1>1, <1>9 DEF RenameRaises, AloneOK
<1>10. ASSUME NEW k \in Kinds,
              StartContext(k) \/ Skip(k) \/ Resolve(k) \/ Start(k) \/ Finish(k) \/ Land(k)
       PROVE  AloneInv'
  <2>1. /\ pc[k] \in {"setup", "loop", "running"} /\ pc'[k] \in {"loop", "running"}
        /\ UNCHANGED <<limited, now>>
    BY <1>1, <1>10 DEF StartContext, Skip, Resolve, Start, Finish, Land, Goto, TypeOK, runVars, world, history
  <2>2. AloneOK(k)'
    BY <1>1, <2>1, LoopGoesOn DEF AloneInv
  <2>3. QED
    BY <1>2, <2>2
<1>11. ASSUME NEW k \in Kinds,
              Halt(k) \/ Defer(k) \/ OverBudget(k) \/ HitLimit(k) \/ Raise(k) \/ Complete(k)
       PROVE  AloneInv'
  <2>1. PICK s \in States, until \in Nat, code \in Exits :
          /\ WriteStatus(k, s, until, "idle", code)
          /\ s \in StateAfter(code) \ {"none", "running"}
    <3>1. now + Cooldown \in Nat
      BY <1>1 DEF TypeOK
    <3>2. CASE Halt(k)
      BY <3>2, StatesAfter DEF Halt, States, Exits
    <3>3. CASE Defer(k) \/ OverBudget(k)
      BY <3>3, StatesAfter DEF Defer, OverBudget, States, Exits
    <3>4. CASE HitLimit(k)
      BY <3>1, <3>4, StatesAfter DEF HitLimit, States, Exits
    <3>5. CASE Raise(k)
      BY <3>5, StatesAfter DEF Raise, States, Exits
    <3>6. CASE Complete(k)
      BY <3>6, StatesAfter DEF Complete, States, Exits
    <3>7. QED
      BY <1>11, <3>2, <3>3, <3>4, <3>5, <3>6
  <2>2. pc[k] # "idle" /\ UNCHANGED <<limited, now>>
    BY <1>11 DEF Halt, Defer, OverBudget, HitLimit, Raise, Complete, world, history
  <2>3. AloneOK(k)'
    BY <2>1, <2>2, WriteBegins
  <2>4. QED
    BY <1>2, <2>3
<1>12. ASSUME NEW k \in Kinds, Kill(k) \/ SetupRaises(k)
       PROVE  AloneInv'
  <2>1. /\ pc[k] # "idle" /\ pc'[k] = "idle" /\ exit'[k] \in {"killed", "unstarted"}
        /\ UNCHANGED <<status, now, limited>>
    BY <1>1, <1>12 DEF Kill, SetupRaises, Leave, Goto, TypeOK, fileVars, world
  <2>2. status[k].state \in States
    BY <1>1 DEF TypeOK, StatusFile, Entry
  <2>3. AloneOK(k)'
    BY <1>1, <2>1, <2>2, StatesAfter DEF AloneOK, Obeyed, Writing
  <2>4. QED
    BY <1>2, <2>3
<1>13. CASE Tick
  <2>1. /\ now \in Nat /\ now' = now + 1 /\ \A k \in Kinds : limited[k] \in Nat
        /\ UNCHANGED <<status, temp, pc, entry, next, exit, limited>>
    BY <1>1, <1>13 DEF Tick, TypeOK, fileVars, runVars, writeVars, history
  <2>2. \A k \in Kinds : AloneOK(k)'
    BY <1>1, <2>1 DEF AloneOK, Obeyed, Writing, Tells
  <2>3. QED
    BY <1>1, <2>2 DEF AloneInv
<1>14. CASE UNCHANGED vars
  BY <1>1, <1>14 DEF vars, fileVars, world, runVars, writeVars, history, AloneInv, AloneOK, Obeyed,
     Writing, Tells
<1>15. QED
  BY <1>3, <1>4, <1>5, <1>6, <1>7, <1>8, <1>9, <1>10, <1>11, <1>12, <1>13, <1>14 DEF Next, RunStep

\* What status.json says of a kind that runs alone is how its last run ended, if that run got
\* to its item loop and was not killed, and no run of it begins within an announced cool-down,
\* through pauses, raises in and before the loop and kills at every point of the three-step
\* write (driver.py, status.py).
THEOREM StatusIsBelieved ==
    ASSUME RunsAlone
    PROVE  Spec => StatusHolds
<1>1. Init => AloneInv
  <2>1. SUFFICES ASSUME Init
                 PROVE  AloneInv
    OBVIOUS
  <2>2. TypeOK
    BY <2>1, InitOK DEF FileInv, RunInv
  <2>3. ASSUME NEW k \in Kinds
        PROVE  AloneOK(k)
    BY <2>1, StatesAfter DEF Init, Blank, Nothing, AloneOK, Obeyed, Writing
  <2>4. QED
    BY <2>2, <2>3 DEF AloneInv
<1>2. RunInv /\ AloneInv /\ [Next]_vars => AloneInv'
  BY AloneStep
<1>3. AloneInv /\ AloneInv' /\ [Next]_vars => [StatusTellsExit' /\ CooldownHonoured]_vars
  <2>1. AloneInv' => StatusTellsExit'
    BY DEF AloneInv, AloneOK, StatusTellsExit
  <2>2. ASSUME AloneInv, [Next]_vars, NEW k \in Kinds, pc[k] = "idle", pc'[k] = "invoked"
        PROVE  now >= limited[k]
    <3>1. Invoke(k)
      <4>1. ~ (RunStep(k) \/ Land(k) \/ Defer(k) \/ OverBudget(k) \/ HitLimit(k) \/ Raise(k)
               \/ SetupRaises(k) \/ CloseRaises(k) \/ Kill(k))
        BY <2>2 DEF RunStep, StartContext, SetupRaises, Enumerate, ReadStatus, WriteTemp, Rename, Replace, RenameRaises, Skip,
           Resolve, Start, Finish, Halt, Complete, Land, Defer, OverBudget, HitLimit, Raise,
           CloseRaises, Kill
      <4>2. ~ Tick /\ ~ UNCHANGED vars
        BY <2>2 DEF Tick, vars, runVars
      <4>3. \A m \in Kinds : m = k
        BY DEF RunsAlone
      <4>4. PICK m \in Kinds : Invoke(m) \/ RunStep(m) \/ Land(m) \/ Defer(m) \/ OverBudget(m)
                               \/ HitLimit(m) \/ Raise(m) \/ SetupRaises(m) \/ CloseRaises(m)
                               \/ Kill(m)
        BY <2>2, <4>2 DEF Next
      <4>5. QED
        BY <4>1, <4>3, <4>4
    <3>2. ~ (status[k].state = "cooling" /\ now < status[k].until)
      BY <2>2, <3>1 DEF Invoke, Leave, Goto, AloneInv, TypeOK
    <3>3. now \in Nat /\ limited[k] \in Nat /\ Obeyed(k)
      BY <2>2 DEF AloneInv, AloneOK, TypeOK
    <3>4. QED
      BY <3>2, <3>3 DEF Obeyed
  <2>3. QED
    BY <2>1, <2>2 DEF CooldownHonoured
<1>4. Init => RunInv
  BY InitOK DEF FileInv
<1>5. QED
  BY <1>1, <1>2, <1>3, <1>4, RunStepOK, PTL DEF Spec, StatusHolds

=============================================================================
