--------------------------- MODULE ThemeCycleProofs ---------------------------
(***************************************************************************)
(* What a theme cycle guarantees for any entries, digests and bounds: the  *)
(* types, that the status of the cycle on origin/main is backed by the     *)
(* document it stands for, that no plan or cycle there counts a record as  *)
(* minted that main does not hold, and that a settled cycle lands last.    *)
(***************************************************************************)
EXTENDS ThemeCycle, TLAPS

USE EntriesAssumption, UnsignedAssumption, BoundsAssumption
USE DEF git, job

-----------------------------------------------------------------------------
(* Files and what they hold. *)

\* The documents, and the two files of an entry, have different names.
LEMMA Names ==
    /\ \A e \in Entries :
           /\ Node(e) \notin {Themes, Cycle, Survey, Plan, Questionnaire, Reality, Consolidation}
           /\ Debate(e) \notin {Themes, Cycle, Survey, Plan, Questionnaire, Reality, Consolidation}
           /\ Node(e) \notin Debates /\ Debate(e) \notin Nodes
    /\ Themes \notin {Cycle, Survey, Plan, Questionnaire, Reality, Consolidation}
    /\ Cycle \notin {Survey, Plan, Questionnaire, Reality, Consolidation}
    /\ Survey \notin {Plan, Questionnaire, Reality, Consolidation}
    /\ Plan \notin {Questionnaire, Reality, Consolidation}
    /\ Questionnaire \notin {Reality, Consolidation}
    /\ Reality # Consolidation
<1>1. \A e \in Entries :
           /\ Node(e) \notin {Themes, Cycle, Survey, Plan, Questionnaire, Reality, Consolidation}
           /\ Debate(e) \notin {Themes, Cycle, Survey, Plan, Questionnaire, Reality, Consolidation}
           /\ Node(e) \notin Debates /\ Debate(e) \notin Nodes
  BY DEF Themes, Cycle, Survey, Plan, Questionnaire, Reality, Consolidation, Node, Debate,
         Nodes, Debates
<1>2. QED
  BY <1>1 DEF Themes, Cycle, Survey, Plan, Questionnaire, Reality, Consolidation

\* What each file may hold.
LEMMA Contents ==
    /\ Content(Themes) = Digests /\ Content(Cycle) = CycleRecord
    /\ Content(Survey) = SurveyRecord /\ Content(Plan) = PlanRecord
    /\ Content(Questionnaire) = SUBSET Entries
    /\ Content(Reality) = CheckRecord /\ Content(Consolidation) = CheckRecord
    /\ \A e \in Entries : Content(Node(e)) = Nat /\ Content(Debate(e)) = {TRUE}
<1> DEFINE Docs == {Themes, Cycle, Survey, Plan, Questionnaire, Reality, Consolidation}
<1>0. \A f \in Docs : f \notin Nodes
  BY Names DEF Nodes
<1>1. Content(Themes) = Digests /\ Content(Cycle) = CycleRecord
        /\ Content(Survey) = SurveyRecord /\ Content(Plan) = PlanRecord
  BY <1>0, Names, Zenon DEF Content
<1>2. Content(Questionnaire) = SUBSET Entries
        /\ Content(Reality) = CheckRecord /\ Content(Consolidation) = CheckRecord
  BY <1>0, Names, Zenon DEF Content
<1>3. ASSUME NEW e \in Entries
      PROVE  Content(Node(e)) = Nat /\ Content(Debate(e)) = {TRUE}
  <2>1. Node(e) \in Nodes /\ Debate(e) \in Debates
    BY DEF Nodes, Debates
  <2>2. QED
    BY <2>1, Names DEF Content
<1>4. QED
  BY <1>1, <1>2, <1>3

\* Every name above is a file.
LEMMA Known ==
    /\ {Themes, Cycle, Survey, Plan, Questionnaire, Reality, Consolidation} \subseteq Files
    /\ \A e \in Entries : Node(e) \in Files /\ Debate(e) \in Files
BY DEF Files, Nodes, Debates

\* What writing one file does to a file system.
LEMMA PutFacts ==
    ASSUME NEW s, NEW f, NEW c
    PROVE  /\ DOMAIN Put(s, f, c) = DOMAIN s \cup {f}
           /\ Put(s, f, c)[f] = c
           /\ \A g \in DOMAIN s : g # f => Put(s, f, c)[g] = s[g]
BY DEF Put

LEMMA PutType ==
    ASSUME NEW s, IsStore(s), NEW f \in Files, NEW c \in Content(f)
    PROVE  IsStore(Put(s, f, c))
<1>1. DOMAIN Put(s, f, c) \subseteq Files
  BY DEF IsStore, Put
<1>2. ASSUME NEW g \in DOMAIN Put(s, f, c)
      PROVE  Put(s, f, c)[g] \in Content(g)
  <2>1. CASE g = f
    BY <2>1 DEF Put
  <2>2. CASE g # f
    BY <1>2, <2>2 DEF IsStore, Put
  <2>3. QED
    BY <2>1, <2>2
<1>3. QED
  BY <1>1, <1>2 DEF IsStore

-----------------------------------------------------------------------------
(* Types. *)

\* The debates of a plan in a file system are there with it.
Debated(s) == Plan \in DOMAIN s => \A e \in s[Plan].debated : Debate(e) \in DOMAIN s

\* What types alone do not say: a running command's files exist, and the digest it writes
\* is signed.
TypeInv ==
    /\ TypeOK
    /\ cmd # "idle" => Cycle \in DOMAIN tree
    /\ cmd \notin {"idle", "mint"} => was.signed \in Digests
    /\ cmd \in {"mint", "r4", "r4-draft", "settle"} => Plan \in DOMAIN tree
    /\ Closing => todo \subseteq DOMAIN tree
    /\ Debated(tree)

\* What the files of a well-typed tree hold.
LEMMA TreeTypes ==
    ASSUME TypeOK
    PROVE  /\ tree[Themes] \in Digests
           /\ Cycle \in DOMAIN tree => tree[Cycle] \in CycleRecord
           /\ Survey \in DOMAIN tree => tree[Survey] \in SurveyRecord
           /\ Plan \in DOMAIN tree => tree[Plan] \in PlanRecord
           /\ Reality \in DOMAIN tree => tree[Reality] \in CheckRecord
           /\ Consolidation \in DOMAIN tree => tree[Consolidation] \in CheckRecord
           /\ \A e \in Entries : Node(e) \in DOMAIN tree => tree[Node(e)] \in Nat
<1>1. Themes \in DOMAIN tree /\ \A f \in DOMAIN tree : tree[f] \in Content(f)
  BY DEF TypeOK, IsStore
<1>2. \A e \in Entries : Node(e) \in DOMAIN tree => tree[Node(e)] \in Nat
  BY <1>1, Contents
<1>3. QED
  BY <1>1, <1>2, Contents

\* A plan keeps its type when entries of it change state.
LEMMA WithStateType ==
    ASSUME NEW plan \in PlanRecord, NEW S, NEW state \in EntryStates
    PROVE  WithState(plan, S, state) \in PlanRecord
BY DEF WithState, PlanRecord

\* Landing a text keeps the file systems of git well typed.
LEMMA LandTypes ==
    ASSUME TypeOK, NEW f \in Files, NEW c \in Content(f), NEW result, Land(f, c, result)
    PROVE  /\ IsStore(head') /\ IsStore(main')
           /\ history' = [g \in Files |-> history'[g]]
           /\ \A g \in Files : history'[g] \subseteq Content(g)
           /\ upsets' \in 0 .. MaxUpsets
<1>1. head' = head \/ head' = Put(head, f, c)
  BY DEF Land
<1>2. IsStore(head')
  BY <1>1, PutType DEF TypeOK
<1>3. main' = main \/ main' = head'
  BY DEF Land
<1>4. history' = history \/ history' = [history EXCEPT ![f] = @ \cup {c}]
  BY DEF Land
<1>5. upsets' = upsets \/ Upset
  BY DEF Land
<1>6. IsStore(main')
  BY <1>2, <1>3 DEF TypeOK
<1>7. upsets' \in 0 .. MaxUpsets
  BY <1>5 DEF TypeOK, Upset
<1>8. QED
  BY <1>2, <1>4, <1>6, <1>7 DEF TypeOK

\* Writing one file keeps the tree's part of the invariant.
LEMMA Rewrites ==
    ASSUME TypeInv, NEW f \in Files, NEW c \in Content(f), tree' = Put(tree, f, c),
           f = Plan => \A e \in c.debated : Debate(e) \in DOMAIN tree
    PROVE  /\ IsStore(tree') /\ DOMAIN tree \subseteq DOMAIN tree' /\ f \in DOMAIN tree'
           /\ tree'[f] = c /\ Debated(tree)'
<1>1. IsStore(tree')
  BY PutType DEF TypeInv, TypeOK
<1>2. DOMAIN tree' = DOMAIN tree \cup {f} /\ tree'[f] = c
          /\ \A g \in DOMAIN tree : g # f => tree'[g] = tree[g]
  BY DEF Put
<1>3. Debated(tree)'
  BY <1>2 DEF TypeInv, Debated
<1>4. QED
  BY <1>1, <1>2, <1>3

\* A developer's command that writes one file keeps the invariant.
LEMMA IdleWrites ==
    ASSUME TypeInv, Idle, NEW f \in Files, NEW c \in Content(f), Write(f, c),
           f = Plan => \A e \in c.debated : Debate(e) \in DOMAIN tree,
           UNCHANGED <<git, released, job>>, UNCHANGED upsets \/ Upset
    PROVE  TypeInv'
<1>1. IsStore(tree') /\ DOMAIN tree \subseteq DOMAIN tree' /\ Debated(tree)'
  BY Rewrites DEF Write
<1>2. upsets' \in 0 .. MaxUpsets
  BY DEF TypeInv, TypeOK, Upset
<1>3. TypeOK'
  BY <1>1, <1>2 DEF TypeInv, TypeOK, Idle
<1>4. cmd' = "idle"
  BY DEF Idle
<1>5. QED
  BY <1>1, <1>3, <1>4 DEF TypeInv, Debated, Closing, Finalizers

\* Starting a command keeps the invariant.
LEMMA StartTypes ==
    ASSUME TypeInv, NEW name \in Commands \ {"idle"}, NEW files \in SUBSET Files,
           Start(name, files),
           Cycle \in DOMAIN tree,
           name # "mint" => tree[Cycle].signed \in Digests,
           name \in {"mint", "r4", "r4-draft", "settle"} => Plan \in DOMAIN tree,
           name \in Finalizers \cup {"settle"} => files \subseteq DOMAIN tree
    PROVE  TypeInv'
<1>1. tree[Cycle] \in CycleRecord
  BY TreeTypes DEF TypeInv
<1>2. TypeOK'
  BY <1>1 DEF TypeInv, TypeOK, Start
<1>3. QED
  BY <1>2 DEF TypeInv, Start, Closing

\* Returning from a command keeps the invariant, whatever it landed.
LEMMA ReturnTypes ==
    ASSUME TypeInv, Return, UNCHANGED released,
           IsStore(tree'), DOMAIN tree \subseteq DOMAIN tree', Debated(tree)',
           IsStore(head'), IsStore(main'),
           history' = [g \in Files |-> history'[g]],
           \A g \in Files : history'[g] \subseteq Content(g),
           upsets' \in 0 .. MaxUpsets
    PROVE  TypeInv'
<1>1. TypeOK'
  BY DEF TypeInv, TypeOK, Return, Commands
<1>2. QED
  BY <1>1 DEF TypeInv, Return, Debated, Closing, Finalizers

LEMMA InitTypes == Init => TypeInv
<1> SUFFICES ASSUME Init
             PROVE  TypeInv
  OBVIOUS
<1>1. DOMAIN tree = {Themes} /\ tree[Themes] \in Digests
  BY DEF Init
<1>2. IsStore(tree)
  BY <1>1, Contents, Known DEF IsStore
<1>3. Debated(tree)
  BY <1>1, Names DEF Debated
<1>4. TypeOK
  BY <1>1, <1>2 DEF Init, TypeOK, Commands
<1>5. QED
  BY <1>3, <1>4 DEF Init, TypeInv, Closing, Finalizers

\* The developer's commands on the cycle, the survey and the checks.
LEMMA RecordTypes ==
    ASSUME TypeInv,
           new_cycle \/ sign_off \/ SurveyRun \/ Dispose \/ Amend \/ Answer \/ open_r6
    PROVE  TypeInv'
<1> USE TreeTypes, Known, Contents, Names
<1>0. TypeOK
  BY DEF TypeInv
<1>1. CASE new_cycle
  <2>1. Blank \in CycleRecord
    BY DEF Blank, CycleRecord, Statuses
  <2>2. QED
    BY <1>1, <2>1, IdleWrites DEF new_cycle
<1>2. CASE sign_off
  <2>1. [tree[Cycle] EXCEPT !.status = "signed-off", !.signed = tree[Themes]] \in CycleRecord
    BY <1>0, <1>2 DEF sign_off, Exists, CycleRecord, Statuses
  <2>2. QED
    BY <1>2, <2>1, IdleWrites DEF sign_off
<1>3. CASE SurveyRun
  <2>1. tree[Cycle].signed \in Digests /\ NextRun(Survey) \in Nat
    BY <1>0, <1>3 DEF SurveyRun, require_sign_off, NextRun, SurveyRecord
  <2>2. PICK pending \in BOOLEAN :
            Write(Survey, [digest |-> tree[Cycle].signed, run |-> NextRun(Survey),
                           pending |-> pending])
    BY <1>3 DEF SurveyRun
  <2>3. [digest |-> tree[Cycle].signed, run |-> NextRun(Survey), pending |-> pending]
            \in SurveyRecord
    BY <2>1 DEF SurveyRecord
  <2>4. QED
    BY <1>3, <2>2, <2>3, IdleWrites DEF SurveyRun
<1>4. CASE Dispose
  <2>1. Decided \in SurveyRecord
    BY <1>0, <1>4 DEF Dispose, Exists, Decided, SurveyRecord
  <2>2. QED
    BY <1>4, <2>1, IdleWrites DEF Dispose
<1>5. CASE Amend
  <2>1. PICK d \in Digests :
            \/ tree' = Put(Put(tree, Themes, d), Survey, Decided) /\ UNCHANGED upsets
            \/ Write(Themes, d) /\ Upset
    BY <1>5 DEF Amend
  <2>2. CASE Write(Themes, d) /\ Upset
    BY <1>5, <2>2, IdleWrites DEF Amend
  <2>3. CASE tree' = Put(Put(tree, Themes, d), Survey, Decided) /\ UNCHANGED upsets
    <3>1. Decided \in SurveyRecord
      BY <1>0, <1>5 DEF Amend, Exists, Decided, SurveyRecord
    <3>2. IsStore(tree')
      BY <1>0, <2>3, <3>1, PutType DEF TypeOK
    <3>3. DOMAIN tree \subseteq DOMAIN tree'
      BY <2>3 DEF Put
    <3>4. Plan \in DOMAIN tree' => Plan \in DOMAIN tree /\ tree'[Plan] = tree[Plan]
      BY <2>3 DEF Put
    <3>5. QED
      BY <1>5, <2>3, <3>2, <3>3, <3>4
      DEF Amend, Idle, TypeInv, TypeOK, Debated, Closing, Finalizers
  <2>4. QED
    BY <2>1, <2>2, <2>3
<1>6. CASE Answer
  <2>1. [tree[Reality] EXCEPT !.ready = TRUE] \in CheckRecord
    BY <1>0, <1>6 DEF Answer, Exists, CheckRecord
  <2>2. QED
    BY <1>6, <2>1, IdleWrites DEF Answer
<1>7. CASE open_r6
  <2>1. tree[Cycle].signed \in Digests
    BY <1>0, <1>7 DEF open_r6, require_sign_off
  <2>2. [digest |-> tree[Cycle].signed, run |-> 0, ready |-> FALSE] \in CheckRecord
    BY <2>1 DEF CheckRecord
  <2>3. QED
    BY <1>7, <2>2, IdleWrites DEF open_r6
<1>8. QED
  BY <1>1, <1>2, <1>3, <1>4, <1>5, <1>6, <1>7

\* A check's record keeps its type when its pass has run.
LEMMA PassedType ==
    ASSUME NEW r \in CheckRecord
    PROVE  [r EXCEPT !.run = @ + 1, !.ready = TRUE] \in CheckRecord
<1>1. r.run + 1 \in Nat
  BY DEF CheckRecord
<1>2. QED
  BY <1>1 DEF CheckRecord

\* Changing the state of entries keeps the debates of a plan.
LEMMA WithStateDebates ==
    ASSUME NEW plan \in PlanRecord, NEW S, NEW state
    PROVE  WithState(plan, S, state).debated = plan.debated
BY DEF WithState, PlanRecord

\* The developer's commands on the plan.
LEMMA PlanTypes ==
    ASSUME TypeInv,
           \/ Atomize \/ DraftEdges \/ Verify \/ CrossThemeEdges
           \/ \E e \in Entries : RunDebate(e) \/ Waive(e) \/ Drop(e)
    PROVE  TypeInv'
<1> USE TreeTypes, Known, Contents, Names
<1>0. TypeOK /\ Debated(tree)
  BY DEF TypeInv
<1>1. CASE Atomize
  <2>1. tree[Cycle].signed \in Digests /\ NextRun(Plan) \in Nat
    BY <1>0, <1>1 DEF Atomize, require_sign_off, NextRun, PlanRecord
  <2>2. PICK state \in [Entries -> {"none", "blocked", "proposed"}] :
            Write(Plan, [digest |-> tree[Cycle].signed, run |-> NextRun(Plan),
                         state |-> state, debated |-> {}, waived |-> {}])
    BY <1>1 DEF Atomize
  <2>3. state \in [Entries -> EntryStates]
    BY DEF EntryStates
  <2>4. [digest |-> tree[Cycle].signed, run |-> NextRun(Plan), state |-> state,
         debated |-> {}, waived |-> {}] \in PlanRecord
    BY <2>1, <2>3 DEF PlanRecord
  <2>5. QED
    BY <1>1, <2>2, <2>4, IdleWrites DEF Atomize
<1>2. CASE DraftEdges
  <2>1. tree[Plan] \in PlanRecord /\ \A e \in tree[Plan].debated : Debate(e) \in DOMAIN tree
    BY <1>0, <1>2 DEF DraftEdges, Exists, Debated
  <2>2. PICK S \in SUBSET (Entries \ Live(tree[Plan])) :
            Write(Plan, WithState(tree[Plan], S, "proposed"))
    BY <1>2 DEF DraftEdges
  <2>3. WithState(tree[Plan], S, "proposed") \in PlanRecord
            /\ WithState(tree[Plan], S, "proposed").debated = tree[Plan].debated
    BY <2>1, WithStateType, WithStateDebates DEF EntryStates
  <2>4. QED
    BY <1>2, <2>1, <2>2, <2>3, IdleWrites DEF DraftEdges
<1>3. CASE Verify
  <2>1. tree[Plan] \in PlanRecord /\ \A e \in tree[Plan].debated : Debate(e) \in DOMAIN tree
    BY <1>0, <1>3 DEF Verify, Exists, Debated
  <2>2. PICK ok \in SUBSET Ready(tree[Plan]) :
            Write(Plan, WithState(WithState(tree[Plan], ok, "verified"),
                                  Ready(tree[Plan]) \ ok, "refused"))
    BY <1>3 DEF Verify
  <2>3. WithState(tree[Plan], ok, "verified") \in PlanRecord
            /\ WithState(tree[Plan], ok, "verified").debated = tree[Plan].debated
    BY <2>1, WithStateType, WithStateDebates DEF EntryStates
  <2> DEFINE plan == WithState(WithState(tree[Plan], ok, "verified"),
                               Ready(tree[Plan]) \ ok, "refused")
  <2>4. plan \in PlanRecord /\ plan.debated = tree[Plan].debated
    BY <2>3, WithStateType, WithStateDebates DEF EntryStates
  <2> HIDE DEF plan
  <2>5. Write(Plan, plan)
    BY <2>2 DEF plan
  <2>6. QED
    BY <1>3, <2>1, <2>4, <2>5, IdleWrites DEF Verify
<1>4. CASE CrossThemeEdges
  <2>1. /\ tree[Plan] \in PlanRecord /\ \A e \in tree[Plan].debated : Debate(e) \in DOMAIN tree
        /\ tree[Consolidation] \in CheckRecord
    BY <1>0, <1>4 DEF CrossThemeEdges, Exists, Debated
  <2> DEFINE record == [tree[Consolidation] EXCEPT !.run = @ + 1, !.ready = TRUE]
             plan(S) == WithState(tree[Plan], S, "proposed")
  <2>2. PICK S \in SUBSET (Entries \ Live(tree[Plan])) :
            \/ tree' = Put(Put(tree, Plan, plan(S)), Consolidation, record)
                   /\ UNCHANGED upsets
            \/ tree' = Put(tree, Plan, plan(S)) /\ Upset
    BY <1>4 DEF CrossThemeEdges
  <2>3. plan(S) \in PlanRecord /\ plan(S).debated = tree[Plan].debated
    BY <2>1, WithStateType, WithStateDebates DEF EntryStates
  <2>4. record \in CheckRecord
    BY <2>1, PassedType
  <2> HIDE DEF record, plan
  <2>5. CASE tree' = Put(tree, Plan, plan(S)) /\ Upset
    BY <1>4, <2>1, <2>3, <2>5, IdleWrites DEF CrossThemeEdges, Write
  <2>6. CASE tree' = Put(Put(tree, Plan, plan(S)), Consolidation, record) /\ UNCHANGED upsets
    <3>1. IsStore(tree')
      BY <1>0, <2>3, <2>4, <2>6, PutType DEF TypeOK
    <3>2. DOMAIN tree \subseteq DOMAIN tree' /\ tree'[Plan] = plan(S)
      BY <2>6 DEF Put
    <3>3. Debated(tree)'
      BY <2>1, <2>3, <3>2 DEF Debated
    <3>4. QED
      BY <1>4, <2>6, <3>1, <3>2, <3>3
      DEF CrossThemeEdges, Idle, TypeInv, TypeOK, Closing, Finalizers
  <2>7. QED
    BY <2>2, <2>5, <2>6
<1>5. ASSUME NEW e \in Entries, RunDebate(e)
      PROVE  TypeInv'
  <2>1. tree[Plan] \in PlanRecord /\ \A d \in tree[Plan].debated : Debate(d) \in DOMAIN tree
    BY <1>0, <1>5 DEF RunDebate, Exists, Debated
  <2> DEFINE state == tree[Plan].state[e]
             open == IF state = "proposed" THEN {"proposed"} ELSE {}
             plan(to) == [WithState(tree[Plan], {e}, to) EXCEPT !.debated = @ \cup {e}]
  <2>2. state \in EntryStates
    BY <2>1 DEF PlanRecord
  <2>3. PICK to \in {Reopened(state), "dropped"} \cup open :
            tree' = Put(Put(tree, Debate(e), TRUE), Plan, plan(to))
    BY <1>5 DEF RunDebate
  <2>4. to \in EntryStates
    BY <2>2, <2>3 DEF Reopened, EntryStates
  <2>5. plan(to) \in PlanRecord /\ plan(to).debated = tree[Plan].debated \cup {e}
    BY <2>1, <2>4 DEF WithState, PlanRecord
  <2> HIDE DEF plan
  <2>6. IsStore(tree')
    <3>1. TRUE \in Content(Debate(e))
      BY Contents
    <3>2. IsStore(Put(tree, Debate(e), TRUE))
      BY <1>0, <3>1, PutType DEF TypeOK
    <3>3. QED
      BY <2>3, <2>5, <3>2, PutType
  <2>7. DOMAIN tree' = DOMAIN tree \cup {Debate(e), Plan} /\ tree'[Plan] = plan(to)
    BY <2>3 DEF Put
  <2>8. Debated(tree)'
    BY <2>1, <2>5, <2>7 DEF Debated
  <2>9. QED
    BY <1>5, <2>6, <2>7, <2>8 DEF RunDebate, Idle, TypeInv, TypeOK, Closing, Finalizers
<1>6. ASSUME NEW e \in Entries, Waive(e)
      PROVE  TypeInv'
  <2>1. tree[Plan] \in PlanRecord /\ \A d \in tree[Plan].debated : Debate(d) \in DOMAIN tree
    BY <1>0, <1>6 DEF Waive, Exists, Debated
  <2> DEFINE plan == [WithState(tree[Plan], {e}, Reopened(tree[Plan].state[e]))
                          EXCEPT !.waived = @ \cup {e}]
  <2>2. Reopened(tree[Plan].state[e]) \in EntryStates
    BY <2>1 DEF PlanRecord, Reopened, EntryStates
  <2>3. plan \in PlanRecord /\ plan.debated = tree[Plan].debated
    BY <2>1, <2>2 DEF WithState, PlanRecord
  <2>4. Write(Plan, plan)
    BY <1>6 DEF Waive
  <2> HIDE DEF plan
  <2>5. QED
    BY <1>6, <2>1, <2>3, <2>4, IdleWrites DEF Waive
<1>7. ASSUME NEW e \in Entries, Drop(e)
      PROVE  TypeInv'
  <2>1. tree[Plan] \in PlanRecord /\ \A d \in tree[Plan].debated : Debate(d) \in DOMAIN tree
    BY <1>0, <1>7 DEF Drop, Exists, Debated
  <2>2. WithState(tree[Plan], {e}, "dropped") \in PlanRecord
            /\ WithState(tree[Plan], {e}, "dropped").debated = tree[Plan].debated
    BY <2>1, WithStateType, WithStateDebates DEF EntryStates
  <2>3. QED
    BY <1>7, <2>1, <2>2, IdleWrites DEF Drop
<1>8. QED
  BY <1>1, <1>2, <1>3, <1>4, <1>5, <1>6, <1>7

\* The starts of the commands that land.
LEMMA StartsTypes ==
    ASSUME TypeInv,
           \/ StartMint \/ finalize_r3 \/ finalize_r4 \/ finalize_r4_draft
           \/ open_r5 \/ finalize_r5 \/ settle
    PROVE  TypeInv'
<1> USE TreeTypes, Known, Names
<1>0. TypeOK /\ Debated(tree)
  BY DEF TypeInv
<1>1. require_sign_off => Cycle \in DOMAIN tree /\ tree[Cycle].signed \in Digests
  BY <1>0 DEF require_sign_off, Exists
<1>2. Plan \in DOMAIN tree =>
          PlanFiles \subseteq DOMAIN tree /\ PlanFiles \subseteq Files
  <2>1. ASSUME Plan \in DOMAIN tree
        PROVE  tree[Plan].debated \subseteq Entries
    BY <1>0, <2>1 DEF PlanRecord
  <2>2. QED
    BY <1>0, <2>1 DEF PlanFiles, Debated
<1>3. CASE StartMint
  <2> DEFINE nodes == {Node(e) : e \in Mintable(tree[Plan])}
  <2>1. Cycle \in DOMAIN tree /\ Plan \in DOMAIN tree /\ Start("mint", nodes)
    BY <1>3 DEF StartMint, Exists
  <2>2. nodes \in SUBSET Files
    BY DEF Mintable
  <2> HIDE DEF nodes
  <2>3. QED
    BY <2>1, <2>2, StartTypes DEF Commands, Finalizers
<1>4. CASE finalize_r3
  BY <1>1, <1>4, StartTypes DEF finalize_r3, Exists, Commands, Finalizers
<1>5. CASE finalize_r4
  BY <1>1, <1>2, <1>5, StartTypes DEF finalize_r4, PlanCloses, Exists, Commands, Finalizers
<1>6. CASE finalize_r4_draft
  BY <1>1, <1>2, <1>6, StartTypes
  DEF finalize_r4_draft, PlanDrafted, Exists, Commands, Finalizers
<1>7. CASE open_r5
  BY <1>1, <1>7, StartTypes DEF open_r5, Commands, Finalizers
<1>8. CASE finalize_r5
  BY <1>1, <1>8, StartTypes DEF finalize_r5, Exists, Commands, Finalizers
<1>9. CASE settle
  BY <1>1, <1>9, StartTypes DEF settle, PlanCloses, Exists, Commands, Finalizers
<1>10. QED
  BY <1>3, <1>4, <1>5, <1>6, <1>7, <1>8, <1>9

\* The steps of a mint.
LEMMA MintTypes ==
    ASSUME TypeInv, EndMint \/ \E e \in Entries : MintItem(e)
    PROVE  TypeInv'
<1> USE TreeTypes, Known, Contents, Names
<1>0. TypeOK /\ Debated(tree)
  BY DEF TypeInv
<1>1. CASE EndMint
  <2>1. tree[Plan] \in PlanRecord /\ \A e \in tree[Plan].debated : Debate(e) \in DOMAIN tree
    BY <1>0, <1>1 DEF EndMint, TypeInv, Debated
  <2>2. WithState(tree[Plan], landed, "minted") \in PlanRecord
            /\ WithState(tree[Plan], landed, "minted").debated = tree[Plan].debated
    BY <2>1, WithStateType, WithStateDebates DEF EntryStates
  <2>3. IsStore(tree') /\ DOMAIN tree \subseteq DOMAIN tree' /\ Debated(tree)'
    BY <1>1, <2>1, <2>2, Rewrites DEF EndMint, Write
  <2>4. QED
    BY <1>0, <1>1, <2>3, ReturnTypes DEF EndMint, TypeOK
<1>2. ASSUME NEW e \in Entries, MintItem(e)
      PROVE  TypeInv'
  <2> DEFINE on == Put(tree, Node(e), NextMint(e))
             minted == [was EXCEPT !.minted = @ \cup {e}]
  <2>1. PICK result \in Results, contended \in BOOLEAN :
            /\ Land(Node(e), NextMint(e), result)
            /\ tree' = IF result = "landed" \/ contended THEN Put(on, Cycle, minted) ELSE on
            /\ IF result \in {"raised", "killed"}
               THEN Return
               ELSE /\ todo' = todo \ {Node(e)}
                    /\ landed' = IF result = "landed" \/ contended
                                 THEN landed \cup {e} ELSE landed
                    /\ was' = IF result = "landed" \/ contended THEN minted ELSE was
                    /\ UNCHANGED cmd
    BY <1>2, Zenon DEF MintItem
  <2>2. cmd = "mint" /\ UNCHANGED released
    BY <1>2 DEF MintItem
  <2>3. NextMint(e) \in Content(Node(e))
    <3>1. Node(e) \in DOMAIN tree => tree[Node(e)] \in Nat
      BY <1>0
    <3>2. NextMint(e) \in Nat
      BY <3>1 DEF NextMint
    <3>3. QED
      BY <3>2
  <2>4. minted \in CycleRecord /\ was \in CycleRecord
    <3>1. was \in CycleRecord
      BY <1>0, <2>2 DEF TypeOK
    <3>2. QED
      BY <3>1 DEF CycleRecord
  <2>5. IsStore(on)
    BY <1>0, <2>3, PutType DEF TypeOK
  <2>6. IsStore(Put(on, Cycle, minted))
    BY <2>4, <2>5, PutType
  <2>7. IsStore(tree')
    BY <2>1, <2>5, <2>6
  <2>8. DOMAIN tree \subseteq DOMAIN tree'
            /\ (Plan \in DOMAIN tree' => Plan \in DOMAIN tree /\ tree'[Plan] = tree[Plan])
    BY <2>1 DEF Put
  <2>9. Debated(tree)'
    BY <1>0, <2>8 DEF Debated
  <2>10. /\ IsStore(head') /\ IsStore(main')
         /\ history' = [g \in Files |-> history'[g]]
         /\ \A g \in Files : history'[g] \subseteq Content(g)
         /\ upsets' \in 0 .. MaxUpsets
    BY <1>0, <2>1, <2>3, LandTypes
  <2> HIDE DEF on, minted
  <2>11. CASE Return
    BY <2>2, <2>7, <2>8, <2>9, <2>10, <2>11, ReturnTypes
  <2>12. CASE /\ todo' = todo \ {Node(e)}
              /\ landed' \in {landed, landed \cup {e}}
              /\ was' \in {was, minted}
              /\ UNCHANGED cmd
    <3>1. TypeOK'
      BY <1>0, <2>2, <2>4, <2>7, <2>8, <2>10, <2>12 DEF TypeOK
    <3>2. QED
      BY <2>2, <2>8, <2>9, <2>12, <3>1 DEF TypeInv, Closing, Finalizers
  <2>13. QED
    BY <2>1, <2>11, <2>12
<1>3. QED
  BY <1>1, <1>2

\* What a finalizer has landed is a set of files.
LEMMA ArtifactsType ==
    ASSUME TypeInv, Closing
    PROVE  Artifacts \subseteq Files
<1>1. CASE cmd \in {"r4", "r4-draft"}
  <2>1. tree[Plan].debated \subseteq Entries
    BY <1>1, TreeTypes DEF TypeInv, PlanRecord
  <2>2. QED
    BY <1>1, <2>1, Known DEF Artifacts, PlanFiles
<1>2. CASE cmd \notin {"r4", "r4-draft"}
  BY <1>2, Known DEF Artifacts
<1>3. QED
  BY <1>1, <1>2

\* The landings of the questionnaire, of a finalizer's files and of the cycle.
LEMMA LandingTypes ==
    ASSUME TypeInv, LandSpec \/ LandFile \/ SaveCycle \/ LandCycle
    PROVE  TypeInv'
<1> USE TreeTypes, Known, Contents, Names
<1>0. TypeOK /\ Debated(tree)
  BY DEF TypeInv
<1>1. CASE LandSpec
  <2> DEFINE spec == {e \in Entries : Exists(Node(e))}
             on == IF spec \in history[Questionnaire]
                   THEN tree ELSE Put(tree, Questionnaire, spec)
             check == [digest |-> was.signed, ready |-> FALSE, run |-> NextRun(Reality)]
  <2>1. PICK result \in Results :
            /\ Land(Questionnaire, spec, result)
            /\ tree' = IF result = "landed" THEN Put(on, Reality, check) ELSE on
    BY <1>1, Zenon DEF LandSpec
  <2>2. spec \in Content(Questionnaire)
    OBVIOUS
  <2>3. check \in CheckRecord
    <3>1. was.signed \in Digests
      BY <1>1 DEF LandSpec, TypeInv
    <3>2. NextRun(Reality) \in Nat
      BY <1>0 DEF NextRun, CheckRecord
    <3>3. QED
      BY <3>1, <3>2 DEF CheckRecord
  <2>4. IsStore(on) /\ IsStore(Put(on, Reality, check))
    BY <1>0, <2>2, <2>3, PutType DEF TypeOK
  <2>5. IsStore(tree')
    BY <2>1, <2>4
  <2>6. DOMAIN tree \subseteq DOMAIN tree'
            /\ (Plan \in DOMAIN tree' => Plan \in DOMAIN tree /\ tree'[Plan] = tree[Plan])
    BY <2>1 DEF Put
  <2>7. Debated(tree)'
    BY <1>0, <2>6 DEF Debated
  <2>8. /\ IsStore(head') /\ IsStore(main')
        /\ history' = [g \in Files |-> history'[g]]
        /\ \A g \in Files : history'[g] \subseteq Content(g)
        /\ upsets' \in 0 .. MaxUpsets
    BY <1>0, <2>1, <2>2, LandTypes
  <2>9. QED
    BY <1>1, <2>5, <2>6, <2>7, <2>8, ReturnTypes DEF LandSpec
<1>2. CASE LandFile
  <2>1. PICK f \in todo \ {Cycle}, result \in Results :
            /\ Land(f, tree[f], result)
            /\ \/ todo' = todo \ {f} /\ UNCHANGED <<cmd, landed, was>>
               \/ Return
    BY <1>2, Zenon DEF LandFile
  <2>2. f \in DOMAIN tree /\ f \in Files
    BY <1>0, <1>2 DEF LandFile, TypeInv, TypeOK
  <2>3. tree[f] \in Content(f)
    BY <1>0, <2>2 DEF TypeOK, IsStore
  <2>4. UNCHANGED <<tree, released>> /\ Closing
    BY <1>2 DEF LandFile
  <2>5. /\ IsStore(head') /\ IsStore(main')
        /\ history' = [g \in Files |-> history'[g]]
        /\ \A g \in Files : history'[g] \subseteq Content(g)
        /\ upsets' \in 0 .. MaxUpsets
    BY <1>0, <2>1, <2>2, <2>3, LandTypes
  <2>6. IsStore(tree') /\ Debated(tree)'
    BY <1>0, <2>4 DEF TypeOK, Debated
  <2>7. CASE Return
    BY <2>4, <2>5, <2>6, <2>7, ReturnTypes
  <2>8. CASE todo' = todo \ {f} /\ UNCHANGED <<cmd, landed, was>>
    <3>1. TypeOK'
      BY <1>0, <2>4, <2>5, <2>8 DEF TypeOK
    <3>2. QED
      BY <2>4, <2>6, <2>8, <3>1 DEF TypeInv, Closing
  <2>9. QED
    BY <2>1, <2>7, <2>8
<1>3. CASE SaveCycle
  <2> DEFINE saved == Advanced(was, Target, Artifacts)
  <2>1. was \in CycleRecord
    BY <1>0, <1>3 DEF SaveCycle, Closing, Finalizers, TypeOK
  <2>2. saved \in CycleRecord
    <3>1. Target \in Statuses /\ Artifacts \subseteq Files
      BY <1>3, ArtifactsType DEF SaveCycle, Target, Statuses
    <3>2. QED
      BY <2>1, <3>1 DEF Advanced, CycleRecord
  <2> HIDE DEF saved
  <2>3. UNCHANGED <<git, released, upsets>> /\ Closing
    BY <1>3 DEF SaveCycle
  <2>4. CASE Write(Cycle, saved) /\ todo' = {} /\ UNCHANGED <<cmd, landed, was>>
    <3>1. IsStore(tree') /\ DOMAIN tree \subseteq DOMAIN tree' /\ Debated(tree)'
      BY <2>2, <2>4, Rewrites DEF Write
    <3>2. TypeOK'
      BY <1>0, <2>3, <2>4, <3>1 DEF TypeOK
    <3>3. QED
      BY <2>3, <2>4, <3>1, <3>2 DEF TypeInv, Closing
  <2>5. CASE Return /\ UNCHANGED tree
    <3>1. IsStore(tree') /\ DOMAIN tree \subseteq DOMAIN tree' /\ Debated(tree)'
      BY <1>0, <2>5 DEF TypeOK, Debated
    <3>2. QED
      BY <1>0, <2>3, <2>5, <3>1, ReturnTypes DEF TypeOK
  <2>6. QED
    BY <1>3, <2>4, <2>5 DEF SaveCycle, saved
<1>4. CASE LandCycle
  <2>1. PICK result \in Results :
            /\ Land(Cycle, tree[Cycle], result)
            /\ tree' \in {Put(tree, Cycle, was), tree}
    BY <1>4, Zenon DEF LandCycle
  <2>2. Cycle \in DOMAIN tree /\ was \in CycleRecord
    BY <1>0, <1>4 DEF LandCycle, Closing, Finalizers, TypeInv, TypeOK
  <2>3. tree[Cycle] \in Content(Cycle) /\ was \in Content(Cycle)
    BY <1>0, <2>2
  <2>4. /\ IsStore(head') /\ IsStore(main')
        /\ history' = [g \in Files |-> history'[g]]
        /\ \A g \in Files : history'[g] \subseteq Content(g)
        /\ upsets' \in 0 .. MaxUpsets
    BY <1>0, <2>1, <2>3, LandTypes
  <2>5. CASE tree' = tree
    <3>1. IsStore(tree') /\ Debated(tree)'
      BY <1>0, <2>5 DEF TypeOK, Debated
    <3>2. QED
      BY <1>4, <2>4, <2>5, <3>1, ReturnTypes DEF LandCycle
  <2>6. CASE tree' = Put(tree, Cycle, was)
    <3>1. IsStore(tree') /\ DOMAIN tree \subseteq DOMAIN tree' /\ Debated(tree)'
      BY <2>3, <2>6, Rewrites
    <3>2. QED
      BY <1>4, <2>4, <3>1, ReturnTypes DEF LandCycle
  <2>7. QED
    BY <2>1, <2>5, <2>6
<1>5. QED
  BY <1>1, <1>2, <1>3, <1>4

\* Every step keeps the invariant.
LEMMA TypeStep == TypeInv /\ [Next]_vars => TypeInv'
<1> SUFFICES ASSUME TypeInv, [Next]_vars
             PROVE  TypeInv'
  OBVIOUS
<1>0. TypeOK
  BY DEF TypeInv
<1>1. CASE Release
  BY <1>1 DEF Release, Idle, TypeInv, TypeOK, Debated, Closing
<1>2. CASE Kill
  <2>1. IsStore(tree') /\ DOMAIN tree \subseteq DOMAIN tree' /\ Debated(tree)'
    BY <1>0, <1>2 DEF Kill, TypeInv, TypeOK, Debated
  <2>2. upsets' \in 0 .. MaxUpsets
    BY <1>0, <1>2 DEF Kill, Upset, TypeOK
  <2>3. QED
    BY <1>0, <1>2, <2>1, <2>2, ReturnTypes DEF Kill, TypeOK
<1>3. CASE HandCommit
  <2>1. upsets' \in 0 .. MaxUpsets
    BY <1>0, <1>3 DEF HandCommit, Upset, TypeOK
  <2>2. QED
    BY <1>3, <2>1 DEF HandCommit, Idle, TypeInv, TypeOK, Debated, Closing
<1>4. CASE UNCHANGED vars
  BY <1>4 DEF vars, TypeInv, TypeOK, Debated, Closing
<1>5. QED
  BY <1>1, <1>2, <1>3, <1>4, RecordTypes, PlanTypes, StartsTypes, MintTypes, LandingTypes
  DEF Next

\* Every variable of the cycle keeps its type, whatever is killed, refused or committed
\* by hand, for any entries, digests and bounds.
THEOREM TypeCorrect == Spec => []TypeOK
<1>1. Spec => []TypeInv
  BY InitTypes, TypeStep, PTL DEF Spec
<1>2. TypeInv => TypeOK
  BY DEF TypeInv
<1>3. QED
  BY <1>1, <1>2, PTL

-----------------------------------------------------------------------------
(* What origin/main may claim.  A push carries every commit and leaves no    *)
(* tracked file modified, so main is the tracked part of the tree: it is     *)
(* enough that what the tree claims is tracked.                              *)

\* In the tree t over the HEAD h, the cycle record c may have its status, what it holds
\* and what it minted.
Follows(t, h, c, f) == f \in DOMAIN h /\ f \in DOMAIN t /\ t[f].digest = c.signed

MayClaim(t, h, c) ==
    /\ c.holds \subseteq DOMAIN h
    /\ \A e \in c.minted : Node(e) \in DOMAIN h
    /\ c.status = "r3-done" => Follows(t, h, c, Survey)
    /\ c.status \in {"r4-drafted", "r4-done", "settled"} => Follows(t, h, c, Plan)
    /\ c.status = "r5-done" => Follows(t, h, c, Reality)

MarksTracked(t, h) ==
    /\ Plan \in DOMAIN t =>
           \A e \in Entries : t[Plan].state[e] = "minted" => Node(e) \in DOMAIN h
    /\ Reality \in DOMAIN t => Questionnaire \in DOMAIN h

TreeClaims(t, h) ==
    /\ DOMAIN h \subseteq DOMAIN t
    /\ Cycle \in DOMAIN t => MayClaim(t, h, t[Cycle])
    /\ MarksTracked(t, h)

\* The document a finalizer vouches for.
Vouched == CASE cmd = "r3" -> Survey [] cmd = "r5" -> Reality [] OTHER -> Plan

\* What a running command relies on until it returns.
CommandClaims ==
    /\ cmd # "idle" =>
           /\ MayClaim(tree, head, was)
           /\ tree[Cycle] = was \/ (Closing /\ todo = {} /\ tree[Cycle].signed = was.signed)
    /\ \A e \in landed : Node(e) \in DOMAIN head
    /\ Closing =>
           /\ Vouched \in DOMAIN tree /\ tree[Vouched].digest = was.signed
           /\ (Artifacts \cup {Vouched}) \ todo \subseteq DOMAIN head

HistoryInv == \A f \in Files : history[f] # {} => f \in DOMAIN head

MainInv ==
    /\ TreeClaims(tree, head) /\ CommandClaims /\ HistoryInv
    /\ Backed(main) /\ Truthful(main)

\* A claim survives a rewrite that keeps the digests it rests on, and a longer history.
LEMMA ClaimKept ==
    ASSUME NEW t, NEW u, NEW h, NEW k, NEW c, MayClaim(t, h, c),
           DOMAIN h \subseteq DOMAIN k,
           \A f \in {Survey, Plan, Reality} : f \in DOMAIN t =>
               f \in DOMAIN u /\ u[f].digest \in {t[f].digest, c.signed}
    PROVE  MayClaim(u, k, c)
<1>1. \A f \in {Survey, Plan, Reality} : Follows(t, h, c, f) => Follows(u, k, c, f)
  BY DEF Follows
<1>2. QED
  BY <1>1 DEF MayClaim

\* Writing one file keeps the tree's claims when what it says is so.
LEMMA WriteClaims ==
    ASSUME NEW t, NEW h, NEW f, NEW c, TreeClaims(t, h),
           f = Cycle => MayClaim(t, h, c),
           f \in {Survey, Plan, Reality} /\ Cycle \in DOMAIN t =>
               \/ c.digest = t[Cycle].signed
               \/ f \in DOMAIN t /\ c.digest = t[f].digest,
           f = Plan => \A e \in Entries : c.state[e] = "minted" => Node(e) \in DOMAIN h,
           f = Reality => Questionnaire \in DOMAIN h
    PROVE  TreeClaims(Put(t, f, c), h)
<1> DEFINE u == Put(t, f, c)
<1>1. DOMAIN u = DOMAIN t \cup {f} /\ u[f] = c /\ \A g \in DOMAIN t : g # f => u[g] = t[g]
  BY DEF Put
<1> HIDE DEF u
<1>2. DOMAIN h \subseteq DOMAIN u
  BY <1>1 DEF TreeClaims
<1>3. MarksTracked(u, h)
  BY <1>1 DEF TreeClaims, MarksTracked
<1>4. ASSUME Cycle \in DOMAIN u
      PROVE  MayClaim(u, h, u[Cycle])
  <2>1. CASE f = Cycle
    <3>1. \A g \in {Survey, Plan, Reality} : g \in DOMAIN t => g \in DOMAIN u /\ u[g] = t[g]
      BY <1>1, <2>1, Names
    <3>2. QED
      BY <1>1, <2>1, <3>1, ClaimKept
  <2>2. CASE f # Cycle
    <3>1. Cycle \in DOMAIN t /\ u[Cycle] = t[Cycle] /\ MayClaim(t, h, t[Cycle])
      BY <1>1, <1>4, <2>2 DEF TreeClaims
    <3>2. \A g \in {Survey, Plan, Reality} : g \in DOMAIN t =>
              g \in DOMAIN u /\ u[g].digest \in {t[g].digest, t[Cycle].signed}
      BY <1>1, <3>1
    <3>3. QED
      BY <3>1, <3>2, ClaimKept
  <2>3. QED
    BY <2>1, <2>2
<1>5. QED
  BY <1>2, <1>3, <1>4 DEF TreeClaims, u

\* A longer history keeps them, while it holds nothing the tree lacks.
LEMMA HistoryClaims ==
    ASSUME NEW t, NEW h, NEW k, TreeClaims(t, h),
           DOMAIN h \subseteq DOMAIN k, DOMAIN k \subseteq DOMAIN t
    PROVE  TreeClaims(t, k)
BY ClaimKept DEF TreeClaims, MarksTracked

\* What a push takes to main is the tracked part of the tree.
LEMMA PushClaims ==
    ASSUME NEW t, NEW h, TreeClaims(t, h), Clean(t, h)
    PROVE  Backed(h) /\ Truthful(h)
<1>1. \A f \in DOMAIN h : f \in DOMAIN t /\ h[f] = t[f]
  BY DEF Clean
<1>2. ASSUME Cycle \in DOMAIN h
      PROVE  MayClaim(t, h, h[Cycle])
  BY <1>1, <1>2 DEF TreeClaims
<1>3. Backed(h)
  BY <1>1, <1>2 DEF Backed, Describes, MayClaim, Follows
<1>4. Truthful(h)
  BY <1>1, <1>2 DEF Truthful, TreeClaims, MarksTracked, MayClaim
<1>5. QED
  BY <1>3, <1>4

\* What landing a text does to git.
LEMMA LandFacts ==
    ASSUME TypeInv, MainInv, NEW f \in Files, NEW c, NEW result, Land(f, c, result)
    PROVE  /\ DOMAIN head \subseteq DOMAIN head' /\ DOMAIN head' \subseteq DOMAIN head \cup {f}
           /\ result \in {"landed", "refused"} => f \in DOMAIN head'
           /\ HistoryInv'
           /\ \/ main' = main
              \/ main' = head' /\ Clean(Put(tree, f, c), head')
<1>0. history = [g \in Files |-> history[g]] /\ HistoryInv
  BY DEF TypeInv, TypeOK, MainInv
<1>1. CASE /\ UNCHANGED git
           /\ result \in {"raised", "killed"} \/ (result = "landed" /\ c \in history[f])
  BY <1>0, <1>1 DEF HistoryInv
<1>2. CASE /\ head' = Put(head, f, c)
           /\ history' = [history EXCEPT ![f] = @ \cup {c}]
           /\ main' = main \/ (main' = head' /\ Clean(Put(tree, f, c), Put(head, f, c)))
  <2>1. DOMAIN head' = DOMAIN head \cup {f}
    BY <1>2 DEF Put
  <2>2. HistoryInv'
    BY <1>0, <1>2, <2>1 DEF HistoryInv
  <2>3. QED
    BY <1>2, <2>1, <2>2
<1>3. QED
  BY <1>1, <1>2 DEF Land

\* A text that the tree holds, a record or a questionnaire reaches main with what it
\* rests on.
LEMMA LandClaims ==
    ASSUME TypeInv, MainInv, NEW f \in Files, NEW c, NEW result, Land(f, c, result),
           f \in Nodes \cup {Questionnaire} \/ (f \in DOMAIN tree /\ c = tree[f])
    PROVE  /\ TreeClaims(Put(tree, f, c), head')
           /\ f \in DOMAIN tree => TreeClaims(tree, head')
           /\ Backed(main') /\ Truthful(main')
<1>1. /\ DOMAIN head \subseteq DOMAIN head' /\ DOMAIN head' \subseteq DOMAIN head \cup {f}
      /\ \/ main' = main
         \/ main' = head' /\ Clean(Put(tree, f, c), head')
  BY LandFacts
<1>2. TreeClaims(tree, head) /\ DOMAIN head \subseteq DOMAIN tree
  BY DEF MainInv, TreeClaims
<1>3. TreeClaims(Put(tree, f, c), head)
  <2>1. CASE f \in Nodes \cup {Questionnaire}
    <3>1. f \notin {Cycle, Survey, Plan, Reality}
      BY <2>1, Names DEF Nodes
    <3>2. QED
      BY <1>2, <3>1, WriteClaims
  <2>2. CASE f \in DOMAIN tree /\ c = tree[f]
    BY <1>2, <2>2, WriteClaims DEF TreeClaims, MarksTracked
  <2>3. QED
    BY <2>1, <2>2
<1>4. DOMAIN Put(tree, f, c) = DOMAIN tree \cup {f}
  BY DEF Put
<1>5. TreeClaims(Put(tree, f, c), head')
  BY <1>1, <1>2, <1>3, <1>4, HistoryClaims
<1>6. f \in DOMAIN tree => TreeClaims(tree, head')
  BY <1>1, <1>2, HistoryClaims
<1>7. Backed(main') /\ Truthful(main')
  BY <1>1, <1>5, PushClaims DEF MainInv
<1>8. QED
  BY <1>5, <1>6, <1>7

\* A developer's command keeps the invariant when it keeps the tree's claims.
LEMMA IdleClaims ==
    ASSUME MainInv, Idle, UNCHANGED <<git, job>>, TreeClaims(tree', head)
    PROVE  MainInv'
BY DEF MainInv, Idle, CommandClaims, HistoryInv, Closing, Finalizers

\* So does the end of a command.
LEMMA ReturnClaims ==
    ASSUME Return, TreeClaims(tree', head'), HistoryInv', Backed(main'), Truthful(main')
    PROVE  MainInv'
BY DEF MainInv, Return, CommandClaims, Closing, Finalizers

\* A command starts from claims that hold.
LEMMA StartClaims ==
    ASSUME MainInv, NEW name, NEW files, Start(name, files),
           Cycle \in DOMAIN tree,
           name \in Finalizers \cup {"settle"} =>
               /\ Vouched' \in DOMAIN tree /\ tree[Vouched'].digest = tree[Cycle].signed
               /\ Artifacts' \cup {Vouched'} \subseteq files
    PROVE  MainInv'
<1>1. MayClaim(tree, head, tree[Cycle])
  BY DEF MainInv, TreeClaims
<1>2. UNCHANGED <<tree, git>> /\ cmd' = name /\ todo' = files /\ was' = tree[Cycle] /\ landed' = {}
  BY DEF Start
<1>3. CommandClaims'
  BY <1>1, <1>2 DEF CommandClaims, Closing
<1>4. QED
  BY <1>2, <1>3 DEF MainInv, HistoryInv

LEMMA InitClaims == Init => MainInv
<1> SUFFICES ASSUME Init
             PROVE  MainInv
  OBVIOUS
<1>1. DOMAIN tree = {Themes} /\ head = tree /\ main = tree
  BY DEF Init
<1>2. Cycle \notin DOMAIN tree /\ Plan \notin DOMAIN tree /\ Reality \notin DOMAIN tree
  BY <1>1, Names
<1>3. TreeClaims(tree, head) /\ Backed(main) /\ Truthful(main)
  BY <1>1, <1>2 DEF TreeClaims, MarksTracked, Backed, Truthful
<1>4. HistoryInv /\ CommandClaims
  BY DEF Init, HistoryInv, CommandClaims, Closing, Finalizers
<1>5. QED
  BY <1>3, <1>4 DEF MainInv

\* The developer's commands on the cycle, the survey and the checks.
LEMMA RecordClaims ==
    ASSUME TypeInv, MainInv,
           new_cycle \/ sign_off \/ SurveyRun \/ Dispose \/ Amend \/ Answer \/ open_r6
    PROVE  MainInv'
<1> USE TreeTypes, Names
<1>0. TypeOK /\ TreeClaims(tree, head)
  BY DEF TypeInv, MainInv
<1>1. CASE new_cycle
  <2>1. MayClaim(tree, head, Blank)
    BY DEF MayClaim, Blank
  <2>2. TreeClaims(tree', head)
    BY <1>0, <1>1, <2>1, WriteClaims DEF new_cycle, Write
  <2>3. QED
    BY <1>1, <2>2, IdleClaims DEF new_cycle
<1>2. CASE sign_off
  <2> DEFINE signed == [tree[Cycle] EXCEPT !.status = "signed-off", !.signed = tree[Themes]]
  <2>1. tree[Cycle] \in CycleRecord /\ MayClaim(tree, head, tree[Cycle])
    BY <1>0, <1>2 DEF sign_off, Exists, TreeClaims
  <2>2. signed.status = "signed-off" /\ signed.holds = tree[Cycle].holds
            /\ signed.minted = tree[Cycle].minted
    BY <2>1 DEF CycleRecord
  <2>3. MayClaim(tree, head, signed)
    BY <2>1, <2>2 DEF MayClaim
  <2> HIDE DEF signed
  <2>4. tree' = Put(tree, Cycle, signed)
    BY <1>2 DEF sign_off, Write, signed
  <2>5. TreeClaims(tree', head)
    BY <1>0, <2>3, <2>4, WriteClaims
  <2>6. QED
    BY <1>2, <2>5, IdleClaims DEF sign_off
<1>3. CASE SurveyRun
  <2>1. PICK c : tree' = Put(tree, Survey, c) /\ c.digest = tree[Cycle].signed
    BY <1>3 DEF SurveyRun, Write
  <2>2. TreeClaims(tree', head)
    BY <1>0, <2>1, WriteClaims
  <2>3. QED
    BY <1>3, <2>2, IdleClaims DEF SurveyRun
<1>4. CASE Dispose \/ Amend
  <2>1. Survey \in DOMAIN tree /\ Decided.digest = tree[Survey].digest
    BY <1>0, <1>4 DEF Dispose, Amend, Exists, Decided, SurveyRecord
  <2>2. \A t : TreeClaims(t, head) /\ Survey \in DOMAIN t /\ t[Survey] = tree[Survey] =>
            TreeClaims(Put(t, Survey, Decided), head)
    BY <2>1, WriteClaims
  <2>3. ASSUME NEW d \in Digests
        PROVE  /\ TreeClaims(Put(tree, Themes, d), head)
               /\ Survey \in DOMAIN Put(tree, Themes, d)
               /\ Put(tree, Themes, d)[Survey] = tree[Survey]
    <3>1. TreeClaims(Put(tree, Themes, d), head)
      BY <1>0, WriteClaims
    <3>2. QED
      BY <2>1, <3>1 DEF Put
  <2>4. CASE Dispose
    BY <1>0, <2>1, <2>2, <2>4, IdleClaims DEF Dispose, Write
  <2>5. CASE Amend
    <3>1. PICK d \in Digests : tree' \in {Put(Put(tree, Themes, d), Survey, Decided),
                                          Put(tree, Themes, d)}
      BY <2>5 DEF Amend, Write
    <3>2. TreeClaims(tree', head)
      BY <2>2, <2>3, <3>1
    <3>3. QED
      BY <2>5, <3>2, IdleClaims DEF Amend
  <2>6. QED
    BY <1>4, <2>4, <2>5
<1>5. CASE Answer
  <2>1. Reality \in DOMAIN tree /\ tree[Reality] \in CheckRecord
    BY <1>0, <1>5 DEF Answer, Exists
  <2>2. PICK c : tree' = Put(tree, Reality, c) /\ c.digest = tree[Reality].digest
    BY <1>5, <2>1 DEF Answer, Write, CheckRecord
  <2>3. Questionnaire \in DOMAIN head
    BY <1>0, <2>1 DEF TreeClaims, MarksTracked
  <2>4. TreeClaims(tree', head)
    BY <1>0, <2>1, <2>2, <2>3, WriteClaims
  <2>5. QED
    BY <1>5, <2>4, IdleClaims DEF Answer
<1>6. CASE open_r6
  <2>1. PICK c : tree' = Put(tree, Consolidation, c)
    BY <1>6 DEF open_r6, Write
  <2>2. TreeClaims(tree', head)
    BY <1>0, <2>1, WriteClaims
  <2>3. QED
    BY <1>6, <2>2, IdleClaims DEF open_r6
<1>7. QED
  BY <1>1, <1>2, <1>3, <1>4, <1>5, <1>6

\* Entries that change to another state than "minted" leave the marks where they were.
LEMMA StateMarks ==
    ASSUME NEW plan \in PlanRecord, NEW S, NEW state, state # "minted"
    PROVE  /\ WithState(plan, S, state).digest = plan.digest
           /\ \A e \in Entries : WithState(plan, S, state).state[e] = "minted" =>
                  plan.state[e] = "minted"
BY DEF WithState, PlanRecord

\* Writing a plan that keeps the digest and adds no mark keeps the tree's claims.
LEMMA PlanWrite ==
    ASSUME NEW t, TreeClaims(t, head), Plan \in DOMAIN t, NEW c,
           c.digest = t[Plan].digest,
           \A e \in Entries : c.state[e] = "minted" => t[Plan].state[e] = "minted"
    PROVE  TreeClaims(Put(t, Plan, c), head)
<1>1. \A e \in Entries : c.state[e] = "minted" => Node(e) \in DOMAIN head
  BY DEF TreeClaims, MarksTracked
<1>2. Plan \notin {Cycle, Survey, Reality}
  BY Names
<1>3. QED
  BY <1>1, <1>2, WriteClaims

\* The developer's commands on the plan.
LEMMA PlanClaims ==
    ASSUME TypeInv, MainInv,
           \/ Atomize \/ DraftEdges \/ Verify \/ CrossThemeEdges
           \/ \E e \in Entries : RunDebate(e) \/ Waive(e) \/ Drop(e)
    PROVE  MainInv'
<1> USE Names
<1>0. TypeOK /\ TreeClaims(tree, head)
  BY DEF TypeInv, MainInv
<1>1. Plan \in DOMAIN tree => tree[Plan] \in PlanRecord
  BY <1>0, TreeTypes
<1>2. CASE Atomize
  <2>1. PICK c : /\ tree' = Put(tree, Plan, c) /\ c.digest = tree[Cycle].signed
                 /\ \A e \in Entries : c.state[e] # "minted"
    <3>1. PICK state \in [Entries -> {"none", "blocked", "proposed"}] :
              Write(Plan, [digest |-> tree[Cycle].signed, run |-> NextRun(Plan),
                           state |-> state, debated |-> {}, waived |-> {}])
      BY <1>2 DEF Atomize
    <3>2. QED
      BY <3>1 DEF Write
  <2>2. TreeClaims(tree', head)
    BY <1>0, <2>1, WriteClaims
  <2>3. QED
    BY <1>2, <2>2, IdleClaims DEF Atomize
<1>3. CASE DraftEdges
  <2>1. PICK S : tree' = Put(tree, Plan, WithState(tree[Plan], S, "proposed"))
    BY <1>3 DEF DraftEdges, Write
  <2>2. TreeClaims(tree', head)
    BY <1>0, <1>1, <1>3, <2>1, StateMarks, PlanWrite DEF DraftEdges, Exists
  <2>3. QED
    BY <1>3, <2>2, IdleClaims DEF DraftEdges
<1>4. CASE Verify
  <2>1. Plan \in DOMAIN tree
    BY <1>4 DEF Verify, Exists
  <2>2. PICK ok : tree' = Put(tree, Plan, WithState(WithState(tree[Plan], ok, "verified"),
                                                    Ready(tree[Plan]) \ ok, "refused"))
    BY <1>4 DEF Verify, Write
  <2> DEFINE first == WithState(tree[Plan], ok, "verified")
             second == WithState(first, Ready(tree[Plan]) \ ok, "refused")
  <2>3. first \in PlanRecord
    BY <1>1, <2>1, WithStateType DEF EntryStates
  <2>4. /\ first.digest = tree[Plan].digest
        /\ \A e \in Entries : first.state[e] = "minted" => tree[Plan].state[e] = "minted"
    BY <1>1, <2>1, StateMarks
  <2> HIDE DEF first
  <2>5. /\ second.digest = first.digest
        /\ \A e \in Entries : second.state[e] = "minted" => first.state[e] = "minted"
    BY <2>3, StateMarks
  <2>6. tree' = Put(tree, Plan, second)
    BY <2>2 DEF first
  <2> HIDE DEF second
  <2>7. TreeClaims(tree', head)
    BY <1>0, <2>1, <2>4, <2>5, <2>6, PlanWrite
  <2>8. QED
    BY <1>4, <2>7, IdleClaims DEF Verify
<1>5. CASE CrossThemeEdges
  <2>1. Plan \in DOMAIN tree
    BY <1>5 DEF CrossThemeEdges, Exists
  <2>2. PICK S, record :
            tree' \in {Put(tree, Plan, WithState(tree[Plan], S, "proposed")),
                       Put(Put(tree, Plan, WithState(tree[Plan], S, "proposed")),
                           Consolidation, record)}
    BY <1>5 DEF CrossThemeEdges
  <2> DEFINE on == Put(tree, Plan, WithState(tree[Plan], S, "proposed"))
  <2>3. TreeClaims(on, head)
    BY <1>0, <1>1, <2>1, StateMarks, PlanWrite
  <2> HIDE DEF on
  <2>4. TreeClaims(Put(on, Consolidation, record), head)
    BY <2>3, WriteClaims
  <2>5. TreeClaims(tree', head)
    BY <2>2, <2>3, <2>4 DEF on
  <2>6. QED
    BY <1>5, <2>5, IdleClaims DEF CrossThemeEdges
<1>6. ASSUME NEW e \in Entries, RunDebate(e)
      PROVE  MainInv'
  <2>1. Plan \in DOMAIN tree
    BY <1>6 DEF RunDebate, Exists
  <2> DEFINE on == Put(tree, Debate(e), TRUE)
             plan(to) == [WithState(tree[Plan], {e}, to) EXCEPT !.debated = @ \cup {e}]
  <2>2. PICK to : to # "minted" /\ tree' = Put(on, Plan, plan(to))
    <3>1. PICK to \in {Reopened(tree[Plan].state[e]), "dropped", "proposed"} :
              tree' = Put(on, Plan, plan(to))
      BY <1>6 DEF RunDebate
    <3>2. to # "minted"
      BY <3>1 DEF Reopened
    <3>3. QED
      BY <3>1, <3>2
  <2>3. /\ plan(to).digest = tree[Plan].digest
        /\ \A d \in Entries : plan(to).state[d] = "minted" => tree[Plan].state[d] = "minted"
    BY <1>1, <2>1, <2>2 DEF WithState, PlanRecord
  <2>4. TreeClaims(on, head)
    BY <1>0, WriteClaims
  <2>5. Plan \in DOMAIN on /\ on[Plan] = tree[Plan]
    BY <2>1 DEF Put
  <2> HIDE DEF on, plan
  <2>6. TreeClaims(tree', head)
    BY <2>2, <2>3, <2>4, <2>5, PlanWrite
  <2>7. QED
    BY <1>6, <2>6, IdleClaims DEF RunDebate
<1>7. ASSUME NEW e \in Entries, Waive(e)
      PROVE  MainInv'
  <2>1. Plan \in DOMAIN tree
    BY <1>7 DEF Waive, Exists
  <2> DEFINE plan == [WithState(tree[Plan], {e}, Reopened(tree[Plan].state[e]))
                          EXCEPT !.waived = @ \cup {e}]
  <2>2. tree' = Put(tree, Plan, plan)
    BY <1>7 DEF Waive, Write
  <2>3. Reopened(tree[Plan].state[e]) # "minted"
    BY DEF Reopened
  <2>4. /\ plan.digest = tree[Plan].digest
        /\ \A d \in Entries : plan.state[d] = "minted" => tree[Plan].state[d] = "minted"
    BY <1>1, <2>1, <2>3 DEF WithState, PlanRecord
  <2> HIDE DEF plan
  <2>5. TreeClaims(tree', head)
    BY <1>0, <2>1, <2>2, <2>4, PlanWrite
  <2>6. QED
    BY <1>7, <2>5, IdleClaims DEF Waive
<1>8. ASSUME NEW e \in Entries, Drop(e)
      PROVE  MainInv'
  <2>1. TreeClaims(tree', head)
    BY <1>0, <1>1, <1>8, StateMarks, PlanWrite DEF Drop, Exists, Write
  <2>2. QED
    BY <1>8, <2>1, IdleClaims DEF Drop
<1>9. QED
  BY <1>2, <1>3, <1>4, <1>5, <1>6, <1>7, <1>8

\* The starts of the commands that land.
LEMMA StartsClaims ==
    ASSUME TypeInv, MainInv,
           \/ StartMint \/ finalize_r3 \/ finalize_r4 \/ finalize_r4_draft
           \/ open_r5 \/ finalize_r5 \/ settle
    PROVE  MainInv'
<1> USE DEF Vouched, Artifacts, PlanFiles, require_sign_off, Exists, Finalizers, Closing
<1>1. CASE StartMint
  <2>1. PICK files : Start("mint", files)
    BY <1>1 DEF StartMint
  <2>2. QED
    BY <1>1, <2>1, StartClaims DEF StartMint
<1>2. CASE finalize_r3
  <2>1. Start("r3", {Survey, Cycle})
    BY <1>2 DEF finalize_r3
  <2>2. cmd' = "r3"
    BY <2>1 DEF Start
  <2>3. QED
    BY <1>2, <2>1, <2>2, StartClaims DEF finalize_r3
<1>3. CASE finalize_r4 \/ finalize_r4_draft
  <2>1. PICK name \in {"r4", "r4-draft"} : Start(name, PlanFiles \cup {Cycle})
    BY <1>3 DEF finalize_r4, finalize_r4_draft
  <2>2. cmd' = name /\ tree' = tree
    BY <2>1 DEF Start
  <2>3. Cycle \in DOMAIN tree /\ Plan \in DOMAIN tree /\ tree[Plan].digest = tree[Cycle].signed
    BY <1>3 DEF finalize_r4, finalize_r4_draft, PlanCloses, PlanDrafted
  <2>4. Vouched' = Plan /\ Artifacts' = PlanFiles
    BY <2>2
  <2>5. QED
    BY <2>1, <2>3, <2>4, StartClaims
<1>4. CASE open_r5
  <2>1. Start("compile", {Questionnaire})
    BY <1>4 DEF open_r5
  <2>2. QED
    BY <1>4, <2>1, StartClaims DEF open_r5
<1>5. CASE finalize_r5
  <2>1. Start("r5", {Reality, Cycle})
    BY <1>5 DEF finalize_r5
  <2>2. cmd' = "r5"
    BY <2>1 DEF Start
  <2>3. QED
    BY <1>5, <2>1, <2>2, StartClaims DEF finalize_r5
<1>6. CASE settle
  <2>1. Start("settle", {Plan, Consolidation, Cycle})
    BY <1>6 DEF settle
  <2>2. cmd' = "settle"
    BY <2>1 DEF Start
  <2>3. QED
    BY <1>6, <2>1, <2>2, StartClaims DEF settle, PlanCloses
<1>7. QED
  BY <1>1, <1>2, <1>3, <1>4, <1>5, <1>6

\* The steps of a mint.
LEMMA MintClaims ==
    ASSUME TypeInv, MainInv, EndMint \/ \E e \in Entries : MintItem(e)
    PROVE  MainInv'
<1> USE Names
<1>0. TypeOK /\ TreeClaims(tree, head)
  BY DEF TypeInv, MainInv
<1>1. CASE EndMint
  <2>1. Plan \in DOMAIN tree /\ tree[Plan] \in PlanRecord
    BY <1>0, <1>1, TreeTypes DEF EndMint, TypeInv
  <2> DEFINE plan == WithState(tree[Plan], landed, "minted")
  <2>2. /\ plan.digest = tree[Plan].digest
        /\ \A e \in Entries : plan.state[e] = "minted" =>
               e \in landed \/ tree[Plan].state[e] = "minted"
    BY <2>1 DEF WithState, PlanRecord
  <2>3. tree' = Put(tree, Plan, plan)
    BY <1>1 DEF EndMint, Write
  <2> HIDE DEF plan
  <2>4. \A e \in Entries : plan.state[e] = "minted" => Node(e) \in DOMAIN head
    BY <2>1, <2>2 DEF MainInv, CommandClaims, TreeClaims, MarksTracked
  <2>5. TreeClaims(tree', head)
    BY <1>0, <2>1, <2>2, <2>3, <2>4, WriteClaims
  <2>6. QED
    BY <1>1, <2>5, ReturnClaims DEF EndMint, MainInv, HistoryInv
<1>2. ASSUME NEW e \in Entries, MintItem(e)
      PROVE  MainInv'
  <2> DEFINE on == Put(tree, Node(e), NextMint(e))
             minted == [was EXCEPT !.minted = @ \cup {e}]
  <2>1. PICK result \in Results, contended \in BOOLEAN :
            /\ Land(Node(e), NextMint(e), result)
            /\ contended => result = "refused"
            /\ tree' = IF result = "landed" \/ contended THEN Put(on, Cycle, minted) ELSE on
            /\ IF result \in {"raised", "killed"}
               THEN Return
               ELSE /\ todo' = todo \ {Node(e)}
                    /\ landed' = IF result = "landed" \/ contended
                                 THEN landed \cup {e} ELSE landed
                    /\ was' = IF result = "landed" \/ contended THEN minted ELSE was
                    /\ UNCHANGED cmd
    BY <1>2, Zenon DEF MintItem
  <2>2. cmd = "mint" /\ Node(e) \in Files
    BY <1>2, Known DEF MintItem
  <2>3. /\ DOMAIN head \subseteq DOMAIN head' /\ HistoryInv'
        /\ result \in {"landed", "refused"} => Node(e) \in DOMAIN head'
    BY <2>1, <2>2, LandFacts
  <2>4. Node(e) \in Nodes
    BY DEF Nodes
  <2>5. TreeClaims(on, head') /\ Backed(main') /\ Truthful(main')
    BY <2>1, <2>2, <2>4, LandClaims
  <2>6. was \in CycleRecord /\ MayClaim(tree, head, was) /\ Cycle \in DOMAIN tree
            /\ tree[Cycle] = was
    BY <1>0, <2>2 DEF TypeInv, TypeOK, MainInv, CommandClaims, Closing, Finalizers
  <2>7. MayClaim(on, head', was)
    <3>1. \A f \in {Survey, Plan, Reality} : f \in DOMAIN tree =>
              f \in DOMAIN on /\ on[f] = tree[f]
      BY DEF Put
    <3>2. QED
      BY <2>3, <2>6, <3>1, ClaimKept
  <2>8. Node(e) \in DOMAIN head' => MayClaim(on, head', minted)
    <3>1. /\ minted.holds = was.holds /\ minted.status = was.status
          /\ minted.signed = was.signed /\ minted.minted = was.minted \cup {e}
      BY <2>6 DEF CycleRecord
    <3>2. QED
      BY <2>7, <3>1 DEF MayClaim, Follows
  <2>9. Cycle \in DOMAIN on /\ on[Cycle] = was
    BY <2>6 DEF Put
  <2> HIDE DEF on, minted
  <2>10. CASE result = "landed" \/ contended
    <3>1. /\ tree' = Put(on, Cycle, minted) /\ was' = minted /\ landed' = landed \cup {e}
          /\ cmd' = "mint" /\ Node(e) \in DOMAIN head'
      BY <2>1, <2>2, <2>3, <2>10
    <3>2. TreeClaims(tree', head')
      BY <2>5, <2>8, <3>1, WriteClaims
    <3>3. tree'[Cycle] = minted /\ Cycle \in DOMAIN tree'
      BY <3>1 DEF Put
    <3>4. MayClaim(tree', head', was')
      BY <3>1, <3>2, <3>3 DEF TreeClaims
    <3>5. CommandClaims'
      BY <2>3, <3>1, <3>3, <3>4 DEF MainInv, CommandClaims, Closing, Finalizers
    <3>6. QED
      BY <2>3, <2>5, <3>2, <3>5 DEF MainInv
  <2>11. CASE ~ (result = "landed" \/ contended) /\ Return
    BY <2>1, <2>3, <2>5, <2>11, ReturnClaims
  <2>12. CASE ~ (result = "landed" \/ contended) /\ ~ Return
    <3>1. tree' = on /\ was' = was /\ landed' = landed /\ cmd' = "mint"
      BY <2>1, <2>2, <2>12
    <3>2. CommandClaims'
      BY <2>3, <2>7, <2>9, <3>1 DEF MainInv, CommandClaims, Closing, Finalizers
    <3>3. QED
      BY <2>3, <2>5, <3>1, <3>2 DEF MainInv
  <2>13. QED
    BY <2>10, <2>11, <2>12
<1>3. QED
  BY <1>1, <1>2

\* `reality compile`: the check names the questionnaire that landed before it.
LEMMA SpecClaims ==
    ASSUME TypeInv, MainInv, LandSpec
    PROVE  MainInv'
<1> USE Names
<1> DEFINE spec == {e \in Entries : Exists(Node(e))}
           put == Put(tree, Questionnaire, spec)
           on == IF spec \in history[Questionnaire] THEN tree ELSE put
           check == [digest |-> was.signed, ready |-> FALSE, run |-> NextRun(Reality)]
<1>0. check.digest = was.signed
  OBVIOUS
<1>1. PICK result \in Results :
          /\ Land(Questionnaire, spec, result)
          /\ tree' = IF result = "landed" THEN Put(on, Reality, check) ELSE on
  BY Zenon DEF LandSpec
<1> HIDE DEF check
<1>2. cmd = "compile" /\ Return
  BY DEF LandSpec
<1>3. /\ DOMAIN head \subseteq DOMAIN head' /\ HistoryInv'
      /\ result \in {"landed", "refused"} => Questionnaire \in DOMAIN head'
  BY <1>1, Known, LandFacts
<1>4. TreeClaims(put, head') /\ Backed(main') /\ Truthful(main')
  BY <1>1, Known, LandClaims
<1>5. TreeClaims(on, head')
  <2>1. CASE spec \in history[Questionnaire]
    <3>1. Questionnaire \in DOMAIN head
      BY <2>1, Known DEF MainInv, HistoryInv
    <3>2. TreeClaims(tree, head')
      BY <1>1, <3>1, Known, LandClaims DEF MainInv, TreeClaims
    <3>3. QED
      BY <2>1, <3>2
  <2>2. CASE spec \notin history[Questionnaire]
    BY <1>4, <2>2
  <2>3. QED
    BY <2>1, <2>2
<1>6. Cycle \in DOMAIN on => on[Cycle] = was
  <2>1. Cycle \in DOMAIN tree /\ tree[Cycle] = was
    BY <1>2 DEF TypeInv, MainInv, CommandClaims, Closing, Finalizers
  <2>2. QED
    BY <2>1 DEF Put
<1> HIDE DEF on
<1>7. CASE result = "landed"
  <2>1. TreeClaims(Put(on, Reality, check), head')
    BY <1>0, <1>3, <1>5, <1>6, <1>7, WriteClaims
  <2>2. QED
    BY <1>1, <1>2, <1>3, <1>4, <1>7, <2>1, ReturnClaims
<1>8. CASE result # "landed"
  BY <1>1, <1>2, <1>3, <1>4, <1>5, <1>8, ReturnClaims
<1>9. QED
  BY <1>7, <1>8

\* The landings of a finalizer and of settle.
LEMMA FileClaims ==
    ASSUME TypeInv, MainInv, LandFile
    PROVE  MainInv'
<1>0. TypeOK /\ TreeClaims(tree, head)
  BY DEF TypeInv, MainInv
<1>1. PICK f \in todo \ {Cycle}, result \in Results :
          /\ Land(f, tree[f], result)
          /\ \/ result = "landed" /\ todo' = todo \ {f} /\ UNCHANGED <<cmd, landed, was>>
             \/ Return
  BY Zenon DEF LandFile
<1>2. f \in DOMAIN tree /\ f \in Files
  BY <1>0 DEF LandFile, TypeInv, TypeOK
<1>3. UNCHANGED tree /\ Closing
  BY DEF LandFile
<1>4. /\ DOMAIN head \subseteq DOMAIN head' /\ HistoryInv'
      /\ result = "landed" => f \in DOMAIN head'
  BY <1>1, <1>2, LandFacts
<1>5. TreeClaims(tree, head') /\ Backed(main') /\ Truthful(main')
  BY <1>1, <1>2, LandClaims
<1>6. CASE Return
  BY <1>3, <1>4, <1>5, <1>6, ReturnClaims
<1>7. CASE result = "landed" /\ todo' = todo \ {f} /\ UNCHANGED <<cmd, landed, was>>
  <2>1. cmd # "idle" /\ Closing'
    BY <1>3, <1>7 DEF Closing, Finalizers
  <2>2. todo # {} /\ tree[Cycle] = was /\ MayClaim(tree, head, was)
    BY <1>1, <2>1 DEF MainInv, CommandClaims
  <2>3. MayClaim(tree, head', was)
    BY <1>4, <2>2, ClaimKept DEF MayClaim, Follows
  <2>4. Vouched' = Vouched /\ Artifacts' = Artifacts
    BY <1>3, <1>7 DEF Vouched, Artifacts, PlanFiles
  <2>5. CommandClaims'
    BY <1>3, <1>4, <1>7, <2>1, <2>2, <2>3, <2>4 DEF MainInv, CommandClaims
  <2>6. QED
    BY <1>3, <1>4, <1>5, <2>5 DEF MainInv
<1>8. QED
  BY <1>1, <1>6, <1>7

\* The cycle advances when everything it vouches for is tracked.
LEMMA SaveClaims ==
    ASSUME TypeInv, MainInv, SaveCycle
    PROVE  MainInv'
<1> USE Names
<1> DEFINE saved == Advanced(was, Target, Artifacts)
<1>1. /\ Closing /\ todo = {Cycle} /\ cmd # "idle" /\ UNCHANGED git
      /\ TypeOK /\ TreeClaims(tree, head) /\ Cycle \in DOMAIN tree
  BY DEF SaveCycle, Closing, Finalizers, TypeInv, MainInv
<1>2. was \in CycleRecord /\ MayClaim(tree, head, was)
  BY <1>1 DEF TypeOK, MainInv, CommandClaims
<1>3. /\ saved.status = Target /\ saved.signed = was.signed /\ saved.minted = was.minted
      /\ saved.holds = was.holds \cup Artifacts
  BY <1>2 DEF Advanced, CycleRecord
<1>4. Cycle \notin Artifacts \cup {Vouched}
  <2>1. CASE cmd \in {"r4", "r4-draft"}
    <3>1. Plan \in DOMAIN tree /\ tree[Plan].debated \subseteq Entries
      BY <1>1, <2>1, TreeTypes DEF TypeInv, PlanRecord
    <3>2. QED
      BY <2>1, <3>1 DEF Artifacts, PlanFiles, Vouched
  <2>2. CASE cmd \notin {"r4", "r4-draft"}
    BY <2>2 DEF Artifacts, Vouched
  <2>3. QED
    BY <2>1, <2>2
<1>5. /\ Artifacts \cup {Vouched} \subseteq DOMAIN head
      /\ Vouched \in DOMAIN tree /\ tree[Vouched].digest = was.signed
  BY <1>1, <1>4 DEF MainInv, CommandClaims
<1>6. /\ Target = "r3-done" => Vouched = Survey
      /\ Target = "r5-done" => Vouched = Reality
      /\ Target \in {"r4-drafted", "r4-done", "settled"} => Vouched = Plan
  BY <1>1 DEF Target, Vouched, Closing, Finalizers
<1>7. MayClaim(tree, head, saved)
  BY <1>2, <1>3, <1>5, <1>6 DEF MayClaim, Follows
<1> HIDE DEF saved
<1>8. CASE Write(Cycle, saved) /\ todo' = {} /\ UNCHANGED <<cmd, landed, was>>
  <2>1. TreeClaims(tree', head)
    BY <1>1, <1>7, <1>8, WriteClaims DEF Write
  <2>2. /\ Cycle \in DOMAIN tree' /\ tree'[Cycle] = saved
        /\ \A f \in DOMAIN tree : f # Cycle => f \in DOMAIN tree' /\ tree'[f] = tree[f]
    BY <1>8 DEF Write, Put
  <2>3. MayClaim(tree', head, was)
    BY <1>2, <2>2, ClaimKept
  <2>4. Vouched' = Vouched /\ Artifacts' = Artifacts
    <3>1. cmd \in {"r4", "r4-draft"} => Plan \in DOMAIN tree
      BY DEF TypeInv
    <3>2. QED
      BY <1>8, <2>2, <3>1 DEF Vouched, Artifacts, PlanFiles
  <2>5. Closing' /\ Vouched \in DOMAIN tree' /\ tree'[Vouched] = tree[Vouched]
    BY <1>1, <1>4, <1>5, <1>8, <2>2 DEF Closing
  <2>6. CommandClaims'
    BY <1>1, <1>3, <1>5, <1>8, <2>2, <2>3, <2>4, <2>5 DEF MainInv, CommandClaims
  <2>7. QED
    BY <1>1, <2>1, <2>6 DEF MainInv, HistoryInv
<1>9. CASE Return /\ UNCHANGED tree
  BY <1>1, <1>9, ReturnClaims DEF MainInv, HistoryInv
<1>10. QED
  BY <1>8, <1>9 DEF SaveCycle, saved

\* The cycle lands, or is put back as it was loaded.
LEMMA CycleClaims ==
    ASSUME TypeInv, MainInv, LandCycle
    PROVE  MainInv'
<1>1. PICK result \in Results :
          /\ Land(Cycle, tree[Cycle], result)
          /\ tree' \in {Put(tree, Cycle, was), tree}
  BY Zenon DEF LandCycle
<1>2. Return /\ Cycle \in DOMAIN tree /\ Cycle \in Files /\ MayClaim(tree, head, was)
  BY Known DEF LandCycle, Closing, Finalizers, TypeInv, MainInv, CommandClaims
<1>3. DOMAIN head \subseteq DOMAIN head' /\ HistoryInv'
  BY <1>1, <1>2, LandFacts
<1>4. TreeClaims(tree, head') /\ Backed(main') /\ Truthful(main')
  BY <1>1, <1>2, LandClaims
<1>5. MayClaim(tree, head', was)
  BY <1>2, <1>3, ClaimKept DEF MayClaim, Follows
<1>6. TreeClaims(Put(tree, Cycle, was), head')
  BY <1>4, <1>5, WriteClaims, Names
<1>7. QED
  BY <1>1, <1>2, <1>3, <1>4, <1>6, ReturnClaims

\* Every step keeps the invariant.
LEMMA MainStep == TypeInv /\ MainInv /\ [Next]_vars => MainInv'
<1> SUFFICES ASSUME TypeInv, MainInv, [Next]_vars
             PROVE  MainInv'
  OBVIOUS
<1>1. CASE Release
  BY <1>1, IdleClaims DEF Release, MainInv
<1>2. CASE Kill
  BY <1>2, ReturnClaims DEF Kill, MainInv, HistoryInv
<1>3. CASE HandCommit
  <2>1. head' = tree /\ main' = tree /\ tree' = tree /\ history' = history
    BY <1>3 DEF HandCommit
  <2>2. DOMAIN head \subseteq DOMAIN tree
    BY DEF MainInv, TreeClaims
  <2>3. TreeClaims(tree, tree)
    BY <2>2, HistoryClaims DEF MainInv
  <2>4. Backed(tree) /\ Truthful(tree)
    BY <2>3, PushClaims DEF Clean
  <2>5. HistoryInv'
    BY <2>1, <2>2 DEF MainInv, HistoryInv
  <2>6. CommandClaims'
    BY <1>3, <2>1, <2>2 DEF HandCommit, Idle, MainInv, CommandClaims, Closing, Finalizers
  <2>7. QED
    BY <2>1, <2>3, <2>4, <2>5, <2>6 DEF MainInv
<1>4. CASE UNCHANGED vars
  BY <1>4 DEF vars, MainInv, CommandClaims, HistoryInv, Closing, Vouched, Artifacts, PlanFiles
<1>5. QED
  BY <1>1, <1>2, <1>3, <1>4, RecordClaims, PlanClaims, StartsClaims, MintClaims, SpecClaims,
     FileClaims, SaveClaims, CycleClaims
  DEF Next

\* The claims of the tree hold in every state, with the types they rest on.
LEMMA MainAlways == Spec => [](TypeInv /\ MainInv)
<1>1. Init => TypeInv /\ MainInv
  BY InitTypes, InitClaims
<1>2. TypeInv /\ MainInv /\ [Next]_vars => (TypeInv /\ MainInv)'
  BY TypeStep, MainStep
<1>3. QED
  BY <1>1, <1>2, PTL DEF Spec

\* For any entries, digests and bounds: the cycle on origin/main never claims a step whose
\* document main does not hold, or holds for another text of the theme than the signed one
\* (finalize_r3, _land_plan, finalize_r5, settle).
THEOREM StatusBacked == Spec => []StatusIsBacked
<1>1. MainInv => StatusIsBacked
  BY DEF MainInv, StatusIsBacked
<1>2. QED
  BY <1>1, MainAlways, PTL

\* For any entries, digests and bounds: no plan or cycle on origin/main counts a record as
\* minted, and no reality check names a questionnaire, that main does not hold (mint_plan,
\* record_minted, open_r5).
THEOREM PlanTruthful == Spec => []PlanTellsTruth
<1>1. MainInv => PlanTellsTruth
  BY DEF MainInv, PlanTellsTruth
<1>2. QED
  BY <1>1, MainAlways, PTL
-----------------------------------------------------------------------------
(* The landing of a settled cycle comes last.  A text once landed lands        *)
(* nothing again, so settle must never return to a plan or a record that HEAD  *)
(* has replaced since: every command that writes one of them goes forward.     *)

Stage == [s \in EntryStates |->
            CASE s = "none" -> 0 [] s = "blocked" -> 1 [] s = "proposed" -> 2
              [] s = "closed" -> 3 [] s = "reopened" -> 4 [] s = "refused" -> 5
              [] s = "verified" -> 6 [] s = "minted" -> 7 [] s = "dropped" -> 8]

\* The plan p is q or an earlier one: another atomize, a debate or a waiver makes a later
\* plan, whatever it does to the state, and every other command moves entries forward.
NotAfter(p, q) ==
    \/ p.run < q.run
    \/ /\ p.run = q.run /\ p.digest = q.digest
       /\ p.debated \subseteq q.debated /\ p.waived \subseteq q.waived
       /\ p.debated = q.debated /\ p.waived = q.waived =>
              \A e \in Entries : Stage[p.state[e]] <= Stage[q.state[e]]

\* The text of f that a key names is the one in HEAD if the tree has it again.
Current(f, c) == c = tree[f] => f \in DOMAIN head /\ head[f] = c

PlanForward ==
    \A c \in history[Plan] :
        Plan \in DOMAIN tree /\ NotAfter(c, tree[Plan]) /\ Current(Plan, c)

PassForward ==
    \A c \in history[Consolidation] :
        /\ Consolidation \in DOMAIN tree
        /\ c = tree[Consolidation] \/ c.run < tree[Consolidation].run
        /\ Current(Consolidation, c)

\* A mint holds no entry that was dropped.
MintsLive ==
    cmd = "mint" =>
        \A e \in Entries :
            e \in landed \/ Node(e) \in todo => tree[Plan].state[e] # "dropped"

Late == {"r4-done", "r5-done", "settled"}
Early(s) == Cycle \in DOMAIN s => s[Cycle].status \notin Late

\* Before the structure review nothing is minted, so no cycle is past R4, and a plan with
\* open entries is drafted only then.
ReleaseInv ==
    /\ cmd = "r4-draft" => ~ released
    /\ ~ released =>
           /\ cmd \notin {"mint", "compile", "r4", "r5", "settle"}
           /\ Reality \notin DOMAIN tree
           /\ Early(tree) /\ Early(head)
           /\ cmd # "idle" => was.status \notin Late

\* The closed plan and the finished consolidation record.
Closed(s) ==
    /\ Plan \in DOMAIN s /\ Terminal(s[Plan])
    /\ Consolidation \in DOMAIN s /\ s[Consolidation].ready

\* What settle has put into HEAD while it runs.
SettleClaims ==
    /\ cmd = "r4" => Terminal(tree[Plan])
    /\ cmd = "settle" =>
           /\ Closed(tree)
           /\ \A f \in {Plan, Consolidation} \ todo : f \in DOMAIN head /\ head[f] = tree[f]
    /\ Closing =>
           /\ Plan \in todo => cmd \in {"r4", "r4-draft", "settle"}
           /\ Consolidation \in todo => cmd = "settle"
           /\ Cycle \in todo \/ tree[Cycle].status = Target

\* HEAD is settled over a closed plan unless main is settled already.
SettledHead == SettledBy(head) /\ ~ SettledBy(main) => Closed(head)

SettleInv ==
    /\ PlanForward /\ PassForward /\ MintsLive
    /\ ReleaseInv /\ SettleClaims /\ SettledHead

\* A push that settles main finds it closed.
SettlesClosed == SettledBy(main') /\ ~ SettledBy(main) => Closed(main')

LEMMA StageFacts ==
    /\ Stage["none"] = 0 /\ Stage["blocked"] = 1 /\ Stage["proposed"] = 2
    /\ Stage["closed"] = 3 /\ Stage["reopened"] = 4 /\ Stage["refused"] = 5
    /\ Stage["verified"] = 6 /\ Stage["minted"] = 7 /\ Stage["dropped"] = 8
    /\ \A s \in EntryStates :
           /\ Stage[s] \in Nat /\ Stage[s] <= 8
           /\ s # "dropped" => Stage[s] <= 7
    /\ \A s, t \in EntryStates : Stage[s] = Stage[t] => s = t
<1>1. /\ Stage["none"] = 0 /\ Stage["blocked"] = 1 /\ Stage["proposed"] = 2
      /\ Stage["closed"] = 3 /\ Stage["reopened"] = 4 /\ Stage["refused"] = 5
      /\ Stage["verified"] = 6 /\ Stage["minted"] = 7 /\ Stage["dropped"] = 8
  BY DEF Stage, EntryStates
<1>2. QED
  BY <1>1 DEF EntryStates

\* Being earlier is an order.
LEMMA NotAfterSame ==
    ASSUME NEW p \in PlanRecord
    PROVE  NotAfter(p, p)
<1>1. \A e \in Entries : p.state[e] \in EntryStates
  BY DEF PlanRecord
<1>2. QED
  BY <1>1, StageFacts DEF NotAfter

LEMMA NotAfterTrans ==
    ASSUME NEW p \in PlanRecord, NEW q \in PlanRecord, NEW r \in PlanRecord,
           NotAfter(p, q), NotAfter(q, r)
    PROVE  NotAfter(p, r)
<1>1. p.run \in Nat /\ q.run \in Nat /\ r.run \in Nat
  BY DEF PlanRecord
<1>2. CASE p.run < q.run \/ q.run < r.run
  BY <1>1, <1>2 DEF NotAfter
<1>3. CASE p.run = q.run /\ q.run = r.run
  <2>1. \A e \in Entries :
            /\ Stage[p.state[e]] \in Nat /\ Stage[q.state[e]] \in Nat
            /\ Stage[r.state[e]] \in Nat
    BY StageFacts DEF PlanRecord
  <2>2. /\ p.digest = q.digest /\ q.digest = r.digest
        /\ p.debated \subseteq q.debated /\ q.debated \subseteq r.debated
        /\ p.waived \subseteq q.waived /\ q.waived \subseteq r.waived
    BY <1>1, <1>3 DEF NotAfter
  <2>3. ASSUME p.debated = r.debated, p.waived = r.waived, NEW e \in Entries
        PROVE  Stage[p.state[e]] <= Stage[r.state[e]]
    <3>1. p.debated = q.debated /\ q.debated = r.debated /\ p.waived = q.waived
              /\ q.waived = r.waived
      BY <2>2, <2>3
    <3>2. Stage[p.state[e]] <= Stage[q.state[e]] /\ Stage[q.state[e]] <= Stage[r.state[e]]
      BY <1>1, <1>3, <3>1 DEF NotAfter
    <3>3. QED
      BY <2>1, <3>2
  <2>4. QED
    BY <1>3, <2>2, <2>3 DEF NotAfter
<1>4. QED
  BY <1>1, <1>2, <1>3 DEF NotAfter

LEMMA NotAfterBoth ==
    ASSUME NEW p \in PlanRecord, NEW q \in PlanRecord, NotAfter(p, q), NotAfter(q, p)
    PROVE  p = q
<1>1. p.run \in Nat /\ q.run \in Nat
  BY DEF PlanRecord
<1>2. /\ p.run = q.run /\ p.digest = q.digest
      /\ p.debated = q.debated /\ p.waived = q.waived
  <2>1. /\ p.run = q.run /\ p.digest = q.digest
        /\ p.debated \subseteq q.debated /\ q.debated \subseteq p.debated
        /\ p.waived \subseteq q.waived /\ q.waived \subseteq p.waived
    BY <1>1 DEF NotAfter
  <2>2. QED
    BY <2>1
<1>3. ASSUME NEW e \in Entries
      PROVE  p.state[e] = q.state[e]
  <2>1. p.state[e] \in EntryStates /\ q.state[e] \in EntryStates
    BY DEF PlanRecord
  <2>2. Stage[p.state[e]] <= Stage[q.state[e]] /\ Stage[q.state[e]] <= Stage[p.state[e]]
    BY <1>1, <1>2 DEF NotAfter
  <2>3. QED
    BY <2>1, <2>2, StageFacts
<1>4. p.state = q.state
  BY <1>3 DEF PlanRecord
<1>5. QED
  BY <1>2, <1>4 DEF PlanRecord

\* Moving entries forward makes a later plan.
LEMMA MovesForward ==
    ASSUME NEW plan \in PlanRecord, NEW S, NEW state \in EntryStates,
           \A e \in Entries : e \in S => Stage[plan.state[e]] <= Stage[state]
    PROVE  NotAfter(plan, WithState(plan, S, state))
<1>1. /\ WithState(plan, S, state).run = plan.run
      /\ WithState(plan, S, state).digest = plan.digest
      /\ WithState(plan, S, state).debated = plan.debated
      /\ WithState(plan, S, state).waived = plan.waived
      /\ \A e \in Entries :
             WithState(plan, S, state).state[e] = IF e \in S THEN state ELSE plan.state[e]
  BY DEF WithState, PlanRecord
<1>2. \A e \in Entries : plan.state[e] \in EntryStates /\ Stage[plan.state[e]] \in Nat
  BY StageFacts DEF PlanRecord
<1>3. \A e \in Entries : Stage[plan.state[e]] <= Stage[WithState(plan, S, state).state[e]]
  BY <1>1, <1>2
<1>4. QED
  BY <1>1, <1>3 DEF NotAfter

\* A plan written by a command that lands nothing.
LEMMA PlanWritten ==
    ASSUME TypeInv, PlanForward, NEW new \in PlanRecord,
           Plan \in DOMAIN tree', tree'[Plan] = new,
           Plan \in DOMAIN tree => NotAfter(tree[Plan], new),
           UNCHANGED git
    PROVE  PlanForward'
<1>1. \A c \in history[Plan] : c \in PlanRecord
  BY Known, Contents DEF TypeInv, TypeOK
<1>2. ASSUME NEW c \in history[Plan]
      PROVE  NotAfter(c, new) /\ (c = new => Plan \in DOMAIN head /\ head[Plan] = c)
  <2>1. Plan \in DOMAIN tree /\ tree[Plan] \in PlanRecord /\ NotAfter(c, tree[Plan])
    BY <1>2, TreeTypes DEF PlanForward, TypeInv
  <2>2. NotAfter(c, new)
    BY <1>1, <2>1, NotAfterTrans
  <2>3. c = new => c = tree[Plan]
    BY <1>1, <2>1, NotAfterBoth
  <2>4. QED
    BY <2>2, <2>3 DEF PlanForward, Current
<1>3. QED
  BY <1>2 DEF PlanForward, Current

\* Whatever leaves the plan and the record of the tree alone.
LEMMA ForwardKept ==
    ASSUME PlanForward, PassForward, UNCHANGED git,
           \A f \in {Plan, Consolidation} :
               f \in DOMAIN tree => f \in DOMAIN tree' /\ tree'[f] = tree[f]
    PROVE  PlanForward' /\ PassForward'
BY DEF PlanForward, PassForward, Current

\* What landing a text does to HEAD, to main and to history.
LEMMA LandOutcome ==
    ASSUME TypeInv, NEW f \in Files, NEW c, NEW result, Land(f, c, result)
    PROVE  /\ \/ UNCHANGED <<head, history>>
              \/ /\ head' = Put(head, f, c)
                 /\ history'[f] = history[f] \cup {c}
                 /\ \A g \in Files : g # f => history'[g] = history[g]
           /\ main' = main \/ main' = head'
           /\ result = "landed" => c \in history'[f]
<1>1. history = [g \in Files |-> history[g]]
  BY DEF TypeInv, TypeOK
<1>2. QED
  BY <1>1 DEF Land

LEMMA ForwardLands ==
    ASSUME TypeInv, PlanForward, PassForward, NEW f \in Files, NEW c, NEW result,
           Land(f, c, result),
           f \in {Plan, Consolidation} => f \in DOMAIN tree /\ c = tree[f],
           \A g \in {Plan, Consolidation} :
               g \in DOMAIN tree => g \in DOMAIN tree' /\ tree'[g] = tree[g]
    PROVE  PlanForward' /\ PassForward'
<1>1. CASE UNCHANGED <<head, history>>
  BY <1>1 DEF PlanForward, PassForward, Current
<1>2. CASE /\ head' = Put(head, f, c)
           /\ history'[f] = history[f] \cup {c}
           /\ \A g \in Files : g # f => history'[g] = history[g]
  <2>1. /\ DOMAIN head' = DOMAIN head \cup {f} /\ head'[f] = c
        /\ \A g \in DOMAIN head : g # f => head'[g] = head[g]
    BY <1>2 DEF Put
  <2>2. PlanForward'
    <3>1. CASE f = Plan
      <4>1. NotAfter(c, tree[Plan])
        BY <3>1, TreeTypes, NotAfterSame DEF TypeInv
      <4>2. QED
        BY <1>2, <2>1, <3>1, <4>1 DEF PlanForward, Current
    <3>2. CASE f # Plan
      <4>1. history'[Plan] = history[Plan]
        BY <1>2, <3>2, Known
      <4>2. QED
        BY <2>1, <3>2, <4>1 DEF PlanForward, Current
    <3>3. QED
      BY <3>1, <3>2
  <2>3. PassForward'
    <3>1. CASE f = Consolidation
      BY <1>2, <2>1, <3>1 DEF PassForward, Current
    <3>2. CASE f # Consolidation
      <4>1. history'[Consolidation] = history[Consolidation]
        BY <1>2, <3>2, Known
      <4>2. QED
        BY <2>1, <3>2, <4>1 DEF PassForward, Current
    <3>3. QED
      BY <3>1, <3>2
  <2>4. QED
    BY <2>2, <2>3
<1>3. QED
  BY <1>1, <1>2, LandOutcome

\* A landing keeps a settled HEAD closed, and main with it.
LEMMA SettledLands ==
    ASSUME TypeInv, SettledHead, NEW f \in Files, NEW c, NEW result, Land(f, c, result),
           f = Plan => Terminal(c) \/ ~ SettledBy(head),
           f = Consolidation => c.ready,
           f = Cycle /\ c.status = "settled" => Closed(head)
    PROVE  SettledHead' /\ SettlesClosed
<1>1. main' = main \/ main' = head'
  BY LandOutcome
<1>2. SettledBy(head') /\ ~ SettledBy(main) => Closed(head')
  <2>1. CASE head' = head
    BY <2>1 DEF SettledHead
  <2>2. CASE head' = Put(head, f, c)
    <3>1. /\ DOMAIN head' = DOMAIN head \cup {f} /\ head'[f] = c
          /\ \A g \in DOMAIN head : g # f => head'[g] = head[g]
      BY <2>2 DEF Put
    <3>2. CASE f = Cycle
      BY <3>1, <3>2, Names DEF SettledBy, Closed
    <3>3. CASE f # Cycle
      <4>1. SettledBy(head') => SettledBy(head)
        BY <3>1, <3>3 DEF SettledBy
      <4>2. SettledBy(head) /\ ~ SettledBy(main) => Closed(head)
        BY DEF SettledHead
      <4>3. SettledBy(head) /\ Closed(head) => Closed(head')
        BY <3>1, <3>3, Names DEF Closed
      <4>4. QED
        BY <4>1, <4>2, <4>3
    <3>4. QED
      BY <3>2, <3>3
  <2>3. QED
    BY <2>1, <2>2, LandOutcome
<1>3. QED
  BY <1>1, <1>2 DEF SettledHead, SettlesClosed

\* A developer's command that starts and lands nothing.
LEMMA IdleSettles ==
    ASSUME TypeInv, SettleInv, Idle, UNCHANGED <<git, released, job>>,
           PlanForward', PassForward',
           ~ released => Reality \notin DOMAIN tree' /\ Early(tree')
    PROVE  SettleInv'
<1>1. cmd = "idle" /\ cmd' = "idle" /\ head' = head /\ main' = main
  BY DEF Idle
<1>2. MintsLive' /\ SettleClaims'
  BY <1>1 DEF MintsLive, SettleClaims, Closing, Finalizers
<1>3. ReleaseInv'
  BY <1>1 DEF SettleInv, ReleaseInv, Early
<1>4. SettledHead'
  BY <1>1 DEF SettleInv, SettledHead
<1>5. QED
  BY <1>2, <1>3, <1>4 DEF SettleInv

\* A command that returns.
LEMMA ReturnSettles ==
    ASSUME Return, UNCHANGED released, PlanForward', PassForward', SettledHead',
           ~ released => Reality \notin DOMAIN tree' /\ Early(tree') /\ Early(head')
    PROVE  SettleInv'
<1>1. cmd' = "idle"
  BY DEF Return
<1>2. MintsLive' /\ SettleClaims'
  BY <1>1 DEF MintsLive, SettleClaims, Closing, Finalizers
<1>3. ReleaseInv'
  BY <1>1 DEF ReleaseInv
<1>4. QED
  BY <1>2, <1>3 DEF SettleInv

\* The developer's commands on the cycle, the survey and the checks.
LEMMA RecordSettles ==
    ASSUME TypeInv, SettleInv,
           new_cycle \/ sign_off \/ SurveyRun \/ Dispose \/ Amend \/ Answer \/ open_r6
    PROVE  SettleInv'
<1> USE Names
<1>0. Idle /\ UNCHANGED <<git, released, job>> /\ PlanForward /\ PassForward
  BY DEF new_cycle, sign_off, SurveyRun, Dispose, Amend, Answer, open_r6, SettleInv
<1>1. ~ released => Reality \notin DOMAIN tree /\ Early(tree)
  BY DEF SettleInv, ReleaseInv
<1>2. CASE new_cycle
  <2>1. tree' = Put(tree, Cycle, Blank) /\ Blank.status \notin Late
    BY <1>2 DEF new_cycle, Write, Blank, Late
  <2>2. \A f \in {Plan, Consolidation} :
            f \in DOMAIN tree => f \in DOMAIN tree' /\ tree'[f] = tree[f]
    BY <2>1 DEF Put
  <2>3. ~ released => Reality \notin DOMAIN tree' /\ Early(tree')
    BY <1>1, <2>1 DEF Put, Early
  <2>4. QED
    BY <1>0, <2>2, <2>3, ForwardKept, IdleSettles
<1>3. CASE sign_off
  <2> DEFINE signed == [tree[Cycle] EXCEPT !.status = "signed-off", !.signed = tree[Themes]]
  <2>1. tree[Cycle] \in CycleRecord
    BY <1>3, TreeTypes DEF sign_off, Exists, TypeInv
  <2>2. tree' = Put(tree, Cycle, signed) /\ signed.status \notin Late
    BY <1>3, <2>1 DEF sign_off, Write, CycleRecord, Late
  <2> HIDE DEF signed
  <2>3. \A f \in {Plan, Consolidation} :
            f \in DOMAIN tree => f \in DOMAIN tree' /\ tree'[f] = tree[f]
    BY <2>2 DEF Put
  <2>4. ~ released => Reality \notin DOMAIN tree' /\ Early(tree')
    BY <1>1, <2>2 DEF Put, Early
  <2>5. QED
    BY <1>0, <2>3, <2>4, ForwardKept, IdleSettles
<1>4. CASE SurveyRun \/ Dispose \/ Amend
  <2>1. \A f \in {Plan, Consolidation, Cycle} :
            f \in DOMAIN tree => f \in DOMAIN tree' /\ tree'[f] = tree[f]
    BY <1>4 DEF SurveyRun, Dispose, Amend, Write, Put
  <2>2. /\ Reality \in DOMAIN tree' => Reality \in DOMAIN tree
        /\ Cycle \in DOMAIN tree' => Cycle \in DOMAIN tree
    BY <1>4 DEF SurveyRun, Dispose, Amend, Write, Put
  <2>3. ~ released => Reality \notin DOMAIN tree' /\ Early(tree')
    BY <1>1, <2>1, <2>2 DEF Early
  <2>4. QED
    BY <1>0, <2>1, <2>3, ForwardKept, IdleSettles
<1>5. CASE Answer
  <2>1. released
    BY <1>1, <1>5 DEF Answer, Exists, TypeInv, TypeOK
  <2>2. \A f \in {Plan, Consolidation} :
            f \in DOMAIN tree => f \in DOMAIN tree' /\ tree'[f] = tree[f]
    BY <1>5 DEF Answer, Write, Put
  <2>3. QED
    BY <1>0, <2>1, <2>2, ForwardKept, IdleSettles
<1>6. CASE open_r6
  <2>1. released
    BY <1>1, <1>6 DEF open_r6, require_sign_off, Exists, Early, Late
  <2>2. Consolidation \notin DOMAIN tree
    BY <1>6 DEF open_r6, Exists
  <2>3. Plan \in DOMAIN tree => Plan \in DOMAIN tree' /\ tree'[Plan] = tree[Plan]
    BY <1>6 DEF open_r6, Write, Put
  <2>4. PlanForward' /\ PassForward'
    BY <1>0, <2>2, <2>3 DEF PlanForward, PassForward, Current
  <2>5. QED
    BY <1>0, <2>1, <2>4, IdleSettles
<1>7. QED
  BY <1>2, <1>3, <1>4, <1>5, <1>6

\* A command that writes the plan and leaves the record and the cycle.
LEMMA PlanStep ==
    ASSUME TypeInv, SettleInv, Idle, UNCHANGED <<git, released, job>>,
           NEW new \in PlanRecord, Plan \in DOMAIN tree', tree'[Plan] = new,
           Plan \in DOMAIN tree => NotAfter(tree[Plan], new),
           \A f \in {Consolidation, Cycle} :
               f \in DOMAIN tree => f \in DOMAIN tree' /\ tree'[f] = tree[f],
           \A f \in {Cycle, Reality} : f \in DOMAIN tree' => f \in DOMAIN tree
    PROVE  SettleInv'
<1>1. PlanForward'
  BY PlanWritten DEF SettleInv
<1>2. PassForward'
  BY DEF SettleInv, PassForward, Current
<1>3. ~ released => Reality \notin DOMAIN tree' /\ Early(tree')
  BY DEF SettleInv, ReleaseInv, Early
<1>4. QED
  BY <1>1, <1>2, <1>3, IdleSettles

\* The developer's commands on the plan, but the cross-theme pass.
LEMMA PlanSettles ==
    ASSUME TypeInv, SettleInv,
           \/ Atomize \/ DraftEdges \/ Verify
           \/ \E e \in Entries : RunDebate(e) \/ Waive(e) \/ Drop(e)
    PROVE  SettleInv'
<1> USE Names
<1>0. Idle /\ UNCHANGED <<git, released, job>> /\ TypeOK
  BY DEF Atomize, DraftEdges, Verify, RunDebate, Waive, Drop, TypeInv
<1>1. ASSUME NEW new \in PlanRecord,
             tree' = Put(tree, Plan, new)
                 \/ \E e \in Entries : \E c : tree' = Put(Put(tree, Debate(e), c), Plan, new),
             Plan \in DOMAIN tree => NotAfter(tree[Plan], new)
      PROVE  SettleInv'
  <2>1. /\ Plan \in DOMAIN tree' /\ tree'[Plan] = new
        /\ \A g \in {Consolidation, Cycle} :
               g \in DOMAIN tree => g \in DOMAIN tree' /\ tree'[g] = tree[g]
        /\ \A g \in {Cycle, Reality} : g \in DOMAIN tree' => g \in DOMAIN tree
    BY <1>1 DEF Put
  <2>2. QED
    BY <1>0, <1>1, <2>1, PlanStep
<1>2. CASE Atomize
  <2>1. tree[Cycle].signed \in Digests /\ NextRun(Plan) \in Nat
    BY <1>0, <1>2, TreeTypes DEF Atomize, require_sign_off, NextRun, PlanRecord
  <2>2. PICK state \in [Entries -> {"none", "blocked", "proposed"}] :
            Write(Plan, [digest |-> tree[Cycle].signed, run |-> NextRun(Plan),
                         state |-> state, debated |-> {}, waived |-> {}])
    BY <1>2 DEF Atomize
  <2> DEFINE new == [digest |-> tree[Cycle].signed, run |-> NextRun(Plan),
                     state |-> state, debated |-> {}, waived |-> {}]
  <2>3. state \in [Entries -> EntryStates]
    BY DEF EntryStates
  <2>4. new \in PlanRecord /\ new.run = NextRun(Plan)
    BY <2>1, <2>3 DEF PlanRecord
  <2>5. tree' = Put(tree, Plan, new)
    BY <2>2 DEF Write
  <2> HIDE DEF new
  <2>6. Plan \in DOMAIN tree => tree[Plan].run \in Nat /\ new.run = tree[Plan].run + 1
    BY <1>0, <2>4, TreeTypes DEF NextRun, PlanRecord
  <2>7. Plan \in DOMAIN tree => NotAfter(tree[Plan], new)
    BY <2>6 DEF NotAfter
  <2>8. QED
    BY <1>1, <2>4, <2>5, <2>7
<1>3. CASE DraftEdges
  <2>1. tree[Plan] \in PlanRecord
    BY <1>0, <1>3, TreeTypes DEF DraftEdges, Exists
  <2>2. PICK S \in SUBSET (Entries \ Live(tree[Plan])) :
            tree' = Put(tree, Plan, WithState(tree[Plan], S, "proposed"))
    BY <1>3 DEF DraftEdges, Write
  <2>3. \A e \in Entries : e \in S => Stage[tree[Plan].state[e]] <= Stage["proposed"]
    BY StageFacts DEF Live
  <2>4. "proposed" \in EntryStates
    BY DEF EntryStates
  <2>5. QED
    BY <1>1, <2>1, <2>2, <2>3, <2>4, MovesForward, WithStateType
<1>4. CASE Verify
  <2>1. tree[Plan] \in PlanRecord
    BY <1>0, <1>4, TreeTypes DEF Verify, Exists
  <2>2. PICK ok \in SUBSET Ready(tree[Plan]) :
            tree' = Put(tree, Plan, WithState(WithState(tree[Plan], ok, "verified"),
                                              Ready(tree[Plan]) \ ok, "refused"))
    BY <1>4 DEF Verify, Write
  <2> DEFINE mid == WithState(tree[Plan], ok, "verified")
             failed == Ready(tree[Plan]) \ ok
  <2>3. "verified" \in EntryStates /\ "refused" \in EntryStates
    BY DEF EntryStates
  <2>4. \A e \in Entries : e \in Ready(tree[Plan]) => Stage[tree[Plan].state[e]] <= 5
    BY StageFacts DEF Ready
  <2>5. \A e \in Entries : e \in ok => Stage[tree[Plan].state[e]] <= Stage["verified"]
    BY <2>1, <2>4, StageFacts DEF PlanRecord
  <2>6. mid \in PlanRecord /\ NotAfter(tree[Plan], mid)
    BY <2>1, <2>3, <2>5, MovesForward, WithStateType
  <2>7. \A e \in Entries : e \in failed => mid.state[e] = tree[Plan].state[e]
    BY <2>1 DEF WithState, PlanRecord
  <2>8. \A e \in Entries : e \in failed => Stage[mid.state[e]] <= Stage["refused"]
    BY <2>4, <2>7, StageFacts
  <2> HIDE DEF mid, failed
  <2>9. /\ WithState(mid, failed, "refused") \in PlanRecord
        /\ NotAfter(mid, WithState(mid, failed, "refused"))
    BY <2>3, <2>6, <2>8, MovesForward, WithStateType
  <2>10. NotAfter(tree[Plan], WithState(mid, failed, "refused"))
    BY <2>1, <2>6, <2>9, NotAfterTrans
  <2>11. tree' = Put(tree, Plan, WithState(mid, failed, "refused"))
    BY <2>2 DEF mid, failed
  <2>12. QED
    BY <1>1, <2>9, <2>10, <2>11
<1>5. ASSUME NEW e \in Entries, RunDebate(e)
      PROVE  SettleInv'
  <2>1. tree[Plan] \in PlanRecord
    BY <1>0, <1>5, TreeTypes DEF RunDebate, Exists
  <2> DEFINE state == tree[Plan].state[e]
             open == IF state = "proposed" THEN {"proposed"} ELSE {}
  <2>2. PICK to \in {Reopened(state), "dropped"} \cup open :
            tree' = Put(Put(tree, Debate(e), TRUE), Plan,
                        [WithState(tree[Plan], {e}, to) EXCEPT !.debated = @ \cup {e}])
    BY <1>5, Zenon DEF RunDebate
  <2>3. to \in EntryStates
    <3>1. state \in EntryStates
      BY <2>1 DEF PlanRecord
    <3>2. Reopened(state) \in EntryStates
      BY <3>1 DEF Reopened, EntryStates
    <3>3. QED
      BY <3>2 DEF EntryStates
  <2> DEFINE moved == WithState(tree[Plan], {e}, to)
             new == [moved EXCEPT !.debated = @ \cup {e}]
  <2>4. moved \in PlanRecord
    BY <2>1, <2>3, WithStateType
  <2>5. /\ moved.run = tree[Plan].run /\ moved.digest = tree[Plan].digest
        /\ moved.debated = tree[Plan].debated /\ moved.waived = tree[Plan].waived
    BY <2>1 DEF WithState, PlanRecord
  <2>6. e \notin tree[Plan].debated
    BY <1>5 DEF RunDebate, Debatable
  <2>7. tree' = Put(Put(tree, Debate(e), TRUE), Plan, new)
    BY <2>2
  <2> HIDE DEF moved
  <2>8. /\ new \in PlanRecord /\ new.run = moved.run /\ new.digest = moved.digest
        /\ new.debated = moved.debated \cup {e} /\ new.waived = moved.waived
    BY <2>4 DEF PlanRecord
  <2> HIDE DEF new
  <2>9. NotAfter(tree[Plan], new)
    BY <2>5, <2>6, <2>8 DEF NotAfter
  <2>10. QED
    BY <1>1, <2>7, <2>8, <2>9
<1>6. ASSUME NEW e \in Entries, Waive(e)
      PROVE  SettleInv'
  <2>1. tree[Plan] \in PlanRecord
    BY <1>0, <1>6, TreeTypes DEF Waive, Exists
  <2> DEFINE to == Reopened(tree[Plan].state[e])
             moved == WithState(tree[Plan], {e}, to)
             new == [moved EXCEPT !.waived = @ \cup {e}]
  <2>2. tree' = Put(tree, Plan, new) /\ e \notin tree[Plan].waived
    BY <1>6 DEF Waive, Write
  <2>3. to \in EntryStates
    <3>1. tree[Plan].state[e] \in EntryStates
      BY <2>1 DEF PlanRecord
    <3>2. QED
      BY <3>1 DEF Reopened, EntryStates
  <2> HIDE DEF to
  <2>4. moved \in PlanRecord
    BY <2>1, <2>3, WithStateType
  <2>5. /\ moved.run = tree[Plan].run /\ moved.digest = tree[Plan].digest
        /\ moved.debated = tree[Plan].debated /\ moved.waived = tree[Plan].waived
    BY <2>1 DEF WithState, PlanRecord
  <2> HIDE DEF moved
  <2>6. /\ new \in PlanRecord /\ new.run = moved.run /\ new.digest = moved.digest
        /\ new.debated = moved.debated /\ new.waived = moved.waived \cup {e}
    BY <2>4 DEF PlanRecord
  <2> HIDE DEF new
  <2>7. NotAfter(tree[Plan], new)
    BY <2>2, <2>5, <2>6 DEF NotAfter
  <2>8. QED
    BY <1>1, <2>2, <2>6, <2>7
<1>7. ASSUME NEW e \in Entries, Drop(e)
      PROVE  SettleInv'
  <2>1. tree[Plan] \in PlanRecord
    BY <1>0, <1>7, TreeTypes DEF Drop, Exists
  <2>2. tree' = Put(tree, Plan, WithState(tree[Plan], {e}, "dropped"))
    BY <1>7 DEF Drop, Write
  <2>3. "dropped" \in EntryStates
    BY DEF EntryStates
  <2>4. \A x \in Entries : x \in {e} => Stage[tree[Plan].state[x]] <= Stage["dropped"]
    BY <2>1, StageFacts DEF PlanRecord
  <2>5. QED
    BY <1>1, <2>1, <2>2, <2>3, <2>4, MovesForward, WithStateType
<1>8. QED
  BY <1>2, <1>3, <1>4, <1>5, <1>6, <1>7

\* `consolidate edges`: entries for the plan, and the record says the pass ran.
LEMMA PassSettles ==
    ASSUME TypeInv, SettleInv, CrossThemeEdges
    PROVE  SettleInv'
<1> USE Names
<1>0. Idle /\ UNCHANGED <<git, released, job>> /\ PlanForward /\ PassForward /\ TypeOK
  BY DEF CrossThemeEdges, SettleInv, TypeInv
<1>1. tree[Plan] \in PlanRecord /\ tree[Consolidation] \in CheckRecord
          /\ Consolidation \in DOMAIN tree
  BY <1>0, TreeTypes DEF CrossThemeEdges, Exists
<1>2. PICK S \in SUBSET (Entries \ Live(tree[Plan])) :
          LET on == Put(tree, Plan, WithState(tree[Plan], S, "proposed"))
              record == [tree[Consolidation] EXCEPT !.run = @ + 1, !.ready = TRUE]
          IN  tree' = Put(on, Consolidation, record) \/ tree' = on
  BY Zenon DEF CrossThemeEdges
<1> DEFINE plan == WithState(tree[Plan], S, "proposed")
           record == [tree[Consolidation] EXCEPT !.run = @ + 1, !.ready = TRUE]
           on == Put(tree, Plan, plan)
<1>3. plan \in PlanRecord /\ NotAfter(tree[Plan], plan)
  <2>1. \A e \in Entries : e \in S => Stage[tree[Plan].state[e]] <= Stage["proposed"]
    BY StageFacts DEF Live
  <2>2. "proposed" \in EntryStates
    BY DEF EntryStates
  <2>3. QED
    BY <1>1, <2>1, <2>2, MovesForward, WithStateType
<1>4. record.run = tree[Consolidation].run + 1 /\ tree[Consolidation].run \in Nat
  BY <1>1 DEF CheckRecord
<1>5. tree' = Put(on, Consolidation, record) \/ tree' = on
  BY <1>2
<1> HIDE DEF plan, record
<1>6. /\ Plan \in DOMAIN tree' /\ tree'[Plan] = plan
      /\ Consolidation \in DOMAIN tree' /\ tree'[Consolidation] \in {record, tree[Consolidation]}
      /\ Cycle \in DOMAIN tree => Cycle \in DOMAIN tree' /\ tree'[Cycle] = tree[Cycle]
      /\ \A f \in {Cycle, Reality} : f \in DOMAIN tree' => f \in DOMAIN tree
  BY <1>1, <1>5 DEF Put
<1>7. PlanForward'
  BY <1>0, <1>3, <1>6, PlanWritten
<1>8. PassForward'
  <2>1. \A c \in history[Consolidation] : c \in CheckRecord
    BY <1>0, Known, Contents DEF TypeOK
  <2>2. ASSUME NEW c \in history[Consolidation]
        PROVE  /\ c = tree'[Consolidation] \/ c.run < tree'[Consolidation].run
               /\ c = tree'[Consolidation] => Consolidation \in DOMAIN head
                                                  /\ head[Consolidation] = c
    <3>1. c.run \in Nat /\ (c = tree[Consolidation] \/ c.run < tree[Consolidation].run)
      BY <1>0, <2>1 DEF PassForward, CheckRecord
    <3>2. CASE tree'[Consolidation] = tree[Consolidation]
      BY <1>0, <3>1, <3>2 DEF PassForward, Current
    <3>3. CASE tree'[Consolidation] = record
      <4>1. c.run < record.run
        BY <1>4, <3>1
      <4>2. c # record
        BY <3>1, <4>1
      <4>3. QED
        BY <3>3, <4>1, <4>2
    <3>4. QED
      BY <1>6, <3>2, <3>3
  <2>3. QED
    BY <1>0, <1>6, <2>2 DEF PassForward, Current
<1>9. ~ released => Reality \notin DOMAIN tree' /\ Early(tree')
  BY <1>6 DEF SettleInv, ReleaseInv, Early
<1>10. QED
  BY <1>0, <1>7, <1>8, <1>9, IdleSettles

\* The commands that land, when they start.
LEMMA StartsSettle ==
    ASSUME TypeInv, SettleInv,
           \/ StartMint \/ finalize_r3 \/ finalize_r4 \/ finalize_r4_draft
           \/ open_r5 \/ finalize_r5 \/ settle
    PROVE  SettleInv'
<1> USE Names
<1>0. /\ UNCHANGED <<tree, git, released>> /\ was' = tree[Cycle] /\ landed' = {}
      /\ Cycle \in DOMAIN tree
  BY DEF StartMint, finalize_r3, finalize_r4, finalize_r4_draft, open_r5, finalize_r5, settle,
         Start, require_sign_off, Exists
<1>1. PlanForward' /\ PassForward' /\ SettledHead'
  BY <1>0, ForwardKept DEF SettleInv, SettledHead
<1>2. ~ released => /\ Reality \notin DOMAIN tree /\ Early(tree) /\ Early(head)
                    /\ tree[Cycle].status \notin Late
  BY <1>0 DEF SettleInv, ReleaseInv, Early
<1>3. CASE StartMint
  <2>1. released /\ cmd' = "mint" /\ todo' = {Node(e) : e \in Mintable(tree[Plan])}
    BY <1>3 DEF StartMint, Start
  <2>2. \A e \in Entries : Node(e) \in todo' => tree[Plan].state[e] # "dropped"
    BY <2>1 DEF Mintable, Node
  <2>3. MintsLive'
    BY <1>0, <2>2 DEF MintsLive
  <2>4. ReleaseInv' /\ SettleClaims'
    BY <1>0, <2>1 DEF ReleaseInv, SettleClaims, Closing, Finalizers
  <2>5. QED
    BY <1>1, <2>3, <2>4 DEF SettleInv
<1>4. CASE open_r5
  <2>1. released /\ cmd' = "compile"
    BY <1>2, <1>4 DEF open_r5, Start, Late
  <2>2. MintsLive' /\ ReleaseInv' /\ SettleClaims'
    BY <1>0, <2>1 DEF MintsLive, ReleaseInv, SettleClaims, Closing, Finalizers
  <2>3. QED
    BY <1>1, <2>2 DEF SettleInv
<1>5. CASE finalize_r3
  <2>1. cmd' = "r3" /\ todo' = {Survey, Cycle}
    BY <1>5 DEF finalize_r3, Start
  <2>2. MintsLive' /\ SettleClaims'
    BY <2>1 DEF MintsLive, SettleClaims
  <2>3. ReleaseInv'
    BY <1>0, <1>2, <2>1 DEF ReleaseInv
  <2>4. QED
    BY <1>1, <2>2, <2>3 DEF SettleInv
<1>6. CASE finalize_r4 \/ finalize_r4_draft
  <2>1. /\ cmd' \in {"r4", "r4-draft"} /\ todo' = PlanFiles \cup {Cycle}
        /\ cmd' = "r4" => released /\ Terminal(tree[Plan])
        /\ cmd' = "r4-draft" => ~ released
    BY <1>6 DEF finalize_r4, finalize_r4_draft, Start, PlanCloses
  <2>2. Consolidation \notin todo'
    <3>1. Plan \in DOMAIN tree
      BY <1>6 DEF finalize_r4, finalize_r4_draft, PlanCloses, PlanDrafted, Exists
    <3>2. tree[Plan].debated \subseteq Entries
      BY <3>1, TreeTypes DEF TypeInv, PlanRecord
    <3>3. QED
      BY <2>1, <3>2 DEF PlanFiles
  <2>3. MintsLive' /\ SettleClaims'
    BY <1>0, <2>1, <2>2 DEF MintsLive, SettleClaims
  <2>4. ReleaseInv'
    BY <1>0, <1>2, <2>1 DEF ReleaseInv
  <2>5. QED
    BY <1>1, <2>3, <2>4 DEF SettleInv
<1>7. CASE finalize_r5
  <2>1. cmd' = "r5" /\ todo' = {Reality, Cycle} /\ released
    BY <1>2, <1>7 DEF finalize_r5, Start, Exists, TypeInv, TypeOK
  <2>2. MintsLive' /\ SettleClaims' /\ ReleaseInv'
    BY <1>0, <2>1 DEF MintsLive, SettleClaims, ReleaseInv
  <2>3. QED
    BY <1>1, <2>2 DEF SettleInv
<1>8. CASE settle
  <2>1. /\ cmd' = "settle" /\ todo' = {Plan, Consolidation, Cycle} /\ released
        /\ Closed(tree)
    BY <1>2, <1>8 DEF settle, Start, Exists, PlanCloses, Closed, Late
  <2>2. MintsLive' /\ SettleClaims' /\ ReleaseInv'
    BY <1>0, <2>1 DEF MintsLive, SettleClaims, ReleaseInv
  <2>3. QED
    BY <1>1, <2>2 DEF SettleInv
<1>9. QED
  BY <1>3, <1>4, <1>5, <1>6, <1>7, <1>8

\* The steps of a mint.
LEMMA MintSettles ==
    ASSUME TypeInv, SettleInv, EndMint \/ \E e \in Entries : MintItem(e)
    PROVE  SettleInv' /\ SettlesClosed
<1> USE Names
<1>0. TypeOK /\ cmd = "mint" /\ Plan \in DOMAIN tree /\ tree[Plan] \in PlanRecord /\ released
  BY TreeTypes DEF EndMint, MintItem, TypeInv, TypeOK, SettleInv, ReleaseInv
<1>1. CASE EndMint
  <2> DEFINE new == WithState(tree[Plan], landed, "minted")
  <2>1. tree' = Put(tree, Plan, new) /\ Return /\ UNCHANGED <<git, released>>
    BY <1>1 DEF EndMint, Write
  <2>2. \A e \in Entries : e \in landed => Stage[tree[Plan].state[e]] <= Stage["minted"]
    BY <1>0, StageFacts DEF SettleInv, MintsLive, PlanRecord
  <2>3. new \in PlanRecord /\ NotAfter(tree[Plan], new)
    <3>1. "minted" \in EntryStates
      BY DEF EntryStates
    <3>2. QED
      BY <1>0, <2>2, <3>1, MovesForward, WithStateType
  <2> HIDE DEF new
  <2>4. /\ Plan \in DOMAIN tree' /\ tree'[Plan] = new
        /\ Consolidation \in DOMAIN tree =>
               Consolidation \in DOMAIN tree' /\ tree'[Consolidation] = tree[Consolidation]
    BY <2>1 DEF Put
  <2>5. PlanForward'
    BY <2>1, <2>3, <2>4, PlanWritten DEF SettleInv
  <2>6. PassForward'
    BY <2>1, <2>4 DEF SettleInv, PassForward, Current
  <2>7. SettledHead' /\ SettlesClosed
    BY <2>1 DEF SettleInv, SettledHead, SettlesClosed
  <2>8. QED
    BY <1>0, <2>1, <2>5, <2>6, <2>7, ReturnSettles
<1>2. ASSUME NEW e \in Entries, MintItem(e)
      PROVE  SettleInv' /\ SettlesClosed
  <2> DEFINE on == Put(tree, Node(e), NextMint(e))
             minted == [was EXCEPT !.minted = @ \cup {e}]
  <2>1. PICK result \in Results, contended \in BOOLEAN :
            /\ Land(Node(e), NextMint(e), result)
            /\ tree' = IF result = "landed" \/ contended THEN Put(on, Cycle, minted) ELSE on
            /\ IF result \in {"raised", "killed"}
               THEN Return
               ELSE /\ todo' = todo \ {Node(e)}
                    /\ landed' = IF result = "landed" \/ contended
                                 THEN landed \cup {e} ELSE landed
                    /\ UNCHANGED cmd
    BY <1>2, Zenon DEF MintItem
  <2>2. Node(e) \in todo /\ UNCHANGED released /\ Node(e) \in Files
    BY <1>2, Known DEF MintItem
  <2> HIDE DEF minted
  <2>3. \A f \in {Plan, Consolidation} :
            f \in DOMAIN tree => f \in DOMAIN tree' /\ tree'[f] = tree[f]
    BY <2>1 DEF Put
  <2>4. PlanForward' /\ PassForward'
    BY <2>1, <2>2, <2>3, ForwardLands DEF SettleInv
  <2>5. SettledHead' /\ SettlesClosed
    BY <2>1, <2>2, SettledLands DEF SettleInv
  <2>6. CASE Return
    BY <1>0, <2>2, <2>4, <2>5, <2>6, ReturnSettles
  <2>7. CASE /\ todo' = todo \ {Node(e)}
             /\ landed' \in {landed, landed \cup {e}}
             /\ UNCHANGED cmd
    <3>1. MintsLive'
      BY <1>0, <2>2, <2>3, <2>7 DEF SettleInv, MintsLive
    <3>2. ReleaseInv' /\ SettleClaims'
      BY <1>0, <2>2, <2>7 DEF ReleaseInv, SettleClaims, Closing, Finalizers
    <3>3. QED
      BY <2>4, <2>5, <3>1, <3>2 DEF SettleInv
  <2>8. QED
    BY <2>1, <2>6, <2>7
<1>3. QED
  BY <1>1, <1>2

\* The landings of the questionnaire and of the files of a finalizer or of settle.
LEMMA FileSettles ==
    ASSUME TypeInv, SettleInv, LandSpec \/ LandFile
    PROVE  SettleInv' /\ SettlesClosed
<1> USE Names
<1>1. CASE LandSpec
  <2> DEFINE spec == {e \in Entries : Exists(Node(e))}
             put == Put(tree, Questionnaire, spec)
             on == IF spec \in history[Questionnaire] THEN tree ELSE put
             check == [digest |-> was.signed, ready |-> FALSE, run |-> NextRun(Reality)]
  <2>1. PICK result \in Results :
            /\ Land(Questionnaire, spec, result)
            /\ tree' = IF result = "landed" THEN Put(on, Reality, check) ELSE on
    BY <1>1, Zenon DEF LandSpec
  <2> HIDE DEF check, spec
  <2>2. Return /\ UNCHANGED released /\ released /\ Questionnaire \in Files
    BY <1>1, Known DEF LandSpec, SettleInv, ReleaseInv, TypeInv, TypeOK
  <2>3. \A f \in {Plan, Consolidation} :
            f \in DOMAIN tree => f \in DOMAIN tree' /\ tree'[f] = tree[f]
    BY <2>1 DEF Put
  <2>4. PlanForward' /\ PassForward'
    BY <2>1, <2>2, <2>3, ForwardLands DEF SettleInv
  <2>5. SettledHead' /\ SettlesClosed
    BY <2>1, <2>2, SettledLands DEF SettleInv
  <2>6. QED
    BY <2>2, <2>4, <2>5, ReturnSettles
<1>2. CASE LandFile
  <2>1. PICK f \in todo \ {Cycle}, result \in Results :
            /\ Land(f, tree[f], result)
            /\ \/ result = "landed" /\ todo' = todo \ {f} /\ UNCHANGED <<cmd, landed, was>>
               \/ Return
    BY <1>2, Zenon DEF LandFile
  <2>2. f \in DOMAIN tree /\ f \in Files /\ UNCHANGED <<tree, released>> /\ Closing
    BY <1>2 DEF LandFile, TypeInv, TypeOK
  <2>3. PlanForward' /\ PassForward'
    BY <2>1, <2>2, ForwardLands DEF SettleInv
  <2>4. f = Plan => Terminal(tree[f]) \/ ~ SettledBy(head)
    BY <2>1, <2>2 DEF SettleInv, SettleClaims, ReleaseInv, Closed, Early, SettledBy, Late
  <2>5. f = Consolidation => tree[f].ready
    BY <2>1, <2>2 DEF SettleInv, SettleClaims, Closed
  <2>6. SettledHead' /\ SettlesClosed
    BY <2>1, <2>2, <2>4, <2>5, SettledLands DEF SettleInv
  <2>7. Early(head) => Early(head')
    <3>1. head' = head \/ head' = Put(head, f, tree[f])
      BY <2>1, <2>2, LandOutcome
    <3>2. QED
      BY <2>1, <3>1 DEF Early, Put
  <2>8. CASE Return
    BY <2>2, <2>3, <2>6, <2>7, <2>8, ReturnSettles DEF SettleInv, ReleaseInv
  <2>9. CASE result = "landed" /\ todo' = todo \ {f} /\ UNCHANGED <<cmd, landed, was>>
    <3>1. f \in {Plan, Consolidation} => f \in DOMAIN head' /\ head'[f] = tree'[f]
      <4>1. tree[f] \in history'[f]
        BY <2>1, <2>2, <2>9, LandOutcome
      <4>2. QED
        BY <2>2, <2>3, <4>1 DEF PlanForward, PassForward, Current
    <3>2. \A g \in {Plan, Consolidation} \ {f} :
              g \in DOMAIN head => g \in DOMAIN head' /\ head'[g] = head[g]
      <4>1. head' = head \/ head' = Put(head, f, tree[f])
        BY <2>1, <2>2, LandOutcome
      <4>2. QED
        BY <4>1 DEF Put
    <3>3. MintsLive'
      BY <2>2, <2>9 DEF MintsLive, Closing, Finalizers
    <3>4. ReleaseInv'
      BY <2>2, <2>7, <2>9 DEF SettleInv, ReleaseInv
    <3>5. cmd = "settle" =>
              \A g \in {Plan, Consolidation} \ todo' : g \in DOMAIN head' /\ head'[g] = tree'[g]
      BY <2>2, <2>9, <3>1, <3>2 DEF SettleInv, SettleClaims
    <3>6. SettleClaims'
      <4>1. Target' = Target /\ (Cycle \in todo => Cycle \in todo')
        BY <2>9 DEF Target
      <4>2. QED
        BY <2>2, <2>9, <3>5, <4>1 DEF SettleInv, SettleClaims, Closed, Closing
    <3>7. QED
      BY <2>3, <2>6, <3>3, <3>4, <3>6 DEF SettleInv
  <2>10. QED
    BY <2>1, <2>8, <2>9
<1>3. QED
  BY <1>1, <1>2

\* The cycle advances, and lands or is put back as it was loaded.
LEMMA CycleSettles ==
    ASSUME TypeInv, SettleInv, SaveCycle \/ LandCycle
    PROVE  SettleInv' /\ SettlesClosed
<1> USE Names
<1>0. /\ Closing /\ cmd # "idle" /\ Cycle \in DOMAIN tree /\ was \in CycleRecord
      /\ Cycle \in Files
  BY Known DEF SaveCycle, LandCycle, Closing, Finalizers, TypeInv, TypeOK
<1>1. /\ Target = "settled" => cmd = "settle"
      /\ ~ released => Target \notin Late
  BY <1>0 DEF Closing, Finalizers, Target, SettleInv, ReleaseInv, Late
<1>2. CASE SaveCycle
  <2> DEFINE saved == Advanced(was, Target, Artifacts)
  <2>1. \/ Write(Cycle, saved) /\ todo' = {} /\ UNCHANGED <<cmd, landed, was>>
        \/ Return /\ UNCHANGED tree
    BY <1>2 DEF SaveCycle
  <2>2. todo = {Cycle} /\ UNCHANGED <<git, released>>
    BY <1>2 DEF SaveCycle
  <2>3. SettledHead' /\ SettlesClosed
    BY <2>2 DEF SettleInv, SettledHead, SettlesClosed
  <2>4. CASE Return /\ UNCHANGED tree
    <3>1. PlanForward' /\ PassForward'
      BY <2>2, <2>4, ForwardKept DEF SettleInv
    <3>2. QED
      BY <2>2, <2>3, <2>4, <3>1, ReturnSettles DEF SettleInv, ReleaseInv
  <2>5. CASE Write(Cycle, saved) /\ todo' = {} /\ UNCHANGED <<cmd, landed, was>>
    <3>1. saved.status = Target
      BY <1>0 DEF Advanced, CycleRecord
    <3> HIDE DEF saved
    <3>2. /\ Cycle \in DOMAIN tree' /\ tree'[Cycle] = saved
          /\ \A f \in DOMAIN tree : f # Cycle => f \in DOMAIN tree' /\ tree'[f] = tree[f]
          /\ DOMAIN tree' = DOMAIN tree
      BY <1>0, <2>5 DEF Write, Put
    <3>3. PlanForward' /\ PassForward'
      BY <2>2, <3>2, ForwardKept DEF SettleInv
    <3>4. MintsLive'
      BY <1>0, <2>5 DEF MintsLive, Closing, Finalizers
    <3>5. ReleaseInv'
      BY <1>1, <2>2, <2>5, <3>1, <3>2 DEF SettleInv, ReleaseInv, Early
    <3>6. SettleClaims'
      <4>1. Target' = Target
        BY <2>5 DEF Target
      <4>2. cmd \in {"r4", "settle"} => Plan \in DOMAIN tree
        BY DEF TypeInv
      <4>3. QED
        BY <1>0, <2>2, <2>5, <3>1, <3>2, <4>1, <4>2
        DEF SettleInv, SettleClaims, Closed
    <3>7. QED
      BY <2>3, <3>3, <3>4, <3>5, <3>6 DEF SettleInv
  <2>6. QED
    BY <2>1, <2>4, <2>5
<1>3. CASE LandCycle
  <2>1. PICK result \in Results :
            /\ Land(Cycle, tree[Cycle], result)
            /\ tree' \in {Put(tree, Cycle, was), tree}
    BY <1>3, Zenon DEF LandCycle
  <2>2. Return /\ UNCHANGED released /\ todo = {}
    BY <1>3 DEF LandCycle
  <2>3. tree[Cycle].status = Target
    BY <1>0, <2>2 DEF SettleInv, SettleClaims
  <2>4. \A f \in {Plan, Consolidation, Reality} :
            /\ f \in DOMAIN tree => f \in DOMAIN tree' /\ tree'[f] = tree[f]
            /\ f \in DOMAIN tree' => f \in DOMAIN tree
    BY <2>1 DEF Put
  <2>5. PlanForward' /\ PassForward'
    BY <1>0, <2>1, <2>4, ForwardLands DEF SettleInv
  <2>6. tree[Cycle].status = "settled" => Closed(head)
    <3>1. cmd = "settle" => /\ Closed(tree)
                            /\ \A f \in {Plan, Consolidation} :
                                   f \in DOMAIN head /\ head[f] = tree[f]
      BY <2>2 DEF SettleInv, SettleClaims
    <3>2. cmd = "settle" => Closed(head)
      BY <3>1 DEF Closed
    <3>3. QED
      BY <1>1, <2>3, <3>2
  <2>7. SettledHead' /\ SettlesClosed
    BY <1>0, <2>1, <2>6, SettledLands DEF SettleInv
  <2>8. ~ released => Reality \notin DOMAIN tree' /\ Early(tree') /\ Early(head')
    <3>1. ~ released => /\ Reality \notin DOMAIN tree /\ was.status \notin Late
                        /\ tree[Cycle].status \notin Late /\ Early(head)
      BY <1>0, <1>1, <2>3 DEF SettleInv, ReleaseInv
    <3>2. ~ released => Early(tree')
      BY <2>1, <3>1 DEF Early, Put
    <3>3. head' = head \/ head' = Put(head, Cycle, tree[Cycle])
      BY <1>0, <2>1, LandOutcome
    <3>4. ~ released => Early(head')
      BY <3>1, <3>3 DEF Early, Put
    <3>5. QED
      BY <2>4, <3>1, <3>2, <3>4
  <2>9. QED
    BY <2>2, <2>5, <2>7, <2>8, ReturnSettles
<1>4. QED
  BY <1>2, <1>3

LEMMA InitSettles == Init => SettleInv
<1> SUFFICES ASSUME Init
             PROVE  SettleInv
  OBVIOUS
<1>1. DOMAIN tree = {Themes} /\ head = tree /\ main = tree /\ cmd = "idle"
      /\ history[Plan] = {} /\ history[Consolidation] = {}
  BY Known DEF Init
<1>2. PlanForward /\ PassForward /\ MintsLive
  BY <1>1 DEF PlanForward, PassForward, MintsLive
<1>3. ReleaseInv /\ SettleClaims /\ SettledHead
  BY <1>1, Names
  DEF ReleaseInv, Early, SettleClaims, SettledHead, SettledBy, Closing, Finalizers
<1>4. QED
  BY <1>2, <1>3 DEF SettleInv

\* Every step keeps the invariant, and a command that settles main finds it closed.
LEMMA SettleStep ==
    ASSUME TypeInv, SettleInv, [Next]_vars
    PROVE  SettleInv' /\ (~ Idle => SettlesClosed)
<1>1. CASE Release
  <2>1. Idle /\ UNCHANGED <<tree, git, job>> /\ released' = TRUE
    BY <1>1 DEF Release
  <2>2. PlanForward' /\ PassForward' /\ SettledHead'
    BY <2>1, ForwardKept DEF SettleInv, SettledHead
  <2>3. MintsLive' /\ SettleClaims' /\ ReleaseInv'
    BY <2>1 DEF Idle, MintsLive, SettleClaims, ReleaseInv, Closing, Finalizers
  <2>4. QED
    BY <2>1, <2>2, <2>3 DEF SettleInv
<1>2. CASE Kill
  <2>1. Return /\ UNCHANGED <<tree, git, released>>
    BY <1>2 DEF Kill
  <2>2. PlanForward' /\ PassForward' /\ SettledHead' /\ SettlesClosed
    BY <2>1, ForwardKept DEF SettleInv, SettledHead, SettlesClosed
  <2>3. QED
    BY <2>1, <2>2, ReturnSettles DEF SettleInv, ReleaseInv
<1>3. CASE HandCommit
  <2>1. /\ Idle /\ head' = tree /\ main' = tree
        /\ UNCHANGED <<tree, history, released, job>>
    BY <1>3 DEF HandCommit
  <2>2. PlanForward' /\ PassForward'
    BY <2>1 DEF SettleInv, PlanForward, PassForward, Current
  <2>3. SettledHead'
    BY <2>1 DEF SettledHead
  <2>4. MintsLive' /\ SettleClaims' /\ ReleaseInv'
    BY <2>1 DEF SettleInv, Idle, MintsLive, SettleClaims, ReleaseInv, Closing, Finalizers
  <2>5. QED
    BY <2>1, <2>2, <2>3, <2>4 DEF SettleInv
<1>4. CASE UNCHANGED vars
  <2>1. UNCHANGED <<tree, head, main, history, released, cmd, todo, landed, was>>
    BY <1>4 DEF vars
  <2>2. PlanForward' /\ PassForward' /\ SettledHead' /\ SettlesClosed
    BY <2>1, ForwardKept DEF SettleInv, SettledHead, SettlesClosed
  <2>3. MintsLive' /\ SettleClaims' /\ ReleaseInv'
    BY <2>1 DEF SettleInv, MintsLive, SettleClaims, ReleaseInv, Closing, Target
  <2>4. QED
    BY <2>2, <2>3 DEF SettleInv
<1>5. CASE \/ new_cycle \/ sign_off \/ SurveyRun \/ Dispose \/ Amend \/ Answer \/ open_r6
           \/ Atomize \/ DraftEdges \/ Verify \/ CrossThemeEdges
           \/ \E e \in Entries : RunDebate(e) \/ Waive(e) \/ Drop(e)
  <2>1. Idle
    BY <1>5
    DEF new_cycle, sign_off, SurveyRun, Dispose, Amend, Answer, open_r6, Atomize, DraftEdges,
        Verify, CrossThemeEdges, RunDebate, Waive, Drop
  <2>2. SettleInv'
    BY <1>5, RecordSettles, PlanSettles, PassSettles
  <2>3. QED
    BY <2>1, <2>2
<1>6. CASE StartMint \/ finalize_r3 \/ finalize_r4 \/ finalize_r4_draft
               \/ open_r5 \/ finalize_r5 \/ settle
  <2>1. Idle
    BY <1>6
    DEF StartMint, finalize_r3, finalize_r4, finalize_r4_draft, open_r5, finalize_r5, settle,
        Start
  <2>2. QED
    BY <1>6, <2>1, StartsSettle
<1>7. CASE \/ EndMint \/ LandSpec \/ LandFile \/ SaveCycle \/ LandCycle
           \/ \E e \in Entries : MintItem(e)
  BY <1>7, MintSettles, FileSettles, CycleSettles
<1>8. QED
  BY <1>1, <1>2, <1>3, <1>4, <1>5, <1>6, <1>7 DEF Next

\* For any entries, digests and bounds, whatever is killed, refused or committed by hand:
\* the landing that puts a settled cycle on origin/main finds the closed plan and the
\* finished consolidation record there (settle, lifecycle.py).
THEOREM SettledIsLast == Spec => SettlesLast
<1>1. Init => TypeInv /\ SettleInv
  BY InitTypes, InitSettles
<1>2. TypeInv /\ SettleInv /\ [Next]_vars => (TypeInv /\ SettleInv)'
  BY TypeStep, SettleStep
<1>3. TypeInv /\ SettleInv /\ [Next]_vars =>
          [ ~ Idle /\ SettledBy(main') /\ ~ SettledBy(main) =>
                /\ Terminal(main'[Plan])
                /\ Consolidation \in DOMAIN main' /\ main'[Consolidation].ready ]_vars
  BY SettleStep DEF SettlesClosed, Closed
<1>4. QED
  BY <1>1, <1>2, <1>3, PTL DEF Spec, SettlesLast

=============================================================================
