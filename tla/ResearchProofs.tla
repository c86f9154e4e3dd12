--------------------------- MODULE ResearchProofs ---------------------------
(***************************************************************************)
(* Proofs about Carving and RealityCheck, whose commands work for hours on *)
(* a file that others may replace meanwhile: what a carve plan and a       *)
(* reality check can be relied on for, for any theme, carves, answers,     *)
(* terminals and consoles.                                                 *)
(***************************************************************************)
EXTENDS Carving, RealityCheck, FiniteSetTheorems, SequenceTheorems, WellFoundedInduction, TLAPS

-----------------------------------------------------------------------------
(* The reality check.                                                        *)

RealitySpec == RealityInit /\ [][RealityNext]_realityVars

-----------------------------------------------------------------------------
(* Records. *)

IsRecord(r) == r = [scope |-> r.scope, cells |-> r.cells, runs |-> r.runs, log |-> r.log,
                    found |-> r.found]
OneSession(r) ==
    /\ \A c \in DOMAIN r.cells : c[1] \in DOMAIN r.runs /\ r.cells[c].session = r.runs[c[1]]
    /\ \A l \in DOMAIN r.runs : {c \in DOMAIN r.cells : c[1] = l} = {l} \X instantiate(r.scope, l)

\* A record as every command reads and leaves it: its cells are answers of its sessions.
Whole(r) ==
    /\ IsRecord(r) /\ r.scope \subseteq Scope
    /\ \A c \in DOMAIN r.cells : c \in Languages \X Scope /\ r.cells[c] \in Cell
    /\ OneSession(r)

\* A group is asked about only as far as the check's features go (spec.py).
LEMMA SelectedMembers ==
    ASSUME NEW scope \in SUBSET Scope, NEW g \in select(scope)
    PROVE  g.members \subseteq scope
<1>1. PICK h \in Groups : g = [h EXCEPT !.members = @ \cap scope]
  BY DEF select
<1>2. g.members = h.members \cap scope
  BY <1>1, GroupsAssumption
<1>3. QED
  BY <1>2

LEMMA AskedInScope ==
    ASSUME NEW scope \in SUBSET Scope, NEW l
    PROVE  instantiate(scope, l) \subseteq scope
BY SelectedMembers DEF instantiate

\* Every finding rests on cells whose answer is settled, so it is found again when the
\* others are (findings.py:5).
LEMMA FindingsAreMonotone ==
    ASSUME NEW r, Whole(r), NEW no \in SUBSET Unknown(r)
    PROVE  compute_findings(r) \subseteq compute_findings(Settled(r, no))
<1> DEFINE k == Settled(r, no)
<1>1. /\ k.scope = r.scope /\ DOMAIN k.cells = DOMAIN r.cells
      /\ \A c \in DOMAIN r.cells \ Unknown(r) : k.cells[c] = r.cells[c]
  BY DEF Settled, Whole, IsRecord
<1>2. \A c \in DOMAIN r.cells : c \in Unknown(r) \/ k.cells[c] = r.cells[c]
  BY <1>1
<1> HIDE DEF k
<1>3. Asked(k) = Asked(r)
  BY <1>1 DEF Asked
<1>4. \A c : _settled_no(r, c) => _settled_no(k, c)
  BY <1>1, <1>2 DEF _settled_no, Unknown
<1>5. \A c : _present(r, c) => _present(k, c)
  BY <1>1, <1>2 DEF _present, Unknown
<1>6. ASSUME NEW g \in select(r.scope)
      PROVE  /\ uninhabited(r, g) \subseteq uninhabited(k, g)
             /\ unfittable(r, g) \subseteq unfittable(k, g)
             /\ violations(r, g) \subseteq violations(k, g)
  <2>1. uninhabited(r, g) \subseteq uninhabited(k, g)
    BY <1>1, <1>3, <1>4 DEF uninhabited
  <2>2. unfittable(r, g) \subseteq unfittable(k, g)
    BY <1>3, <1>4 DEF unfittable
  <2>3. ASSUME NEW l \in Asked(r), g.exclusive,
               Cardinality({m \in g.members : _present(r, <<l, m>>)}) > 1
        PROVE  Cardinality({m \in g.members : _present(k, <<l, m>>)}) > 1
    <3> DEFINE S == {m \in g.members : _present(r, <<l, m>>)}
               T == {m \in g.members : _present(k, <<l, m>>)}
    <3>1. S \subseteq T
      BY <1>5
    <3>2. g.members \subseteq Scope
      BY <1>6, SelectedMembers DEF Whole
    <3>3. IsFiniteSet(T)
      BY <3>2, ScopeAssumption, FS_Subset
    <3> HIDE DEF S, T
    <3>4. Cardinality(S) \in Nat /\ Cardinality(T) \in Nat /\ Cardinality(S) <= Cardinality(T)
      BY <3>1, <3>3, FS_Subset, FS_CardinalityType
    <3>5. Cardinality(S) > 1
      BY <2>3 DEF S
    <3>6. Cardinality(T) > 1
      BY <3>4, <3>5
    <3>7. QED
      BY <3>6 DEF T
  <2>4. violations(r, g) \subseteq violations(k, g)
    BY <1>3, <2>3 DEF violations
  <2>5. QED
    BY <2>1, <2>2, <2>4
<1>7. {<<"unmappable", c>> : c \in {d \in DOMAIN r.cells : r.cells[d].status = "unmappable"}}
      \subseteq {<<"unmappable", c>> : c \in {d \in DOMAIN k.cells : k.cells[d].status = "unmappable"}}
  <2>1. \A d \in DOMAIN r.cells : r.cells[d].status = "unmappable" => k.cells[d] = r.cells[d]
    BY <1>2 DEF Unknown
  <2>2. QED
    BY <1>1, <2>1
<1>8. compute_findings(r) \subseteq compute_findings(k)
  <2> DEFINE OfGroup(x, g) == uninhabited(x, g) \cup unfittable(x, g) \cup violations(x, g)
             Groups5 == {h \in select(r.scope) : h.dimension}
             Misfits(x) == {<<"unmappable", c>> : c \in {d \in DOMAIN x.cells : x.cells[d].status = "unmappable"}}
  <2>1. \A g \in Groups5 : OfGroup(r, g) \subseteq OfGroup(k, g)
    BY <1>6
  <2>2. Misfits(r) \subseteq Misfits(k)
    BY <1>7
  <2>3. compute_findings(r) = UNION {OfGroup(r, g) : g \in Groups5} \cup Misfits(r)
    BY DEF compute_findings
  <2>4. compute_findings(k) = UNION {OfGroup(k, g) : g \in Groups5} \cup Misfits(k)
    BY <1>1 DEF compute_findings
  <2> HIDE DEF OfGroup, Groups5, Misfits
  <2>5. UNION {OfGroup(r, g) : g \in Groups5} \subseteq UNION {OfGroup(k, g) : g \in Groups5}
    BY <2>1
  <2>6. QED
    BY <2>2, <2>3, <2>4, <2>5
<1>9. QED
  BY <1>8 DEF k

-----------------------------------------------------------------------------
(* What the commands write. *)

LEMMA EmptyRecord ==
    ASSUME existing \subseteq Scope
    PROVE  Whole(build_record)
BY DEF build_record, Whole, IsRecord, OneSession

\* The shakedown log and the findings of a record are not its cells.
LEMMA SameCells ==
    ASSUME NEW r, Whole(r), NEW s, IsRecord(s),
           s.scope = r.scope, s.cells = r.cells, s.runs = r.runs
    PROVE  Whole(s)
BY DEF Whole, OneSession

LEMMA ClosedRecord ==
    ASSUME NEW r, Whole(r), NEW key
    PROVE  Whole(close_shakedown(r, key))
<1>1. /\ IsRecord(close_shakedown(r, key)) /\ close_shakedown(r, key).scope = r.scope
      /\ close_shakedown(r, key).cells = r.cells /\ close_shakedown(r, key).runs = r.runs
  BY DEF close_shakedown, Whole, IsRecord
<1>2. QED
  BY <1>1, SameCells

LEMMA FoundRecord ==
    ASSUME NEW r, Whole(r), NEW found
    PROVE  Whole([r EXCEPT !.found = found])
<1> DEFINE s == [r EXCEPT !.found = found]
<1>1. IsRecord(s) /\ s.scope = r.scope /\ s.cells = r.cells /\ s.runs = r.runs
  BY DEF Whole, IsRecord
<1>2. QED
  BY <1>1, SameCells

LEMMA LoggedRecord ==
    ASSUME NEW r, Whole(r), NEW keys
    PROVE  Whole(add_shakedown(r, keys))
<1>1. /\ IsRecord(add_shakedown(r, keys)) /\ add_shakedown(r, keys).scope = r.scope
      /\ add_shakedown(r, keys).cells = r.cells /\ add_shakedown(r, keys).runs = r.runs
  BY DEF add_shakedown, Whole, IsRecord
<1>2. QED
  BY <1>1, SameCells

\* The cells of a session replace all that the language had (record.py:134), which is why
\* they can be told from those of an earlier one.
LEMMA ReplacedRecord ==
    ASSUME NEW r, Whole(r), NEW language \in Languages, NEW cells, NEW run \in 1 .. MaxSessions,
           DOMAIN cells = {language} \X instantiate(r.scope, language),
           cells = [c \in DOMAIN cells |-> cells[c]],
           \A c \in DOMAIN cells : cells[c] \in Cell /\ cells[c].session = run
    PROVE  Whole(replace_language(r, language, cells, run))
<1> DEFINE s == replace_language(r, language, cells, run)
           kept == {c \in DOMAIN r.cells : c[1] # language}
           merged == [c \in kept \cup DOMAIN cells |-> IF c \in kept THEN r.cells[c] ELSE cells[c]]
           named == [l \in DOMAIN r.runs \cup {language} |->
                        IF l = language THEN run ELSE r.runs[l]]
<1>1. s = [r EXCEPT !.cells = merged, !.runs = named]
  BY DEF replace_language, Whole, IsRecord
<1>2. /\ IsRecord(s) /\ s.scope = r.scope
      /\ s.cells = merged /\ s.runs = named
  BY <1>1 DEF Whole, IsRecord
<1>3. \A c \in kept : c[1] # language
  OBVIOUS
<1> HIDE DEF s
<1>4. /\ DOMAIN s.cells = DOMAIN cells \cup kept
      /\ \A c \in kept : s.cells[c] = r.cells[c]
      /\ \A c \in DOMAIN cells : c \notin kept => s.cells[c] = cells[c]
  BY <1>2
<1>5. /\ DOMAIN s.runs = {language} \cup DOMAIN r.runs /\ s.runs[language] = run
      /\ \A l \in DOMAIN r.runs : l # language => s.runs[l] = r.runs[l]
  BY <1>2
<1>6. \A c \in DOMAIN cells : c[1] = language /\ c \in Languages \X Scope
  BY AskedInScope DEF Whole
<1>7. \A c \in DOMAIN s.cells :
          \/ c \in DOMAIN cells /\ c[1] = language /\ s.cells[c] = cells[c]
          \/ c \in kept /\ c[1] # language /\ s.cells[c] = r.cells[c]
  BY <1>4, <1>6
<1>8. \A c \in DOMAIN s.cells : c \in Languages \X Scope /\ s.cells[c] \in Cell
  BY <1>6, <1>7 DEF Whole
<1>9. \A c \in DOMAIN s.cells : c[1] \in DOMAIN s.runs /\ s.cells[c].session = s.runs[c[1]]
  BY <1>5, <1>7 DEF Whole, OneSession
<1>10. ASSUME NEW l \in DOMAIN s.runs
       PROVE  {c \in DOMAIN s.cells : c[1] = l} = {l} \X instantiate(s.scope, l)
  <2>1. CASE l = language
    <3>1. {c \in DOMAIN s.cells : c[1] = l} = DOMAIN cells
      BY <1>4, <1>6, <1>7, <2>1
    <3>2. QED
      BY <1>1, <2>1, <3>1
  <2>2. CASE l # language
    <3>1. {c \in DOMAIN s.cells : c[1] = l} = {c \in DOMAIN r.cells : c[1] = l}
      BY <1>4, <1>6, <2>2
    <3>2. QED
      BY <1>1, <1>5, <2>2, <3>1 DEF Whole, OneSession
  <2>3. QED
    BY <2>1, <2>2
<1>11. Whole(s)
  BY <1>2, <1>8, <1>9, <1>10 DEF Whole, OneSession
<1>12. QED
  BY <1>11 DEF s

LEMMA ClassifiedRecord ==
    ASSUME NEW r, Whole(r), NEW language \in Languages, NEW sheet \in AnswerSheets,
           NEW session \in 1 .. MaxSessions
    PROVE  Whole(Classified(r, language, sheet, session))
<1> DEFINE asked == instantiate(r.scope, language)
           cells == [c \in {language} \X asked |-> _bind_cell(sheet[c[2]], session)]
           logged == {<<"classifier", language, f>> : f \in {h \in asked : sheet[h] = "unsourced"}}
<1>1. asked \subseteq Scope
  BY AskedInScope DEF Whole
<1>2. ASSUME NEW c \in {language} \X asked
      PROVE  cells[c] \in Cell /\ cells[c].session = session
  <2>1. sheet[c[2]] \in Readings5
    BY <1>1, SheetsAssumption
  <2>2. _bind_cell(sheet[c[2]], session) \in Cell /\ _bind_cell(sheet[c[2]], session).session = session
    BY <2>1 DEF Readings5, _bind_cell, Cell, CELL_STATUSES
  <2>3. QED
    BY <2>2
<1>3. DOMAIN cells = {language} \X asked /\ cells = [c \in DOMAIN cells |-> cells[c]]
  OBVIOUS
<1>4. Classified(r, language, sheet, session) =
          add_shakedown(replace_language(r, language, cells, session), logged)
  BY DEF Classified
<1> HIDE DEF cells, logged
<1>5. Whole(replace_language(r, language, cells, session))
  BY <1>2, <1>3, ReplacedRecord
<1>6. QED
  BY <1>4, <1>5, LoggedRecord

\* A verdict changes a cell's status and nothing else.
LEMMA VerifiedRecord ==
    ASSUME NEW r, Whole(r), NEW passed
    PROVE  Whole(verify_cells(r, passed))
<1> DEFINE gone == {c \in Awaiting(r) : c[2] \notin existing}
           verdict(c) == IF c \in passed \ gone THEN "admitted" ELSE "refused"
           s == [r EXCEPT !.cells = [c \in DOMAIN @ |->
                    IF c \in Awaiting(r) THEN [@[c] EXCEPT !.status = verdict(c)] ELSE @[c]]]
           logged == {<<"questionnaire", c[1], c[2]>> : c \in gone}
<1>1. verify_cells(r, passed) = add_shakedown(s, logged)
  BY DEF verify_cells
<1>2. IsRecord(s) /\ s.scope = r.scope /\ s.runs = r.runs
  BY DEF Whole, IsRecord
<1>3. s.cells = [c \in DOMAIN r.cells |->
          IF c \in Awaiting(r) THEN [r.cells[c] EXCEPT !.status = verdict(c)] ELSE r.cells[c]]
  BY DEF Whole, IsRecord
<1> HIDE DEF s
<1>4. DOMAIN s.cells = DOMAIN r.cells
  BY <1>3
<1>5. \A c \in DOMAIN r.cells : s.cells[c] \in Cell /\ s.cells[c].session = r.cells[c].session
  BY <1>3 DEF Whole, Cell, CELL_STATUSES
<1>6. Whole(s)
  BY <1>2, <1>4, <1>5 DEF Whole, OneSession
<1>7. QED
  BY <1>1, <1>6, LoggedRecord

-----------------------------------------------------------------------------
(* The commands. *)

\* What a console works on is a record some command has saved, however old.
Working(s) ==
    \/ s = AtPrompt
    \/ \E held : /\ Whole(held)
                 /\ \/ s = [doing |-> "verify", held |-> held]
                    \/ \E left \in SUBSET Languages :
                          s = [doing |-> "classify", held |-> held, left |-> left]

RealityInv ==
    /\ check # NoCheck => Whole(check)
    /\ settled # NoCheck => Whole(settled) /\ stage # "open"
    /\ stage \in {"open", "tracked", "done"}
    /\ existing \subseteq Scope /\ sessions \in Nat
    /\ console = [p \in Consoles |-> console[p]] /\ \A p \in Consoles : Working(console[p])

LEMMA RealityStarts == RealityInit => RealityInv
BY DEF RealityInit, RealityInv, Working

LEMMA RealitySteps == RealityInv /\ [RealityNext]_realityVars => RealityInv'
<1> SUFFICES ASSUME RealityInv, [RealityNext]_realityVars PROVE RealityInv'
  OBVIOUS
<1>1. ASSUME NEW p \in Consoles, NEW state, Give(p, state), Working(state)
      PROVE  /\ console' = [q \in Consoles |-> console'[q]]
             /\ \A q \in Consoles : Working(console'[q])
  BY <1>1 DEF RealityInv, Give
<1>2. ASSUME NEW p \in Consoles, NEW restart \in BOOLEAN, Compile(p, restart)
      PROVE  RealityInv'
  <2>1. check' = build_record /\ UNCHANGED <<settled, stage, existing, console, sessions>>
    BY <1>2 DEF Compile
  <2>2. Whole(build_record)
    BY EmptyRecord DEF RealityInv
  <2>3. QED
    BY <2>1, <2>2 DEF RealityInv
<1>3. ASSUME NEW p \in Consoles, NEW languages \in SUBSET Languages, StartClassify(p, languages)
      PROVE  RealityInv'
  <2>1. /\ check # NoCheck /\ Give(p, [doing |-> "classify", held |-> check, left |-> languages])
        /\ UNCHANGED <<check, settled, stage, existing, sessions>>
    BY <1>3 DEF StartClassify, files
  <2>2. Working([doing |-> "classify", held |-> check, left |-> languages])
    BY <2>1 DEF RealityInv, Working
  <2>3. QED
    BY <1>1, <2>1, <2>2 DEF RealityInv
<1>4. ASSUME NEW p \in Consoles, NEW language \in Languages, NEW sheet \in AnswerSheets,
             Classify(p, language, sheet)
      PROVE  RealityInv'
  <2> DEFINE r == Classified(console[p].held, language, sheet, sessions + 1)
             left == console[p].left \ {language}
  <2>1. PICK held : Whole(held) /\ \E rest \in SUBSET Languages :
                       console[p] = [doing |-> "classify", held |-> held, left |-> rest]
    <3>1. console[p].doing = "classify" /\ Working(console[p])
      BY <1>4 DEF RealityInv, Classify
    <3>2. console[p] # AtPrompt
      BY <3>1 DEF AtPrompt
    <3>3. PICK held : /\ Whole(held)
                      /\ \/ console[p] = [doing |-> "verify", held |-> held]
                         \/ \E rest \in SUBSET Languages :
                               console[p] = [doing |-> "classify", held |-> held, left |-> rest]
      BY <3>1, <3>2 DEF Working
    <3>4. console[p] # [doing |-> "verify", held |-> held]
      BY <3>1
    <3>5. QED
      BY <3>3, <3>4
  <2>2. /\ sessions < MaxSessions /\ sessions' = sessions + 1 /\ check' = r
        /\ Give(p, IF left = {} THEN AtPrompt ELSE [doing |-> "classify", held |-> r, left |-> left])
        /\ UNCHANGED <<settled, stage, existing>>
    BY <1>4 DEF Classify
  <2>3. sessions + 1 \in 1 .. MaxSessions
    BY <2>2, SessionsAssumption DEF RealityInv
  <2>4. Whole(r)
    BY <2>1, <2>3, ClassifiedRecord
  <2> HIDE DEF r
  <2>5. left \in SUBSET Languages
    BY <2>1
  <2>6. Working(IF left = {} THEN AtPrompt ELSE [doing |-> "classify", held |-> r, left |-> left])
    BY <2>4, <2>5 DEF Working
  <2>7. QED
    BY <1>1, <2>2, <2>3, <2>4, <2>6 DEF RealityInv
<1>5. ASSUME NEW p \in Consoles, StartVerify(p)
      PROVE  RealityInv'
  <2>1. /\ check # NoCheck /\ Give(p, [doing |-> "verify", held |-> check])
        /\ UNCHANGED <<check, settled, stage, existing, sessions>>
    BY <1>5 DEF StartVerify, files
  <2>2. Working([doing |-> "verify", held |-> check])
    BY <2>1 DEF RealityInv, Working
  <2>3. QED
    BY <1>1, <2>1, <2>2 DEF RealityInv
<1>6. ASSUME NEW p \in Consoles, Verify5(p)
      PROVE  RealityInv'
  <2>1. PICK held : Whole(held) /\ console[p].held = held
    BY <1>6 DEF RealityInv, Working, Verify5, AtPrompt
  <2>2. PICK passed : check' = verify_cells(held, passed)
    BY <1>6, <2>1 DEF Verify5
  <2>3. Whole(check')
    BY <2>1, <2>2, VerifiedRecord
  <2>4. Give(p, AtPrompt) /\ UNCHANGED <<settled, stage, existing, sessions>>
    BY <1>6 DEF Verify5
  <2>5. QED
    BY <1>1, <2>3, <2>4 DEF RealityInv, Working
<1>7. ASSUME NEW p \in Consoles, Break(p)
      PROVE  RealityInv'
  BY <1>1, <1>7 DEF Break, files, RealityInv, Working
<1>8. ASSUME NEW key \in Entries5, NEW landed \in BOOLEAN, Closes(key, landed)
      PROVE  RealityInv'
  <2>1. /\ check # NoCheck /\ check' = close_shakedown(check, key)
        /\ landed => stage # "open"
        /\ settled' = IF landed THEN check' ELSE settled
        /\ UNCHANGED <<stage, existing, console, sessions>>
    BY <1>8 DEF Closes
  <2>2. Whole(check')
    BY <2>1, ClosedRecord DEF RealityInv
  <2>3. QED
    BY <2>1, <2>2 DEF RealityInv
<1>9. ASSUME NEW result \in {"nothing", "commit", "check", "cycle"}, Finalize(result)
      PROVE  RealityInv'
  <2>1. /\ check # NoCheck /\ check' = [check EXCEPT !.found = compute_findings(check)]
        /\ settled' = IF result \in {"check", "cycle"} THEN check' ELSE settled
        /\ stage' = CASE stage = "done" \/ result = "cycle" -> "done"
                      [] stage # "done" /\ result \in {"commit", "check"} -> "tracked"
                      [] OTHER -> stage
        /\ UNCHANGED <<existing, console, sessions>>
    BY <1>9 DEF Finalize
  <2>2. Whole(check')
    BY <2>1, FoundRecord DEF RealityInv
  <2>3. /\ stage' \in {"open", "tracked", "done"}
        /\ result # "nothing" => stage' # "open"
        /\ stage # "open" => stage' # "open"
    BY <2>1 DEF RealityInv
  <2>4. QED
    BY <2>1, <2>2, <2>3 DEF RealityInv
<1>10. ASSUME NEW f \in Scope, DropFeature(f)
       PROVE  RealityInv'
  BY <1>10 DEF DropFeature, files, RealityInv
<1>11. CASE UNCHANGED realityVars
  BY <1>11 DEF realityVars, RealityInv
<1>12. QED
  BY <1>2, <1>3, <1>4, <1>5, <1>6, <1>7, <1>8, <1>9, <1>10, <1>11 DEF RealityNext

\* The answers of a language are those of the one session the check names for it, and a
\* finding of R5 stands whatever the cells without a verdict turn out to be (record.py:134,
\* findings.py:5), however the commands at several consoles overwrite each other's work.
THEOREM AnswersAndFindings == RealitySpec => []RealitySound
<1>1. RealityInv => RealitySound
  <2> SUFFICES ASSUME RealityInv PROVE RealitySound
    OBVIOUS
  <2>1. \A r \in Checks : Whole(r)
    BY DEF RealityInv, Checks
  <2>2. RealityOK
    BY <2>1 DEF RealityInv, RealityOK, Whole
  <2>3. OneSessionEach
    BY <2>1 DEF OneSessionEach, Whole, OneSession
  <2>4. FindingsStand
    BY <2>1, FindingsAreMonotone DEF FindingsStand
  <2>5. QED
    BY <2>2, <2>3, <2>4 DEF RealitySound
<1>2. QED
  BY RealityStarts, RealitySteps, <1>1, PTL DEF RealitySpec

-----------------------------------------------------------------------------
(* Carving.  Any copy of the plan may become the next file, so the invariants speak of     *)
(* every entry of every copy: the file's, and those the terminals hold.                    *)
CarvingSpec == CarvingInit /\ [][CarvingNext]_carvingVars

Pcs == {"edging", "debating", "resolving", "debated", "verifying", "minting"}
Session == [pc : Pcs, plan : Seq(PlanEntry), items : Seq(PlanEntry),
            landed : SUBSET (Nat \X {"landed", "refused"}), taken : {<<>>} \cup (CarveKeys \X Nat)]
DebateRecord == [target : CarveKeys, named : SUBSET CarveKeys]

CarvingType ==
    /\ plan = NoPlan \/ plan \in Seq(PlanEntry)
    /\ terminal \in [Terminals -> {Idle} \cup Session]
    /\ debates \in Seq(DebateRecord) /\ Len(debates) <= MaxDebates

Holding == {t \in Terminals : ~ In(t, "idle")}
Copies == ({plan} \ {NoPlan}) \cup {terminal[t].plan : t \in Holding}

\* A record that a terminal saved under the id, replaced or not, is about the entry; what was
\* admitted stays admitted.
Filed(e) ==
    e.debate # 0 =>
        /\ e.debate <= Len(debates)
        /\ \E d \in OnFile(e.debate) : Of(e).key \in {d.target} \cup d.named
Gated(e) == e.verification = "admitted" => Of(e).key \in admitted
Sound(e) == Filed(e) /\ Gated(e)

\* A minted carve has landed.
Landed(e) == e.status = "minted" => Of(e).id \in reported
\* A carve whose key has only blocked ones stays as it was drafted; a carve of a drafter that
\* is not blocked names nothing that is minted with it or after it, unless it is there already.
Kept(e) ==
    /\ e.contested = {} /\ e.debate = 0 /\ e.verification = "none" /\ ~ e.waived
    /\ e.status \in {"proposed", "dropped"}
Fits(c) ==
    \A d \in Carves : Catalogue[d].id \in Catalogue[c].refs /\ OneKind(Catalogue[d].id) =>
        MintRank(d) < MintRank(c) \/ Catalogue[d].id \in DOMAIN disk
Placed(e) == ~ e.blocked /\ e.carve \notin Redrafted => Fits(e.carve)
Orderly(p) == \A i \in Indices(p) : (Sole(p, i) => Kept(p[i])) /\ Placed(p[i])

Minting(t) ==
    In(t, "minting") => /\ terminal[t].items = mint_items(terminal[t].plan)
                        /\ terminal[t].landed \in SUBSET (Nat \X {"landed", "refused"})
Reporting(t) ==
    In(t, "minting") =>
        \A n \in Indices(terminal[t].items) :
            <<n, "landed">> \in terminal[t].landed => Of(terminal[t].items[n]).id \in reported
\* The id a debate has taken is at most the next one.
Resolving(t) ==
    In(t, "resolving") => /\ terminal[t].taken \in CarveKeys \X (1 .. MaxDebates)
                          /\ terminal[t].taken[2] <= Len(debates) + 1
                          /\ Debatable(terminal[t].plan, terminal[t].taken[1])

CarvingInv ==
    /\ CarvingType
    /\ \A p \in Copies : \A i \in Indices(p) : Sound(p[i])
    /\ \A t \in Terminals : Minting(t) /\ Resolving(t)
LandedInv ==
    /\ \A p \in Copies : \A i \in Indices(p) : Landed(p[i])
    /\ \A t \in Terminals : Reporting(t)
OrderlyInv == \A p \in Copies : Orderly(p)

\* How an entry of a plan that a command writes has come about: drafted, split off, or made
\* of the entry i of the plan p at the same place.
Files(id, key) == id \in 1 .. Len(debates) /\ \E d \in OnFile(id) : d.target = key
Fresh(q, j) ==
    /\ q[j].debate = 0 /\ q[j].status = "proposed" /\ q[j].verification = "none"
    /\ q[j].waived = FALSE
    /\ Sole(q, j) => q[j].contested = {}
    /\ Placed(q[j])
SplitOff(f) ==
    /\ \E into \in Splits : f.carve \in Members(into)
    /\ f.debate \in 1 .. Len(debates) /\ \E d \in OnFile(f.debate) : Of(f).key \in d.named
    /\ f.status = "debated" /\ f.verification = "none" /\ f.blocked = FALSE
Untouched(p, i) == OrderlyInv => ~ Sole(p, i)
Settles(p, i, f) ==
    /\ Untouched(p, i)
    /\ \E id \in Nat, status \in {"debated", "dropped", "proposed"} :
          Files(id, Of(p[i]).key)' /\ f = [p[i] EXCEPT !.status = status, !.debate = id]
Revises(p, i, f) ==
    /\ Untouched(p, i)
    /\ \E id \in Nat, c \in DOMAIN Revision :
          /\ Files(id, Of(p[i]).key)' /\ Catalogue[c].key = Of(p[i]).key
          /\ f = [p[i] EXCEPT !.status = "debated", !.debate = id, !.carve = Revision[c]]
Waives(p, i, f) == Untouched(p, i) /\ f = [p[i] EXCEPT !.status = "waived", !.waived = TRUE]
Drops(p, i, f) == f = [p[i] EXCEPT !.status = "dropped"]
Verifies(p, i, f) ==
    /\ Untouched(p, i)
    /\ \E v \in {"admitted", "refused"}, status \in {"verified", p[i].status} :
          /\ f = [p[i] EXCEPT !.verification = v, !.status = status]
          /\ v = "admitted" => Of(p[i]).key \in admitted'
Mints(p, i, f) ==
    /\ Untouched(p, i)
    /\ OneIdEach /\ LandedInv => Of(p[i]).id \in reported'
    /\ f = [p[i] EXCEPT !.status = "minted"]
Changes(p, i, f) ==
    \/ f = p[i] \/ Settles(p, i, f) \/ Revises(p, i, f) \/ Waives(p, i, f)
    \/ Drops(p, i, f) \/ Verifies(p, i, f) \/ Mints(p, i, f)
Marks(p, i, q) ==
    \E triggers \in SUBSET Triggers : /\ q[i] = [p[i] EXCEPT !.contested = triggers]
                                      /\ Sole(q, i) => triggers = {}

\* A plan some command writes: of no plan, or of a copy.
From(p, q) ==
    /\ p \in Seq(PlanEntry) /\ q \in Seq(PlanEntry)
    /\ \A i \in Indices(p) : i \in Indices(q) /\ (Changes(p, i, q[i]) \/ Marks(p, i, q))
    /\ \A j \in Indices(q) \ Indices(p) : Fresh(q, j)' \/ SplitOff(q[j])'
Written(q) == \E p \in Copies \cup {<<>>} : From(p, q)
\* What no command takes back.
Grows ==
    /\ Len(debates) <= Len(debates')
    /\ \A id \in 1 .. Len(debates) : OnFile(id) \subseteq OnFile(id)'
    /\ admitted \subseteq admitted' /\ reported \subseteq reported'
    /\ DOMAIN disk \subseteq DOMAIN disk'

-----------------------------------------------------------------------------
(* Orders and what is picked by them.                                        *)

Orders(R, S) ==
    /\ \A i, j \in S : <<i, j>> \in R \/ <<j, i>> \in R
    /\ \A i, j \in S : <<i, j>> \in R /\ <<j, i>> \in R => i = j
    /\ \A i, j, k \in S : <<i, j>> \in R /\ <<j, k>> \in R => <<i, k>> \in R
Below(S, R, i) == {j \in S : <<j, i>> \in R}

\* There is an n-th: no two of S have equally many before them.
LEMMA NthIn ==
    ASSUME NEW S, IsFiniteSet(S), NEW R, Orders(R, S), NEW n \in 1 .. Cardinality(S)
    PROVE  Nth(S, R, n) \in S /\ Cardinality(Below(S, R, Nth(S, R, n))) = n
<1> DEFINE place == [i \in S |-> Cardinality(Below(S, R, i))]
           places == 1 .. Cardinality(S)
<1>0. Cardinality(S) \in Nat
  BY FS_CardinalityType
<1>1. \A i \in S : IsFiniteSet(Below(S, R, i)) /\ place[i] \in places
  <2> SUFFICES ASSUME NEW i \in S
               PROVE  IsFiniteSet(Below(S, R, i)) /\ place[i] \in places
    OBVIOUS
  <2>1. Below(S, R, i) \in SUBSET S /\ i \in Below(S, R, i)
    BY DEF Below, Orders
  <2>2. /\ IsFiniteSet(Below(S, R, i)) /\ Cardinality(Below(S, R, i)) <= Cardinality(S)
    BY <2>1, FS_Subset
  <2>3. Cardinality(Below(S, R, i)) \in Nat /\ Cardinality(Below(S, R, i)) # 0
    BY <2>1, <2>2, FS_CardinalityType, FS_EmptySet
  <2> QED
    BY <1>0, <2>2, <2>3
<1>2. place \in [S -> places]
  BY <1>1
<1>3. ASSUME NEW i \in S, NEW j \in S, place[i] = place[j], <<i, j>> \in R
      PROVE  i = j
  <2>1. Below(S, R, i) \in SUBSET Below(S, R, j)
    BY <1>3 DEF Below, Orders
  <2>2. Cardinality(Below(S, R, i)) = Cardinality(Below(S, R, j))
    BY <1>3
  <2>3. Below(S, R, i) = Below(S, R, j)
    BY <1>1, <2>1, <2>2, FS_Subset
  <2> QED
    BY <1>3, <2>3 DEF Below, Orders
<1>4. \A i, j \in S : place[i] = place[j] => i = j
  BY <1>3 DEF Orders
<1> HIDE DEF place
<1>5. place \in Injection(S, places)
  BY <1>2, <1>4 DEF Injection, IsInjective
<1>6. IsFiniteSet(places) /\ Cardinality(places) = Cardinality(S)
  BY <1>0, FS_Interval
<1>7. place \in Surjection(S, places)
  BY <1>5, <1>6, FS_Injection
<1>8. \E i \in S : place[i] = n
  BY <1>7 DEF Surjection
<1>9. \E i \in S : Cardinality(Below(S, R, i)) = n
  BY <1>8 DEF place
<1> QED
  BY <1>9 DEF Nth, Below

\* What is picked is of S, and in its order.
LEMMA Picked ==
    ASSUME NEW X, NEW s \in Seq(X), NEW S \in SUBSET Indices(s), NEW R, Orders(R, S)
    PROVE  /\ IsFiniteSet(S)
           /\ Pick(s, S, R) \in Seq(X)
           /\ Indices(Pick(s, S, R)) = 1 .. Cardinality(S)
           /\ \A n \in Indices(Pick(s, S, R)) :
                  Nth(S, R, n) \in S /\ Pick(s, S, R)[n] = s[Nth(S, R, n)]
           /\ \A m, n \in Indices(Pick(s, S, R)) :
                  m < n => <<Nth(S, R, n), Nth(S, R, m)>> \notin R
<1>1. IsFiniteSet(Indices(s)) /\ Indices(s) = 1 .. Len(s) /\ Len(s) \in Nat
  BY FS_Interval DEF Indices
<1>2. IsFiniteSet(S) /\ Cardinality(S) \in Nat
  BY <1>1, FS_Subset, FS_CardinalityType
<1>3. \A n \in 1 .. Cardinality(S) :
          Nth(S, R, n) \in S /\ Cardinality(Below(S, R, Nth(S, R, n))) = n
  BY <1>2, NthIn
<1>4. \A n \in 1 .. Cardinality(S) : s[Nth(S, R, n)] \in X
  BY <1>1, <1>3
<1>5. Pick(s, S, R) \in [1 .. Cardinality(S) -> X]
  BY <1>4 DEF Pick
<1>6. Pick(s, S, R) \in Seq(X) /\ Len(Pick(s, S, R)) = Cardinality(S)
  BY <1>2, <1>5
<1>7. ASSUME NEW m \in 1 .. Cardinality(S), NEW n \in 1 .. Cardinality(S), m < n,
             <<Nth(S, R, n), Nth(S, R, m)>> \in R
      PROVE  FALSE
  <2> DEFINE a == Nth(S, R, m)
             b == Nth(S, R, n)
  <2>1. a \in S /\ b \in S /\ <<b, a>> \in R
    BY <1>3, <1>7
  <2>2. Below(S, R, b) \in SUBSET Below(S, R, a) /\ Below(S, R, a) \in SUBSET S
    BY <2>1 DEF Below, Orders
  <2>3. Cardinality(Below(S, R, b)) <= Cardinality(Below(S, R, a))
    BY <1>2, <2>2, FS_Subset
  <2> QED
    BY <1>3, <1>7, <2>3
<1> QED
  BY <1>2, <1>3, <1>6, <1>7 DEF Pick, Indices

LEMMA WrittenOrders ==
    ASSUME NEW X, NEW s \in Seq(X), NEW S \in SUBSET Indices(s)
    PROVE  Orders(AsWritten(s), S)
<1>1. Len(s) \in Nat /\ S \subseteq 1 .. Len(s)
  BY DEF Indices
<1>2. \A i, j \in S : <<i, j>> \in AsWritten(s) <=> i <= j
  BY <1>1 DEF AsWritten, Indices
<1> QED
  BY <1>1, <1>2 DEF Orders

LEMMA SortedOrders ==
    ASSUME NEW X, NEW s \in Seq(X), NEW rank \in [Indices(s) -> Nat], NEW S \in SUBSET Indices(s)
    PROVE  /\ Orders(Sorted(s, rank), S)
           /\ \A i, j \in S : rank[i] < rank[j] => <<i, j>> \in Sorted(s, rank)
<1>1. Len(s) \in Nat /\ S \subseteq 1 .. Len(s) /\ \A i \in S : rank[i] \in Nat
  BY DEF Indices
<1>2. \A i, j \in S : <<i, j>> \in Sorted(s, rank)
                          <=> rank[i] < rank[j] \/ (rank[i] = rank[j] /\ i <= j)
  BY <1>1 DEF Sorted, AsWritten, Indices
<1>3. ASSUME NEW i \in S, NEW j \in S
      PROVE  <<i, j>> \in Sorted(s, rank) \/ <<j, i>> \in Sorted(s, rank)
  <2>1. rank[i] \in Nat /\ rank[j] \in Nat /\ i \in Nat /\ j \in Nat
    BY <1>1
  <2>2. \/ rank[i] < rank[j] \/ (rank[i] = rank[j] /\ i <= j)
        \/ rank[j] < rank[i] \/ (rank[j] = rank[i] /\ j <= i)
    BY <2>1
  <2> QED
    BY <1>2, <2>2
<1>4. \A i, j \in S : <<i, j>> \in Sorted(s, rank) /\ <<j, i>> \in Sorted(s, rank) => i = j
  BY <1>1, <1>2
<1>5. ASSUME NEW i \in S, NEW j \in S, NEW k \in S,
             <<i, j>> \in Sorted(s, rank), <<j, k>> \in Sorted(s, rank)
      PROVE  <<i, k>> \in Sorted(s, rank)
  <2>1. /\ rank[i] \in Nat /\ rank[j] \in Nat /\ rank[k] \in Nat
        /\ i \in Nat /\ j \in Nat /\ k \in Nat
    BY <1>1
  <2>2. /\ rank[i] < rank[j] \/ (rank[i] = rank[j] /\ i <= j)
        /\ rank[j] < rank[k] \/ (rank[j] = rank[k] /\ j <= k)
    BY <1>2, <1>5
  <2>3. rank[i] < rank[k] \/ (rank[i] = rank[k] /\ i <= k)
    BY <2>1, <2>2
  <2> QED
    BY <1>2, <2>3
<1> QED
  BY <1>2, <1>3, <1>4, <1>5 DEF Orders

\* The places of the lists, and of their carves in the mint.
LEMMA Ranks ==
    ASSUME NEW c \in Carves
    PROVE  /\ ListOf(c) \in 1 .. 5 /\ Lists[ListOf(c)] = Catalogue[c].list
           /\ MintRank(c) \in Nat
           /\ Catalogue[c].list = "dimensions" => MintRank(c) = 3
           /\ Catalogue[c].list = "qualities" => MintRank(c) = 5
           /\ Catalogue[c].list = "nodes" =>
                  MintRank(c) = IF Catalogue[c].concept THEN 6 ELSE 7
           /\ Catalogue[c].list = "edges" => MintRank(c) = 9
           /\ Catalogue[c].list = "quality_edges" => MintRank(c) = 11
<1>1. /\ Catalogue[c].list \in {Lists[i] : i \in 1 .. 5} /\ Catalogue[c].concept \in BOOLEAN
      /\ Catalogue[c].concept => Catalogue[c].list = "nodes"
  BY CatalogueAssumption
<1>2. \E n \in 1 .. 5 : Lists[n] = Catalogue[c].list
  BY <1>1
<1>3. ListOf(c) \in 1 .. 5 /\ Lists[ListOf(c)] = Catalogue[c].list
  BY <1>2 DEF ListOf
<1>4. /\ Lists[1] = "dimensions" /\ Lists[2] = "qualities" /\ Lists[3] = "nodes"
      /\ Lists[4] = "edges" /\ Lists[5] = "quality_edges"
  BY DEF Lists
<1>5. ListOf(c) \in {1, 2, 3, 4, 5}
  BY <1>3
<1>6. /\ Catalogue[c].list = "dimensions" => ListOf(c) = 1
      /\ Catalogue[c].list = "qualities" => ListOf(c) = 2
      /\ Catalogue[c].list = "nodes" => ListOf(c) = 3
      /\ Catalogue[c].list = "edges" => ListOf(c) = 4
      /\ Catalogue[c].list = "quality_edges" => ListOf(c) = 5
  BY <1>3, <1>4, <1>5
<1> QED
  BY <1>1, <1>3, <1>6 DEF MintRank

\* The first entry of a key is one of the key's.
LEMMA FindEntry ==
    ASSUME NEW p \in Seq(PlanEntry), NEW key, Named(p, key) # {}
    PROVE  \E i \in Named(p, key) : find_entry(p, key) = p[i]
<1> DEFINE S == Named(p, key)
           rank == [i \in Indices(p) |-> ListOf(p[i].carve)]
<1>1. S \in SUBSET Indices(p) /\ IsFiniteSet(S)
  <2>1. Len(p) \in Nat /\ IsFiniteSet(1 .. Len(p))
    BY FS_Interval
  <2> QED
    BY <2>1, FS_Subset DEF Named, Indices
<1>2. Cardinality(S) \in Nat /\ Cardinality(S) # 0
  BY <1>1, FS_CardinalityType, FS_EmptySet
<1>3. \A i \in Indices(p) : p[i].carve \in Carves
  <2>1. \A i \in Indices(p) : p[i] \in PlanEntry
    BY DEF Indices
  <2> QED
    BY <2>1 DEF PlanEntry
<1>4. rank \in [Indices(p) -> Nat]
  BY <1>3, Ranks
<1>5. Orders(PlanOrder(p), S)
  BY <1>1, <1>4, SortedOrders DEF PlanOrder
<1>6. Nth(S, PlanOrder(p), 1) \in S
  BY <1>1, <1>2, <1>5, NthIn
<1> QED
  BY <1>6 DEF find_entry

LEMMA PlanIndices ==
    ASSUME NEW X, NEW p \in Seq(X)
    PROVE  /\ Len(p) \in Nat /\ Indices(p) = 1 .. Len(p) /\ IsFiniteSet(Indices(p))
           /\ \A i \in Indices(p) : p[i] \in X
BY FS_Interval DEF Indices

LEMMA EntryFields ==
    ASSUME NEW e \in PlanEntry
    PROVE  /\ e.carve \in Carves /\ e.contested \in SUBSET Triggers /\ e.debate \in 0 .. MaxDebates
           /\ e.status \in PLAN_STATUSES /\ e.verification \in {"none", "admitted", "refused"}
           /\ e.waived \in BOOLEAN /\ e.blocked \in BOOLEAN
BY DEF PlanEntry

\* A function over the places of a plan, or over more of them, is a plan.
LEMMA MappedPlan ==
    ASSUME NEW X, NEW p \in Seq(X), NEW Y, NEW q, q = [i \in Indices(p) |-> q[i]],
           \A i \in Indices(p) : q[i] \in Y
    PROVE  q \in Seq(Y) /\ Indices(q) = Indices(p)
<1>1. Len(p) \in Nat /\ Indices(p) = 1 .. Len(p)
  BY PlanIndices
<1>2. q \in [1 .. Len(p) -> Y]
  BY <1>1
<1> HIDE DEF Indices
<1>3. q \in Seq(Y) /\ Len(q) = Len(p)
  BY <1>1, <1>2
<1> QED
  BY <1>1, <1>3 DEF Indices

Joined(p, q) == p \o q
LEMMA AppendedPlan ==
    ASSUME NEW X, NEW p \in Seq(X), NEW q \in Seq(X)
    PROVE  /\ Joined(p, q) \in Seq(X)
           /\ \A j \in Indices(p) : j \in Indices(Joined(p, q)) /\ Joined(p, q)[j] = p[j]
           /\ \A j \in Indices(Joined(p, q)) \ Indices(p) :
                 \E i \in Indices(q) : Joined(p, q)[j] = q[i]
<1>1. p \o q \in Seq(X) /\ Len(p \o q) = Len(p) + Len(q) /\ Len(p) \in Nat /\ Len(q) \in Nat
  OBVIOUS
<1>2. ASSUME NEW j \in 1 .. Len(p)
      PROVE  j \in 1 .. Len(p) + Len(q) /\ (p \o q)[j] = p[j]
  BY <1>1
<1>3. ASSUME NEW j \in 1 .. Len(p) + Len(q), j \notin 1 .. Len(p)
      PROVE  \E i \in 1 .. Len(q) : (p \o q)[j] = q[i]
  <2>1. j - Len(p) \in 1 .. Len(q) /\ (p \o q)[j] = q[j - Len(p)]
    BY <1>1, <1>3
  <2> QED
    BY <2>1
<1> QED
  BY <1>1, <1>2, <1>3 DEF Indices, Joined

LEMMA DraftedEntry ==
    ASSUME NEW c \in Carves, NEW b \in BOOLEAN
    PROVE  [Drafted(c) EXCEPT !.blocked = b] \in PlanEntry /\ Drafted(c) \in PlanEntry
<1>1. 0 \in 0 .. MaxDebates
  BY CarveBoundsAssumption
<1> QED
  BY <1>1 DEF Drafted, PlanEntry, Triggers, PLAN_STATUSES

\* Marking leaves all of an entry but what it is contested for, and a key whose entries are
\* all blocked is contested for nothing.
LEMMA MarkedPlan ==
    ASSUME NEW p \in Seq(PlanEntry)
    PROVE  /\ mark_contested(p) \in Seq(PlanEntry)
           /\ Indices(mark_contested(p)) = Indices(p)
           /\ \A i \in Indices(p) :
                 \/ mark_contested(p)[i] = p[i] /\ p[i].status \in TERMINAL
                 \/ /\ contested_triggers(p, Of(p[i]).key) \in SUBSET Triggers
                    /\ mark_contested(p)[i] =
                          [p[i] EXCEPT !.contested = contested_triggers(p, Of(p[i]).key)]
           /\ \A i \in Indices(p) :
                 (\A j \in Indices(p) : Of(p[j]).key = Of(p[i]).key => p[j].blocked)
                     => contested_triggers(p, Of(p[i]).key) = {}
<1> DEFINE q == mark_contested(p)
<1>1. \A i \in Indices(p) : p[i] \in PlanEntry
  BY PlanIndices
<1>2. ASSUME NEW i \in Indices(p) PROVE Raised(p, i) \in SUBSET Triggers
  BY DEF Raised, Triggers
<1>3. ASSUME NEW key PROVE contested_triggers(p, key) \in SUBSET Triggers
  BY <1>2 DEF contested_triggers, Named
<1>4. \A i \in Indices(p) :
          q[i] = IF p[i].status \in TERMINAL THEN p[i]
                 ELSE [p[i] EXCEPT !.contested = contested_triggers(p, Of(p[i]).key)]
  BY DEF mark_contested
<1>5. \A i \in Indices(p) : q[i] \in PlanEntry
  <2> SUFFICES ASSUME NEW i \in Indices(p) PROVE q[i] \in PlanEntry
    OBVIOUS
  <2>1. p[i] \in PlanEntry
    BY <1>1
  <2>2. ASSUME NEW T \in SUBSET Triggers PROVE [p[i] EXCEPT !.contested = T] \in PlanEntry
    BY <2>1 DEF PlanEntry
  <2> QED
    BY <1>3, <1>4, <2>1, <2>2
<1>6. q = [i \in Indices(p) |-> q[i]]
  BY DEF mark_contested
<1>7. ASSUME NEW i \in Indices(p),
             \A j \in Indices(p) : Of(p[j]).key = Of(p[i]).key => p[j].blocked
      PROVE  contested_triggers(p, Of(p[i]).key) = {}
  <2>1. {j \in Named(p, Of(p[i]).key) : ~ p[j].blocked /\ p[j].status \notin TERMINAL} = {}
    BY <1>7 DEF Named
  <2> QED
    BY <2>1 DEF contested_triggers
<1>8. q \in Seq(PlanEntry) /\ Indices(q) = Indices(p)
  <2> HIDE DEF q
  <2> QED
    BY <1>5, <1>6, MappedPlan
<1> QED
  BY <1>3, <1>4, <1>7, <1>8

LEMMA Trimmed ==
    ASSUME NEW X, NEW out \in Seq(X), NEW counted, NEW kept \in trim_to_cap(out, counted)
    PROVE  kept \in Seq(X) /\ Members(kept) \subseteq X
<1>1. kept \in Seq(X)
  <2>1. CASE kept = out
    BY <2>1
  <2>2. ASSUME NEW cut, kept = Without(out, cut) PROVE kept \in Seq(X)
    <3>1. Orders(AsWritten(out), Indices(out) \ cut)
      BY WrittenOrders
    <3>2. Indices(out) \ cut \in SUBSET Indices(out)
      OBVIOUS
    <3> QED
      BY <2>2, <3>1, <3>2, Picked DEF Without
  <2> QED
    BY <2>1, <2>2 DEF trim_to_cap
<1> QED
  BY <1>1, PlanIndices DEF Members

\* The entries of a role's output.
LEMMA DraftedPlan ==
    ASSUME NEW out \in Seq(Carves), NEW misfits
    PROVE  /\ block_entries(out, misfits) \in Seq(PlanEntry)
           /\ Indices(block_entries(out, misfits)) = Indices(out)
           /\ \A i \in Indices(out) :
                 /\ out[i] \in Members(out)
                 /\ block_entries(out, misfits)[i] =
                       [Drafted(out[i]) EXCEPT !.blocked = out[i] \in misfits]
<1> DEFINE q == block_entries(out, misfits)
<1>1. \A i \in Indices(out) : out[i] \in Carves /\ out[i] \in Members(out)
  BY PlanIndices DEF Members
<1>2. \A i \in Indices(out) : q[i] = [Drafted(out[i]) EXCEPT !.blocked = out[i] \in misfits]
  BY DEF block_entries
<1>3. ASSUME NEW i \in Indices(out) PROVE q[i] \in PlanEntry
  <2>1. out[i] \in Carves /\ (out[i] \in misfits) \in BOOLEAN
    BY <1>1
  <2> HIDE DEF q
  <2>2. [Drafted(out[i]) EXCEPT !.blocked = out[i] \in misfits] \in PlanEntry
    BY <2>1, DraftedEntry
  <2> QED
    BY <1>2, <2>2
<1>4. q = [i \in Indices(out) |-> q[i]]
  BY DEF block_entries
<1> HIDE DEF q
<1>5. q \in Seq(PlanEntry) /\ Indices(q) = Indices(out)
  BY <1>3, <1>4, MappedPlan
<1> QED
  BY <1>1, <1>2, <1>5 DEF q

\* What the ontologist's and the edge drafter's carves name is minted before them.
LEMMA NodesFit ==
    ASSUME NEW out \in Seq({c \in Carves : Catalogue[c].list \in {"dimensions", "nodes"}}),
           NEW c \in Members(out), c \notin NodeMisfits(out)
    PROVE  Fits(c)
<1>1. /\ c \in Carves /\ Catalogue[c].list \in {"dimensions", "nodes"}
      /\ Members(out) \subseteq Carves
  BY PlanIndices DEF Members
<1>2. CASE Catalogue[c].list = "dimensions" \/ Catalogue[c].concept
  BY <1>1, <1>2, RefsAssumption DEF Fits
<1>3. CASE Catalogue[c].list = "nodes" /\ ~ Catalogue[c].concept
  <2>1. MintRank(c) = 7
    BY <1>1, <1>3, Ranks
  <2>2. Catalogue[c].refs \subseteq Ids(Members(out) \cap (Concepts \cup OfList("dimensions")))
                                        \cup Committed(Concepts \cup OfList("dimensions"))
    BY <1>3 DEF NodeMisfits
  <2>3. ASSUME NEW d \in Concepts \cup OfList("dimensions")
        PROVE  d \in Carves /\ MintRank(d) \in {3, 6}
    BY Ranks DEF Concepts, OfList
  <2>4. SUFFICES ASSUME NEW d \in Carves, Catalogue[d].id \in Catalogue[c].refs,
                        OneKind(Catalogue[d].id), Catalogue[d].id \notin DOMAIN disk
                 PROVE  MintRank(d) < MintRank(c)
    BY DEF Fits
  <2>5. PICK b \in Concepts \cup OfList("dimensions") : Catalogue[b].id = Catalogue[d].id
    BY <2>2, <2>4 DEF Ids, Committed
  <2>6. MintRank(b) = MintRank(d)
    BY <2>3, <2>4, <2>5 DEF OneKind
  <2> QED
    BY <2>1, <2>3, <2>5, <2>6
<1> QED
  BY <1>1, <1>2, <1>3

LEMMA EdgesFit ==
    ASSUME NEW p \in Seq(PlanEntry),
           NEW out \in Seq({c \in Carves : Catalogue[c].list \in {"qualities", "edges", "quality_edges"}}),
           EdgesClean(p, out), NEW c \in Members(out)
    PROVE  Fits(c)
<1>1. /\ c \in Carves /\ Catalogue[c].list \in {"qualities", "edges", "quality_edges"}
      /\ Members(out) \subseteq Carves
  BY PlanIndices DEF Members
<1>2. ASSUME NEW kind \in SUBSET Carves, NEW id \in ViewOf(p, kind), id \notin DOMAIN disk
      PROVE  \E b \in kind : Catalogue[b].id = id
  <2>1. \E i \in Indices(p) : p[i].carve \in kind /\ Of(p[i]).id = id
    BY <1>2 DEF ViewOf, Committed
  <2> QED
    BY <2>1 DEF Of
<1>3. /\ Concepts \in SUBSET Carves /\ FeatureCarves \in SUBSET Carves
      /\ \A b \in Concepts \cup FeatureCarves : MintRank(b) \in {6, 7}
      /\ \A b \in OfList("qualities") : b \in Carves /\ MintRank(b) = 5
  BY Ranks DEF Concepts, FeatureCarves, OfList
<1>4. SUFFICES ASSUME NEW d \in Carves, Catalogue[d].id \in Catalogue[c].refs,
                      OneKind(Catalogue[d].id), Catalogue[d].id \notin DOMAIN disk
               PROVE  MintRank(d) < MintRank(c)
  BY DEF Fits
<1>5. ASSUME NEW b \in Carves, Catalogue[b].id = Catalogue[d].id
      PROVE  MintRank(b) = MintRank(d)
  BY <1>4, <1>5 DEF OneKind
<1>6. CASE Catalogue[c].list = "qualities"
  BY <1>1, <1>4, <1>6, RefsAssumption
<1>7. CASE Catalogue[c].list = "edges"
  <2>1. Catalogue[d].id \in ViewOf(p, FeatureCarves) \cup ViewOf(p, Concepts)
    BY <1>4, <1>7 DEF EdgesClean
  <2>2. \E b \in Concepts \cup FeatureCarves : Catalogue[b].id = Catalogue[d].id
    BY <1>2, <1>3, <1>4, <2>1
  <2>3. MintRank(d) \in {6, 7} /\ MintRank(c) = 9
    BY <1>1, <1>3, <1>5, <1>7, <2>2, Ranks
  <2> QED
    BY <2>3
<1>8. CASE Catalogue[c].list = "quality_edges"
  <2>1. Catalogue[d].id \in ViewOf(p, FeatureCarves) \cup Committed(OfList("qualities"))
                               \cup Ids(Members(out) \cap OfList("qualities"))
    BY <1>4, <1>8 DEF EdgesClean
  <2>2. \E b \in FeatureCarves \cup OfList("qualities") : Catalogue[b].id = Catalogue[d].id
    BY <1>2, <1>3, <1>4, <2>1 DEF Committed, Ids
  <2>3. MintRank(d) \in {5, 6, 7} /\ MintRank(c) = 11
    BY <1>1, <1>3, <1>5, <1>8, <2>2, Ranks
  <2> QED
    BY <2>3
<1> QED
  BY <1>1, <1>6, <1>7, <1>8

LEMMA FitsStays ==
    ASSUME Grows, NEW c \in Carves, Fits(c)
    PROVE  Fits(c)'
BY DEF Grows, Fits

\* Marking writes entries drafted just now after those there were.
LEMMA MarkWrites ==
    ASSUME NEW p \in Seq(PlanEntry), NEW b \in Seq(PlanEntry), NEW q, q = mark_contested(b),
           \A i \in Indices(p) : i \in Indices(b) /\ b[i] = p[i],
           \A j \in Indices(b) \ Indices(p) :
              \E c \in Carves, x \in BOOLEAN : /\ b[j] = [Drafted(c) EXCEPT !.blocked = x]
                                               /\ ~ x => Fits(c)'
    PROVE  From(p, q)
<1> DEFINE T(j) == contested_triggers(b, Of(b[j]).key)
<1>1. q \in Seq(PlanEntry) /\ Indices(q) = Indices(b)
  BY MarkedPlan
<1>2. \A j \in Indices(b) : b[j] \in PlanEntry
  BY PlanIndices
<1>3. ASSUME NEW j \in Indices(b)
      PROVE  \/ q[j] = b[j] /\ b[j].status \in TERMINAL
             \/ T(j) \in SUBSET Triggers /\ q[j] = [b[j] EXCEPT !.contested = T(j)]
  BY MarkedPlan
<1>4. ASSUME NEW j \in Indices(b),
             \A k \in Indices(b) : Of(b[k]).key = Of(b[j]).key => b[k].blocked
      PROVE  T(j) = {}
  BY <1>4, MarkedPlan
<1> HIDE DEF T
<1>5. ASSUME NEW j \in Indices(b)
      PROVE  Of(q[j]).key = Of(b[j]).key /\ q[j].blocked = b[j].blocked
  BY <1>2, <1>3 DEF Of, PlanEntry
<1>6. ASSUME NEW j \in Indices(b), Sole(q, j)
      PROVE  T(j) = {}
  BY <1>1, <1>4, <1>5, <1>6 DEF Sole, Named
<1>7. ASSUME NEW i \in Indices(p)
      PROVE  i \in Indices(q) /\ (Changes(p, i, q[i]) \/ Marks(p, i, q))
  <2>1. i \in Indices(b) /\ b[i] = p[i]
    OBVIOUS
  <2>2. q[i] = p[i] \/ Marks(p, i, q)
    BY <1>3, <1>6, <2>1 DEF Marks
  <2> QED
    BY <1>1, <2>1, <2>2 DEF Changes
<1>8. ASSUME NEW j \in Indices(q), j \notin Indices(p)
      PROVE  Fresh(q, j)'
  <2>1. PICK c \in Carves, x \in BOOLEAN : /\ b[j] = [Drafted(c) EXCEPT !.blocked = x]
                                           /\ ~ x => Fits(c)'
    BY <1>1, <1>8
  <2>0. b[j] = [Drafted(c) EXCEPT !.blocked = x]
    BY <2>1
  <2>2. /\ b[j].status = "proposed" /\ b[j].carve = c /\ b[j].blocked = x /\ b[j].debate = 0
        /\ b[j].verification = "none" /\ b[j].waived = FALSE
    BY <2>0 DEF Drafted
  <2>3. q[j] = [b[j] EXCEPT !.contested = T(j)] /\ j \in Indices(b) /\ b[j] \in PlanEntry
    BY <1>1, <1>2, <1>3, <1>8, <2>2 DEF TERMINAL
  <2>4. /\ q[j].status = "proposed" /\ q[j].carve = c /\ q[j].blocked = x /\ q[j].debate = 0
        /\ q[j].verification = "none" /\ q[j].waived = FALSE /\ q[j].contested = T(j)
    BY <2>2, <2>3 DEF PlanEntry
  <2>5. Placed(q[j])'
    <3>1. CASE x
      BY <2>4, <3>1 DEF Placed
    <3>2. CASE ~ x
      BY <2>1, <2>4, <3>2 DEF Placed
    <3> QED
      BY <3>1, <3>2
  <2>6. Sole(q, j) => q[j].contested = {}
    BY <1>6, <2>3, <2>4
  <2> QED
    BY <2>4, <2>5, <2>6 DEF Fresh
<1> QED
  BY <1>1, <1>7, <1>8 DEF From

\* What a drafter's output adds: carves that fit, or are blocked.
LEMMA DraftFits ==
    ASSUME Grows, NEW kept \in Seq(Carves), NEW misfits,
           \A c \in Members(kept) : c \notin misfits => Fits(c)
    PROVE  \A i \in Indices(block_entries(kept, misfits)) :
              \E c \in Carves, x \in BOOLEAN :
                 /\ block_entries(kept, misfits)[i] = [Drafted(c) EXCEPT !.blocked = x]
                 /\ ~ x => Fits(c)'
<1> SUFFICES ASSUME NEW i \in Indices(block_entries(kept, misfits))
             PROVE  \E c \in Carves, x \in BOOLEAN :
                       /\ block_entries(kept, misfits)[i] = [Drafted(c) EXCEPT !.blocked = x]
                       /\ ~ x => Fits(c)'
  OBVIOUS
<1>1. i \in Indices(kept) /\ kept[i] \in Carves /\ kept[i] \in Members(kept)
  BY DraftedPlan, PlanIndices
<1>2. block_entries(kept, misfits)[i] = [Drafted(kept[i]) EXCEPT !.blocked = kept[i] \in misfits]
  BY <1>1, DraftedPlan
<1> DEFINE x == kept[i] \in misfits
<1>3. x \in BOOLEAN /\ block_entries(kept, misfits)[i] = [Drafted(kept[i]) EXCEPT !.blocked = x]
  BY <1>2
<1>4. ~ x => Fits(kept[i])'
  BY <1>1, FitsStays
<1> HIDE DEF x
<1> QED
  BY <1>1, <1>3, <1>4

\* draft atomize.
LEMMA AtomizeWrites ==
    ASSUME Grows, NEW out \in NodeOuts, NEW kept \in trim_to_cap(out, {"nodes"}), NEW q,
           q = mark_contested(block_entries(kept, NodeMisfits(kept)))
    PROVE  Written(q) /\ q \in Seq(PlanEntry)
<1> DEFINE X == {c \in Carves : Catalogue[c].list \in {"dimensions", "nodes"}}
           b == block_entries(kept, NodeMisfits(kept))
<1>1. out \in Seq(X)
  BY OutputsAssumption
<1>2. kept \in Seq(X) /\ Members(kept) \subseteq X
  BY <1>1, Trimmed
<1>3. kept \in Seq(Carves)
  BY <1>2
<1>4. b \in Seq(PlanEntry)
  BY <1>3, DraftedPlan
<1>5. \A c \in Members(kept) : c \notin NodeMisfits(kept) => Fits(c)
  BY <1>2, NodesFit
<1>6. \A i \in Indices(b) : \E c \in Carves, x \in BOOLEAN :
          b[i] = [Drafted(c) EXCEPT !.blocked = x] /\ (~ x => Fits(c)')
  BY <1>3, <1>5, DraftFits
<1> HIDE DEF b
<1>7. <<>> \in Seq(PlanEntry) /\ Indices(<<>>) = {}
  BY DEF Indices
<1>8. q = mark_contested(b)
  BY DEF b
<1>9. From(<<>>, q)
  BY <1>4, <1>6, <1>7, <1>8, MarkWrites
<1> QED
  BY <1>9 DEF Written, From

\* draft edges.
LEMMA EdgingWrites ==
    ASSUME Grows, NEW p \in Copies, p \in Seq(PlanEntry),
           NEW out \in EdgeOuts, NEW kept \in trim_to_cap(out, {"edges", "quality_edges"}),
           EdgesClean(p, kept), NEW q,
           q = mark_contested(p \o block_entries(kept, EdgeMisfits(p, kept)))
    PROVE  Written(q) /\ q \in Seq(PlanEntry)
<1> DEFINE X == {c \in Carves : Catalogue[c].list \in {"qualities", "edges", "quality_edges"}}
           d == block_entries(kept, EdgeMisfits(p, kept))
           b == Joined(p, d)
<1>1. out \in Seq(X)
  BY OutputsAssumption
<1>2. kept \in Seq(X) /\ Members(kept) \subseteq X
  BY <1>1, Trimmed
<1>3. kept \in Seq(Carves)
  BY <1>2
<1>4. d \in Seq(PlanEntry)
  BY <1>3, DraftedPlan
<1>5. \A c \in Members(kept) : Fits(c)
  BY <1>2, EdgesFit
<1>6. \A i \in Indices(d) : \E c \in Carves, x \in BOOLEAN :
          d[i] = [Drafted(c) EXCEPT !.blocked = x] /\ (~ x => Fits(c)')
  BY <1>3, <1>5, DraftFits
<1> HIDE DEF d
<1>7. /\ b \in Seq(PlanEntry)
      /\ \A j \in Indices(p) : j \in Indices(b) /\ b[j] = p[j]
      /\ \A j \in Indices(b) \ Indices(p) : \E i \in Indices(d) : b[j] = d[i]
  BY <1>4, AppendedPlan
<1> HIDE DEF b
<1>8. \A j \in Indices(b) \ Indices(p) : \E c \in Carves, x \in BOOLEAN :
          b[j] = [Drafted(c) EXCEPT !.blocked = x] /\ (~ x => Fits(c)')
  BY <1>6, <1>7
<1>9. q = mark_contested(b)
  BY DEF b, d, Joined
<1>10. From(p, q)
  BY <1>7, <1>8, <1>9, MarkWrites
<1> QED
  BY <1>10 DEF Written, From

-----------------------------------------------------------------------------
(* What the commands make of a plan.                                         *)

LEMMA SetEntry ==
    ASSUME NEW p \in Seq(PlanEntry), NEW key, NEW new,
           \A i \in Named(p, key) : new[i] \in PlanEntry
    PROVE  /\ set_entry(p, key, new) \in Seq(PlanEntry)
           /\ Indices(set_entry(p, key, new)) = Indices(p)
           /\ \A i \in Indices(p) :
                 \/ i \in Named(p, key) /\ set_entry(p, key, new)[i] = new[i]
                 \/ i \notin Named(p, key) /\ set_entry(p, key, new)[i] = p[i]
<1> DEFINE q == set_entry(p, key, new)
<1>1. q = [i \in Indices(p) |-> IF i \in Named(p, key) THEN new[i] ELSE p[i]]
  BY DEF set_entry
<1> HIDE DEF q
<1>2. \A i \in Indices(p) : q[i] = IF i \in Named(p, key) THEN new[i] ELSE p[i]
  BY <1>1
<1>3. \A i \in Indices(p) : q[i] \in PlanEntry
  BY <1>2, PlanIndices
<1>4. q = [i \in Indices(p) |-> q[i]]
  BY <1>1
<1>5. q \in Seq(PlanEntry) /\ Indices(q) = Indices(p)
  BY <1>3, <1>4, MappedPlan
<1> QED
  BY <1>2, <1>5 DEF q

\* A command that every entry of a key takes, and no other.
LEMMA SetChanges ==
    ASSUME NEW p \in Copies, p \in Seq(PlanEntry), NEW key, NEW new,
           \A i \in Named(p, key) : new[i] \in PlanEntry /\ Changes(p, i, new[i])
    PROVE  /\ set_entry(p, key, new) \in Seq(PlanEntry)
           /\ Indices(set_entry(p, key, new)) = Indices(p)
           /\ \A i \in Indices(p) : Changes(p, i, set_entry(p, key, new)[i])
<1> DEFINE q == set_entry(p, key, new)
<1>1. /\ q \in Seq(PlanEntry) /\ Indices(q) = Indices(p)
      /\ \A i \in Indices(p) : \/ i \in Named(p, key) /\ q[i] = new[i]
                               \/ i \notin Named(p, key) /\ q[i] = p[i]
  BY SetEntry
<1> HIDE DEF q
<1>2. \A i \in Indices(p) : Changes(p, i, q[i])
  BY <1>1 DEF Changes
<1> QED
  BY <1>1, <1>2 DEF q

LEMMA SetWrites ==
    ASSUME NEW p \in Copies, p \in Seq(PlanEntry), NEW key, NEW new,
           \A i \in Named(p, key) : new[i] \in PlanEntry /\ Changes(p, i, new[i])
    PROVE  Written(set_entry(p, key, new)) /\ set_entry(p, key, new) \in Seq(PlanEntry)
<1> DEFINE q == set_entry(p, key, new)
<1>1. /\ q \in Seq(PlanEntry) /\ Indices(q) = Indices(p)
      /\ \A i \in Indices(p) : Changes(p, i, q[i])
  BY SetChanges
<1> HIDE DEF q
<1>2. From(p, q)
  BY <1>1 DEF From
<1> QED
  BY <1>1, <1>2 DEF Written, q

LEMMA TwinUntouched ==
    ASSUME NEW p, NEW i \in Indices(p), NEW j \in Indices(p),
           Of(p[i]).key = Of(p[j]).key, ~ p[j].blocked
    PROVE  Untouched(p, i)
BY DEF Untouched, Sole, Named

LEMMA FoundUntouched ==
    ASSUME NEW p \in Copies, p \in Seq(PlanEntry), NEW key, Named(p, key) # {},
           find_entry(p, key).contested # {}, NEW i \in Named(p, key)
    PROVE  Untouched(p, i)
<1>1. PICK j \in Named(p, key) : find_entry(p, key) = p[j]
  BY FindEntry
<1>2. /\ j \in Indices(p) /\ Of(p[i]).key = key /\ Of(p[j]).key = key
      /\ p[j].contested # {}
  BY <1>1 DEF Named
<1>3. Sole(p, i) => Sole(p, j)
  BY <1>2 DEF Sole
<1>4. OrderlyInv => ~ Sole(p, j)
  BY <1>2 DEF OrderlyInv, Orderly, Kept
<1> QED
  BY <1>3, <1>4 DEF Untouched

\* What a debate settles of a key.
LEMMA SettleChanges ==
    ASSUME NEW p \in Copies, p \in Seq(PlanEntry), NEW key, Debatable(p, key),
           NEW id \in 0 .. MaxDebates, Files(id, key)',
           NEW status \in {"debated", "dropped", "proposed"}
    PROVE  /\ Settle(p, key, id, status) \in Seq(PlanEntry)
           /\ Indices(Settle(p, key, id, status)) = Indices(p)
           /\ \A i \in Indices(p) : Changes(p, i, Settle(p, key, id, status)[i])
<1> DEFINE new == [i \in Named(p, key) |-> [p[i] EXCEPT !.status = status, !.debate = id]]
<1>1. ASSUME NEW i \in Named(p, key) PROVE new[i] \in PlanEntry /\ Changes(p, i, new[i])
  <2>1. i \in Indices(p) /\ Of(p[i]).key = key /\ p[i] \in PlanEntry
    BY PlanIndices DEF Named
  <2>2. new[i] = [p[i] EXCEPT !.status = status, !.debate = id]
    OBVIOUS
  <2>3. new[i] \in PlanEntry
    BY <2>1, <2>2 DEF PlanEntry, PLAN_STATUSES
  <2>4. Untouched(p, i)
    BY FoundUntouched DEF Debatable
  <2>5. id \in Nat
    BY CarveBoundsAssumption
  <2> HIDE DEF new
  <2>6. Settles(p, i, new[i])
    BY <2>1, <2>2, <2>4, <2>5 DEF Settles
  <2> QED
    BY <2>3, <2>6 DEF Changes
<1>2. Settle(p, key, id, status) = set_entry(p, key, new)
  BY DEF Settle
<1> HIDE DEF new
<1> QED
  BY <1>1, <1>2, SetChanges

LEMMA SettleWrites ==
    ASSUME NEW p \in Copies, p \in Seq(PlanEntry), NEW key, Debatable(p, key),
           NEW id \in 0 .. MaxDebates, Files(id, key)',
           NEW status \in {"debated", "dropped", "proposed"}
    PROVE  Written(Settle(p, key, id, status)) /\ Settle(p, key, id, status) \in Seq(PlanEntry)
<1>1. PICK q : q = Settle(p, key, id, status)
  OBVIOUS
<1>2. /\ q \in Seq(PlanEntry) /\ Indices(q) = Indices(p)
      /\ \A i \in Indices(p) : Changes(p, i, q[i])
  BY <1>1, SettleChanges
<1>3. From(p, q)
  BY <1>2 DEF From
<1> QED
  BY <1>1, <1>2, <1>3 DEF Written

LEMMA ReviseWrites ==
    ASSUME NEW p \in Copies, p \in Seq(PlanEntry), NEW key, Debatable(p, key),
           NEW id \in 0 .. MaxDebates, Files(id, key)',
           find_entry(p, key).carve \in DOMAIN Revision
    PROVE  Written(Revise(p, key, id)) /\ Revise(p, key, id) \in Seq(PlanEntry)
<1> DEFINE c == find_entry(p, key).carve
           new == [i \in Named(p, key) |->
                      [p[i] EXCEPT !.status = "debated", !.debate = id, !.carve = Revision[c]]]
<1>0. c \in DOMAIN Revision /\ Revision[c] \in Carves /\ Catalogue[c].key = key
  <2>1. PICK j \in Named(p, key) : find_entry(p, key) = p[j]
    BY FindEntry DEF Debatable
  <2> QED
    BY <2>1, RevisionAssumption DEF Named, Of
<1>1. Revise(p, key, id) = set_entry(p, key, new)
  BY DEF Revise
<1> HIDE DEF c
<1>2. ASSUME NEW i \in Named(p, key) PROVE new[i] \in PlanEntry /\ Changes(p, i, new[i])
  <2>1. i \in Indices(p) /\ Of(p[i]).key = key /\ p[i] \in PlanEntry
    BY PlanIndices DEF Named
  <2>2. new[i] = [p[i] EXCEPT !.status = "debated", !.debate = id, !.carve = Revision[c]]
    OBVIOUS
  <2>3. new[i] \in PlanEntry
    BY <1>0, <2>1, <2>2 DEF PlanEntry, PLAN_STATUSES
  <2>4. Untouched(p, i)
    BY FoundUntouched DEF Debatable
  <2>5. id \in Nat
    BY CarveBoundsAssumption
  <2> HIDE DEF new
  <2>6. Revises(p, i, new[i])
    BY <1>0, <2>1, <2>2, <2>4, <2>5 DEF Revises
  <2> QED
    BY <2>3, <2>6 DEF Changes
<1> HIDE DEF new
<1> QED
  BY <1>1, <1>2, SetWrites

LEMMA SplitWrites ==
    ASSUME NEW p \in Copies, p \in Seq(PlanEntry), NEW key, Debatable(p, key),
           NEW id \in 0 .. MaxDebates, Files(id, key)', NEW into \in Splits,
           NEW record, record \in OnFile(id)',
           record.named = {Catalogue[into[i]].key : i \in Indices(into)}
    PROVE  Written(Split(p, key, id, into)) /\ Split(p, key, id, into) \in Seq(PlanEntry)
<1> DEFINE s == Settle(p, key, id, "dropped")
           d == [i \in Indices(into) |-> split_entry(into[i], id, find_entry(p, key))]
           q == Split(p, key, id, into)
<1>1. /\ s \in Seq(PlanEntry) /\ Indices(s) = Indices(p)
      /\ \A i \in Indices(p) : Changes(p, i, s[i])
  BY SettleChanges
<1>2. into \in Seq({c \in Carves : Catalogue[c].list \in {"nodes"}})
  BY OutputsAssumption
<1>3. into \in Seq(Carves)
  BY <1>2
<1>4. ASSUME NEW i \in Indices(into)
      PROVE  d[i] \in PlanEntry /\ SplitOff(d[i])'
  <2>1. into[i] \in Carves /\ into[i] \in Members(into) /\ id \in 1 .. Len(debates')
    BY <1>3, PlanIndices DEF Members, Files
  <2>2. Drafted(into[i]) \in PlanEntry
    BY <2>1, DraftedEntry
  <2>3. d[i] = [Drafted(into[i]) EXCEPT !.contested = {}, !.debate = id, !.status = "debated"]
    BY DEF split_entry
  <2> HIDE DEF d
  <2>4. /\ d[i].carve = into[i] /\ d[i].debate = id /\ d[i].status = "debated"
        /\ d[i].verification = "none" /\ d[i].blocked = FALSE
    BY <2>3 DEF Drafted
  <2>5. d[i] \in PlanEntry
    BY <2>2, <2>3 DEF PlanEntry, PLAN_STATUSES
  <2>6. Of(d[i]).key \in record.named
    BY <2>4 DEF Of
  <2> QED
    BY <2>1, <2>4, <2>5, <2>6 DEF SplitOff
<1>5. d = [i \in Indices(into) |-> d[i]]
  OBVIOUS
<1>6. q = Joined(s, d)
  BY DEF Split, Joined
<1> HIDE DEF s, d, q
<1>7. d \in Seq(PlanEntry) /\ Indices(d) = Indices(into)
  BY <1>3, <1>4, <1>5, MappedPlan
<1>8. /\ q \in Seq(PlanEntry)
      /\ \A j \in Indices(s) : j \in Indices(q) /\ q[j] = s[j]
      /\ \A j \in Indices(q) \ Indices(s) : \E i \in Indices(d) : q[j] = d[i]
  BY <1>1, <1>6, <1>7, AppendedPlan
<1>9. From(p, q)
  BY <1>1, <1>4, <1>7, <1>8 DEF From
<1> QED
  BY <1>8, <1>9 DEF Written, q

LEMMA WaiveWrites ==
    ASSUME NEW p \in Copies, p \in Seq(PlanEntry), NEW key, Named(p, key) # {},
           find_entry(p, key).contested # {}, NEW q,
           q = set_entry(p, key, [i \in Named(p, key) |-> [p[i] EXCEPT !.status = "waived",
                                                                       !.waived = TRUE]])
    PROVE  Written(q) /\ q \in Seq(PlanEntry)
<1> DEFINE new == [i \in Named(p, key) |-> [p[i] EXCEPT !.status = "waived", !.waived = TRUE]]
<1>1. ASSUME NEW i \in Named(p, key) PROVE new[i] \in PlanEntry /\ Changes(p, i, new[i])
  <2>1. p[i] \in PlanEntry
    BY PlanIndices DEF Named
  <2>2. new[i] = [p[i] EXCEPT !.status = "waived", !.waived = TRUE]
    OBVIOUS
  <2>3. new[i] \in PlanEntry
    BY <2>1, <2>2 DEF PlanEntry, PLAN_STATUSES
  <2>4. Untouched(p, i)
    BY FoundUntouched
  <2> HIDE DEF new
  <2> QED
    BY <2>2, <2>3, <2>4 DEF Changes, Waives
<1> HIDE DEF new
<1>2. q = set_entry(p, key, new)
  BY DEF new
<1> QED
  BY <1>1, <1>2, SetWrites

LEMMA DropWrites ==
    ASSUME NEW p \in Copies, p \in Seq(PlanEntry), NEW key, NEW q,
           q = set_entry(p, key, [i \in Named(p, key) |-> [p[i] EXCEPT !.status = "dropped"]])
    PROVE  Written(q) /\ q \in Seq(PlanEntry)
<1> DEFINE new == [i \in Named(p, key) |-> [p[i] EXCEPT !.status = "dropped"]]
<1>1. ASSUME NEW i \in Named(p, key) PROVE new[i] \in PlanEntry /\ Changes(p, i, new[i])
  <2>1. p[i] \in PlanEntry
    BY PlanIndices DEF Named
  <2>2. new[i] = [p[i] EXCEPT !.status = "dropped"]
    OBVIOUS
  <2>3. new[i] \in PlanEntry
    BY <2>1, <2>2 DEF PlanEntry, PLAN_STATUSES
  <2> HIDE DEF new
  <2> QED
    BY <2>2, <2>3 DEF Changes, Drops
<1> HIDE DEF new
<1>2. q = set_entry(p, key, new)
  BY DEF new
<1> QED
  BY <1>1, <1>2, SetWrites

\* A plan of entries each of which is as it was or has become another.
LEMMA StepWrites ==
    ASSUME NEW p \in Copies, p \in Seq(PlanEntry), NEW q, q = [i \in Indices(p) |-> q[i]],
           \A i \in Indices(p) : q[i] \in PlanEntry /\ Changes(p, i, q[i])
    PROVE  Written(q) /\ q \in Seq(PlanEntry)
<1>1. q \in Seq(PlanEntry) /\ Indices(q) = Indices(p)
  BY MappedPlan
<1>2. From(p, q)
  BY <1>1 DEF From
<1> QED
  BY <1>1, <1>2 DEF Written

\* draft verify, with its verdicts on the ready entries.
LEMMA VerifyWrites ==
    ASSUME NEW t \in Terminals, NEW passed, verify_plan(t, passed),
           NEW p \in Copies, p \in Seq(PlanEntry), p = terminal[t].plan,
           NEW q, q = plan'
    PROVE  Written(q) /\ q \in Seq(PlanEntry)
<1> DEFINE ready == ReadyIn(p)
           judged(i) == {j \in ready : Of(p[j]).key = Of(p[i]).key}
           last(i) == Nth(judged(i), PlanOrder(p), Cardinality(judged(i)))
           v(i) == IF last(i) \in passed THEN "admitted" ELSE "refused"
           s(i) == IF judged(i) \cap passed # {} THEN "verified" ELSE p[i].status
<1>1. /\ q = [i \in Indices(p) |->
                 IF judged(i) = {} THEN p[i]
                 ELSE [p[i] EXCEPT !.verification = IF last(i) \in passed THEN "admitted" ELSE "refused",
                                   !.status = IF judged(i) \cap passed # {} THEN "verified" ELSE @]]
      /\ admitted' = admitted \cup {Of(p[i]).key : i \in passed}
  BY Zenon DEF verify_plan
<1>2. ASSUME NEW i \in Indices(p), judged(i) # {}
      PROVE  /\ last(i) \in judged(i)
             /\ q[i] = [p[i] EXCEPT !.verification = v(i), !.status = s(i)]
  <2>1. judged(i) \in SUBSET Indices(p)
    BY DEF ReadyIn
  <2>2. IsFiniteSet(judged(i)) /\ Cardinality(judged(i)) \in Nat /\ Cardinality(judged(i)) # 0
    <3>1. IsFiniteSet(Indices(p))
      BY PlanIndices
    <3>2. IsFiniteSet(judged(i))
      BY <2>1, <3>1, FS_Subset
    <3> HIDE DEF judged
    <3> QED
      BY <1>2, <3>2, FS_CardinalityType, FS_EmptySet
  <2>3. Orders(PlanOrder(p), judged(i))
    <3>1. [k \in Indices(p) |-> ListOf(p[k].carve)] \in [Indices(p) -> Nat]
      BY PlanIndices, EntryFields, Ranks
    <3> HIDE DEF judged
    <3> QED
      BY <2>1, <3>1, SortedOrders DEF PlanOrder
  <2>4. last(i) \in judged(i)
    <3> HIDE DEF judged
    <3> QED
      BY <2>2, <2>3, NthIn
  <2>5. q[i] = [p[i] EXCEPT !.verification = v(i), !.status = s(i)]
    BY <1>1, <1>2
  <2> QED
    BY <2>4, <2>5
<1>3. ASSUME NEW i \in Indices(p)
      PROVE  q[i] \in PlanEntry /\ Changes(p, i, q[i])
  <2>1. p[i] \in PlanEntry
    BY PlanIndices
  <2>2. CASE judged(i) = {}
    <3>1. q[i] = p[i]
      BY <1>1, <2>2
    <3> QED
      BY <2>1, <3>1 DEF Changes
  <2>3. CASE judged(i) # {}
    <3>1. /\ last(i) \in Indices(p) /\ Of(p[last(i)]).key = Of(p[i]).key /\ ~ p[last(i)].blocked
      BY <1>2, <2>3 DEF ReadyIn, Ready
    <3>2. Untouched(p, i)
      BY <3>1, TwinUntouched
    <3>3. v(i) = "admitted" => Of(p[i]).key \in admitted'
      <4>1. v(i) = "admitted" => last(i) \in passed
        OBVIOUS
      <4>2. admitted' = admitted \cup {Of(p[k]).key : k \in passed}
        BY <1>1
      <4> HIDE DEF v, last
      <4> QED
        BY <3>1, <4>1, <4>2
    <3>4. q[i] = [p[i] EXCEPT !.verification = v(i), !.status = s(i)]
      BY <1>2, <2>3
    <3>5. v(i) \in {"admitted", "refused"} /\ s(i) \in {"verified", p[i].status}
      OBVIOUS
    <3> HIDE DEF v, s
    <3>6. q[i] \in PlanEntry
      BY <2>1, <3>4, <3>5 DEF PlanEntry, PLAN_STATUSES
    <3>7. Verifies(p, i, q[i])
      BY <3>2, <3>3, <3>4, <3>5 DEF Verifies
    <3> QED
      BY <3>6, <3>7 DEF Changes
  <2> QED
    BY <2>2, <2>3
<1>4. q = [i \in Indices(p) |-> q[i]]
  BY <1>1
<1> QED
  BY <1>3, <1>4, StepWrites

\* What a mint takes up: entries of the plan that nothing holds back, in the order of the mint.
LEMMA MintItems ==
    ASSUME NEW p \in Seq(PlanEntry)
    PROVE  /\ mint_items(p) \in Seq(PlanEntry)
           /\ \A n \in Indices(mint_items(p)) :
                 \E i \in Indices(p) : Mintable(p[i]) /\ mint_items(p)[n] = p[i]
           /\ \A m, n \in Indices(mint_items(p)) :
                 m < n => MintRank(mint_items(p)[m].carve) <= MintRank(mint_items(p)[n].carve)
<1> DEFINE S == MintableIn(p)
           rank == [i \in Indices(p) |-> MintRank(p[i].carve)]
<1>1. S \in SUBSET Indices(p) /\ \A i \in S : Mintable(p[i])
  BY DEF MintableIn
<1>2. rank \in [Indices(p) -> Nat] /\ \A i \in Indices(p) : rank[i] = MintRank(p[i].carve)
  BY PlanIndices, EntryFields, Ranks
<1>3. MintOrder(p) = Sorted(p, rank)
  BY DEF MintOrder
<1> HIDE DEF S, rank
<1>4. /\ Orders(MintOrder(p), S)
      /\ \A i, j \in S : rank[i] < rank[j] => <<i, j>> \in MintOrder(p)
  BY <1>1, <1>2, <1>3, SortedOrders
<1> DEFINE q == Pick(p, S, MintOrder(p))
           at(n) == Nth(S, MintOrder(p), n)
<1>5. /\ q \in Seq(PlanEntry)
      /\ \A n \in Indices(q) : at(n) \in S /\ q[n] = p[at(n)]
      /\ \A m, n \in Indices(q) : m < n => <<at(n), at(m)>> \notin MintOrder(p)
  BY <1>1, <1>4, Picked
<1> HIDE DEF q, at
<1>6. \A n \in Indices(q) : \E i \in Indices(p) : Mintable(p[i]) /\ q[n] = p[i]
  BY <1>1, <1>5
<1>7. ASSUME NEW m \in Indices(q), NEW n \in Indices(q), m < n
      PROVE  MintRank(q[m].carve) <= MintRank(q[n].carve)
  <2>1. ~ rank[at(n)] < rank[at(m)]
    BY <1>4, <1>5, <1>7
  <2>2. /\ rank[at(n)] = MintRank(q[n].carve) /\ rank[at(m)] = MintRank(q[m].carve)
        /\ rank[at(n)] \in Nat /\ rank[at(m)] \in Nat
    BY <1>1, <1>2, <1>5
  <2> QED
    BY <2>1, <2>2
<1>8. q = mint_items(p)
  BY DEF q, S, mint_items
<1> QED
  BY <1>5, <1>6, <1>7, <1>8

\* The end of a mint, with what its landings have reported.
LEMMA MintWrites ==
    ASSUME NEW t \in Terminals, EndMint(t), Minting(t), Grows,
           NEW p \in Copies, p \in Seq(PlanEntry), p = terminal[t].plan,
           NEW q, q = plan'
    PROVE  Written(q) /\ q \in Seq(PlanEntry)
<1> DEFINE items == mint_items(p)
           minted == {minted_keys(p)[n] : n \in {m \in Indices(terminal[t].items) :
                                                     <<m, "landed">> \in terminal[t].landed}}
<1>1. /\ In(t, "minting") /\ terminal[t].items = items
      /\ q = [i \in Indices(p) |-> IF Of(p[i]).key \in minted
                                   THEN [p[i] EXCEPT !.status = "minted"] ELSE p[i]]
  BY DEF EndMint, Minting
<1>2. ASSUME NEW i \in Indices(p), Of(p[i]).key \in minted
      PROVE  \E n \in Indices(items) : /\ <<n, "landed">> \in terminal[t].landed
                                       /\ Of(items[n]).key = Of(p[i]).key
  <2>1. PICK n \in Indices(terminal[t].items) :
                <<n, "landed">> \in terminal[t].landed /\ minted_keys(p)[n] = Of(p[i]).key
    BY <1>2
  <2>2. minted_keys(p)[n] = Of(items[n]).key
    BY <1>1, <2>1 DEF minted_keys, KeysOf
  <2> QED
    BY <1>1, <2>1, <2>2
<1> HIDE DEF minted
<1>3. ASSUME NEW i \in Indices(p)
      PROVE  q[i] \in PlanEntry /\ Changes(p, i, q[i])
  <2>1. p[i] \in PlanEntry
    BY PlanIndices
  <2>2. CASE Of(p[i]).key \notin minted
    <3>1. q[i] = p[i]
      BY <1>1, <2>2
    <3> QED
      BY <2>1, <3>1 DEF Changes
  <2>3. CASE Of(p[i]).key \in minted
    <3>1. PICK n \in Indices(items) : <<n, "landed">> \in terminal[t].landed
                                      /\ Of(items[n]).key = Of(p[i]).key
      BY <1>2, <2>3
    <3>2. PICK k \in Indices(p) : Mintable(p[k]) /\ items[n] = p[k]
      BY <3>1, MintItems
    <3>3. Untouched(p, i)
      BY <3>1, <3>2, TwinUntouched DEF Mintable
    <3>4. OneIdEach /\ LandedInv => Of(p[i]).id \in reported'
      <4>1. LandedInv => Of(items[n]).id \in reported
        BY <1>1, <3>1 DEF LandedInv, Reporting
      <4>2. OneIdEach => Of(items[n]).id = Of(p[i]).id
        BY <2>1, <3>1, <3>2, PlanIndices, EntryFields DEF OneIdEach, Of
      <4> QED
        BY <4>1, <4>2 DEF Grows
    <3>5. q[i] = [p[i] EXCEPT !.status = "minted"]
      BY <1>1, <2>3
    <3>6. q[i] \in PlanEntry
      BY <2>1, <3>5 DEF PlanEntry, PLAN_STATUSES
    <3> QED
      BY <3>3, <3>4, <3>5, <3>6 DEF Changes, Mints
  <2> QED
    BY <2>2, <2>3
<1>4. q = [i \in Indices(p) |-> q[i]]
  BY <1>1
<1> QED
  BY <1>3, <1>4, StepWrites

-----------------------------------------------------------------------------
(* A step writes no plan but one a command makes of a copy, or drafts.       *)

LEMMA CopiesTyped ==
    ASSUME CarvingType
    PROVE  /\ \A p \in Copies : p \in Seq(PlanEntry)
           /\ \A t \in Terminals : ~ In(t, "idle") => terminal[t] \in Session /\ terminal[t].plan \in Copies
           /\ plan # NoPlan => plan \in Copies
<1>1. ASSUME NEW t \in Terminals, ~ In(t, "idle")
      PROVE  /\ terminal[t] \in Session /\ terminal[t].plan \in Seq(PlanEntry)
             /\ terminal[t].plan \in Copies
  <2>1. terminal[t] \in Session
    BY <1>1 DEF CarvingType, In, Idle
  <2> QED
    BY <1>1, <2>1 DEF Session, Copies, Holding
<1>2. plan # NoPlan => plan \in Seq(PlanEntry)
  BY DEF CarvingType
<1> QED
  BY <1>1, <1>2 DEF Copies, Holding

LEMMA TurnPlans ==
    ASSUME CarvingType, NEW t \in Terminals, NEW state \in {Idle} \cup Session, Turn(t, state)
    PROVE  /\ terminal' \in [Terminals -> {Idle} \cup Session]
           /\ terminal'[t] = state /\ \A u \in Terminals \ {t} : terminal'[u] = terminal[u]
           /\ \A q \in Copies' : \/ q = plan' /\ plan' # NoPlan
                                 \/ q \in Copies
                                 \/ state # Idle /\ q = state.plan
<1>1. /\ terminal' = [terminal EXCEPT ![t] = state]
      /\ terminal \in [Terminals -> {Idle} \cup Session]
  BY DEF Turn, CarvingType
<1>2. /\ terminal' \in [Terminals -> {Idle} \cup Session]
      /\ terminal'[t] = state /\ \A u \in Terminals \ {t} : terminal'[u] = terminal[u]
  BY <1>1
<1>3. ASSUME NEW u \in Terminals, ~ In(u, "idle")'
      PROVE  terminal'[u].plan \in Copies \/ (state # Idle /\ terminal'[u].plan = state.plan)
  <2>1. CASE u = t
    BY <1>2, <1>3, <2>1 DEF In, Idle
  <2>2. CASE u # t
    BY <1>2, <1>3, <2>2 DEF In, Copies, Holding
  <2> QED
    BY <2>1, <2>2
<1> QED
  BY <1>2, <1>3 DEF Copies, Holding

\* The debates are only added to, so that an id taken stays at most the next one.
LEMMA ResolvingStays ==
    ASSUME CarvingType, CarvingType', Grows,
           NEW u \in Terminals, terminal'[u] = terminal[u], Resolving(u)
    PROVE  Resolving(u)'
<1>1. Len(debates) \in Nat /\ Len(debates') \in Nat /\ Len(debates) <= Len(debates')
  BY DEF CarvingType, Grows
<1> SUFFICES ASSUME In(u, "resolving")' PROVE Resolving(u)'
  BY DEF Resolving
<1>2. /\ terminal[u].taken \in CarveKeys \X (1 .. MaxDebates)
      /\ terminal[u].taken[2] <= Len(debates) + 1
      /\ Debatable(terminal[u].plan, terminal[u].taken[1])
  BY DEF Resolving, In
<1>3. terminal[u].taken[2] \in Nat
  BY <1>2, CarveBoundsAssumption
<1>4. terminal[u].taken[2] <= Len(debates') + 1
  BY <1>1, <1>2, <1>3
<1> QED
  BY <1>2, <1>4 DEF Resolving, Debatable, Named, find_entry

LEMMA KeptTerminals ==
    ASSUME UNCHANGED terminal, NEW q \in Copies'
    PROVE  (q = plan' /\ plan' # NoPlan) \/ q \in Copies
BY DEF Copies, Holding, In

\* A command that lands nothing changes no mint, nor the debate of another terminal.
LEMMA OtherMinting ==
    ASSUME CarvingInv, NEW t \in Terminals, NEW state \in {Idle} \cup Session, Turn(t, state),
           state.pc \notin {"minting", "resolving"}, Grows, CarvingType'
    PROVE  \A u \in Terminals : Minting(u)' /\ Resolving(u)' /\ (Reporting(u) => Reporting(u)')
<1>1. /\ terminal'[t] = state /\ \A u \in Terminals \ {t} : terminal'[u] = terminal[u]
      /\ \A u \in Terminals : Minting(u) /\ Resolving(u)
  BY TurnPlans DEF CarvingInv
<1>2. Minting(t)' /\ Resolving(t)' /\ Reporting(t)'
  BY <1>1 DEF Minting, Resolving, Reporting, In
<1>3. \A u \in Terminals \ {t} : Minting(u)' /\ (Reporting(u) => Reporting(u)')
  BY <1>1 DEF Minting, Reporting, In, Grows
<1>4. \A u \in Terminals \ {t} : Resolving(u)'
  BY <1>1, ResolvingStays DEF CarvingInv
<1> QED
  BY <1>2, <1>3, <1>4

Stepped ==
    /\ CarvingType' /\ Grows
    /\ \A q \in Copies' : q \in Copies \/ Written(q)
    /\ \A t \in Terminals : Minting(t)' /\ Resolving(t)' /\ (Reporting(t) => Reporting(t)')

LEMMA LoadStep ==
    ASSUME CarvingInv, NEW t \in Terminals, NEW pc \in Pcs \ {"resolving"}, NEW items, plan # NoPlan,
           items \in Seq(PlanEntry), pc = "minting" => items = mint_items(plan),
           Load(t, pc, items)
    PROVE  Stepped
<1> DEFINE state == [pc |-> pc, plan |-> plan, items |-> items, landed |-> {}, taken |-> <<>>]
<1>1. /\ Turn(t, state) /\ UNCHANGED <<plan, debates, lost, admitted>> /\ UNCHANGED <<disk, reported>>
  BY DEF Load, StoreUnchanged, debateVars
<1>2. CarvingType /\ plan \in Seq(PlanEntry) /\ plan \in Copies
  BY CopiesTyped DEF CarvingInv
<1>3. state \in Session
  BY <1>2 DEF Session
<1>4. state.pc = pc /\ state.plan = plan /\ state.items = items /\ state.landed = {}
  OBVIOUS
<1> HIDE DEF state
<1>5. /\ terminal' \in [Terminals -> {Idle} \cup Session]
      /\ terminal'[t] = state /\ \A u \in Terminals \ {t} : terminal'[u] = terminal[u]
      /\ \A q \in Copies' : q = plan' \/ q \in Copies \/ q = state.plan
  BY <1>1, <1>2, <1>3, TurnPlans
<1>6. CarvingType' /\ Grows
  BY <1>1, <1>2, <1>5 DEF CarvingType, Grows, OnFile
<1>7. \A q \in Copies' : q \in Copies
  BY <1>1, <1>2, <1>4, <1>5
<1>8. Minting(t)' /\ Reporting(t)' /\ Resolving(t)'
  BY <1>4, <1>5 DEF Minting, Reporting, Resolving, In
<1>9. \A u \in Terminals \ {t} : Minting(u)' /\ (Reporting(u) => Reporting(u)')
  BY <1>5, <1>6 DEF Minting, Reporting, In, CarvingInv, Grows
<1>10. \A u \in Terminals \ {t} : Resolving(u)'
  BY <1>2, <1>5, <1>6, ResolvingStays DEF CarvingInv
<1> QED
  BY <1>6, <1>7, <1>8, <1>9, <1>10 DEF Stepped

\* A command that changes the plan and ends, or that runs in no terminal of its own.
LEMMA EndStep ==
    ASSUME CarvingInv, NEW t \in Terminals, Turn(t, Idle), Grows, UNCHANGED debates,
           plan' = NoPlan \/ plan' \in Seq(PlanEntry),
           \A q \in Copies' : q = plan' => q \in Copies \/ Written(q)
    PROVE  Stepped
<1>1. CarvingType
  BY DEF CarvingInv
<1>2. Idle \in {Idle} \cup Session /\ Idle.pc \notin {"minting", "resolving"}
  BY DEF Idle
<1>3. /\ terminal' \in [Terminals -> {Idle} \cup Session]
      /\ \A q \in Copies' : q = plan' \/ q \in Copies
  BY <1>1, <1>2, TurnPlans
<1>4. CarvingType'
  BY <1>1, <1>3 DEF CarvingType
<1>5. \A u \in Terminals : Minting(u)' /\ Resolving(u)' /\ (Reporting(u) => Reporting(u)')
  BY <1>2, <1>4, OtherMinting
<1> QED
  BY <1>3, <1>4, <1>5 DEF Stepped

LEMMA RulingStep ==
    ASSUME CarvingInv, UNCHANGED <<terminal, debates>>, Grows,
           plan' = NoPlan \/ plan' \in Seq(PlanEntry),
           \A q \in Copies' : q = plan' => q \in Copies \/ Written(q)
    PROVE  Stepped
<1>1. CarvingType'
  BY DEF CarvingInv, CarvingType
<1>2. \A u \in Terminals : Minting(u)' /\ Resolving(u)' /\ (Reporting(u) => Reporting(u)')
  <2>1. \A u \in Terminals : Minting(u)' /\ (Reporting(u) => Reporting(u)')
    BY DEF CarvingInv, Minting, Reporting, In, Grows
  <2>2. \A u \in Terminals : Resolving(u)'
    BY <1>1, ResolvingStays DEF CarvingInv
  <2> QED
    BY <2>1, <2>2
<1>3. \A q \in Copies' : q \in Copies \/ Written(q)
  BY KeptTerminals
<1> QED
  BY <1>1, <1>2, <1>3 DEF Stepped

\* A debate takes the next id.
LEMMA TakeStep ==
    ASSUME CarvingInv, NEW t \in Terminals, NEW key \in CarveKeys, run_debate(t, key),
           NEW id, id = Len(debates) + 1
    PROVE  Stepped
<1> DEFINE state == [terminal[t] EXCEPT !.pc = "resolving", !.taken = <<key, id>>]
<1>1. /\ In(t, "debating") /\ Debatable(terminal[t].plan, key) /\ id <= MaxDebates
      /\ UNCHANGED <<plan, debates, lost, admitted, disk, reported>> /\ Turn(t, state)
  BY DEF run_debate, StoreUnchanged, next_debate_id, debateVars
<1>2. CarvingType /\ terminal[t] \in Session /\ terminal[t].plan \in Copies
  BY <1>1, CopiesTyped DEF CarvingInv, In
<1>3. id \in 1 .. MaxDebates /\ id \in Nat /\ id <= Len(debates) + 1
  BY <1>1, <1>2, CarveBoundsAssumption DEF CarvingType
<1>4. /\ state \in Session /\ state.pc = "resolving" /\ state.plan = terminal[t].plan
      /\ state.taken = <<key, id>>
  BY <1>2, <1>3 DEF Session, Pcs
<1> HIDE DEF state
<1>5. Grows
  BY <1>1 DEF Grows, OnFile
<1>6. /\ terminal' \in [Terminals -> {Idle} \cup Session]
      /\ terminal'[t] = state /\ \A u \in Terminals \ {t} : terminal'[u] = terminal[u]
      /\ \A q \in Copies' : (q = plan' /\ plan' # NoPlan) \/ q \in Copies \/ q = state.plan
  BY <1>1, <1>2, <1>4, TurnPlans
<1>7. \A q \in Copies' : q \in Copies
  BY <1>1, <1>2, <1>4, <1>6 DEF Copies
<1>8. CarvingType'
  BY <1>1, <1>2, <1>6 DEF CarvingType
<1>9. Minting(t)' /\ Reporting(t)'
  BY <1>4, <1>6 DEF Minting, Reporting, In
<1>10. Resolving(t)'
  <2>1. /\ (terminal[t].taken)' = <<key, id>> /\ (terminal[t].plan)' = terminal[t].plan
        /\ debates' = debates
    BY <1>1, <1>4, <1>6
  <2>2. <<key, id>> \in CarveKeys \X (1 .. MaxDebates) /\ <<key, id>>[1] = key /\ <<key, id>>[2] = id
    BY <1>3
  <2>3. Debatable(terminal[t].plan, key)'
    BY <1>1, <2>1 DEF Debatable, Named, find_entry
  <2> QED
    BY <1>3, <2>1, <2>2, <2>3 DEF Resolving
<1>11. \A u \in Terminals \ {t} : Minting(u)' /\ (Reporting(u) => Reporting(u)')
  BY <1>5, <1>6 DEF Minting, Reporting, In, CarvingInv, Grows
<1>12. \A u \in Terminals \ {t} : Resolving(u)'
  BY <1>2, <1>5, <1>6, <1>8, ResolvingStays DEF CarvingInv
<1> QED
  BY <1>5, <1>7, <1>8, <1>9, <1>10, <1>11, <1>12 DEF Stepped

\* A resolution names carves of the catalogue.
LEMMA NamedKeys ==
    ASSUME NEW p, NEW key, NEW id, NEW r \in Resolutions(p, key, id)
    PROVE  r.named \in SUBSET CarveKeys
<1>1. \A into \in Splits : \A i \in Indices(into) : into[i] \in Carves
  <2> SUFFICES ASSUME NEW into \in Splits PROVE \A i \in Indices(into) : into[i] \in Carves
    OBVIOUS
  <2>1. into \in Seq({c \in Carves : Catalogue[c].list \in {"nodes"}})
    BY OutputsAssumption
  <2> QED
    BY <2>1, PlanIndices
<1> QED
  BY <1>1 DEF Resolutions, CarveKeys

\* A record saved under an id that was taken, over another's or after the last.
LEMMA RecordSaved ==
    ASSUME CarvingType, NEW id \in 1 .. MaxDebates, id <= Len(debates) + 1,
           NEW record \in DebateRecord,
           debates' = [i \in Indices(debates) \cup {id} |-> IF i = id THEN record ELSE debates[i]],
           lost' = IF id \in Indices(debates) THEN lost \cup {<<id, debates[id]>>} ELSE lost
    PROVE  /\ debates' \in Seq(DebateRecord) /\ Len(debates) <= Len(debates')
           /\ Len(debates') <= MaxDebates /\ id \in 1 .. Len(debates') /\ record \in OnFile(id)'
           /\ \A i \in 1 .. Len(debates) : OnFile(i) \subseteq OnFile(i)'
<1> DEFINE n == IF id = Len(debates) + 1 THEN id ELSE Len(debates)
<1>1. /\ debates \in Seq(DebateRecord) /\ Len(debates) \in Nat /\ Len(debates) <= MaxDebates
      /\ id \in Nat /\ 1 <= id /\ id <= MaxDebates /\ MaxDebates \in Nat
  BY CarveBoundsAssumption DEF CarvingType
<1>2. n \in Nat /\ Len(debates) <= n /\ n <= MaxDebates /\ id \in 1 .. n
  BY <1>1
<1>3. Indices(debates) \cup {id} = 1 .. n
  BY <1>1 DEF Indices
<1>4. ASSUME NEW i \in 1 .. n, i # id PROVE debates[i] \in DebateRecord
  <2>1. i \in 1 .. Len(debates)
    BY <1>1, <1>4
  <2> QED
    BY <1>1, <2>1
<1> HIDE DEF n
<1>5. debates' = [i \in 1 .. n |-> IF i = id THEN record ELSE debates[i]]
  BY <1>3
<1>6. debates' \in [1 .. n -> DebateRecord]
  BY <1>4, <1>5
<1>7. debates' \in Seq(DebateRecord) /\ Len(debates') = n
  <2>1. \A f \in [1 .. n -> DebateRecord] : f \in Seq(DebateRecord) /\ Len(f) = n
    BY <1>2
  <2> QED
    BY <1>6, <2>1
<1>8. debates'[id] = record /\ \A i \in 1 .. n : i # id => debates'[i] = debates[i]
  BY <1>2, <1>5
<1>9. ASSUME NEW i \in 1 .. Len(debates), NEW d \in OnFile(i)
      PROVE  d \in OnFile(i)'
  <2>1. lost \subseteq lost'
    OBVIOUS
  <2>2. CASE d = debates[i] /\ i # id
    <3>1. i \in 1 .. n
      BY <1>1, <1>2
    <3> QED
      BY <1>8, <2>2, <3>1 DEF OnFile
  <2>3. CASE d = debates[i] /\ i = id
    <3>1. <<i, d>> \in lost'
      BY <2>3 DEF Indices
    <3>2. d = <<i, d>>[2] /\ <<i, d>>[1] = i
      OBVIOUS
    <3> QED
      BY <3>1, <3>2 DEF OnFile
  <2>4. CASE \E x \in lost : x[1] = i /\ d = x[2]
    BY <2>1, <2>4 DEF OnFile
  <2> QED
    BY <2>2, <2>3, <2>4 DEF OnFile
<1>10. record \in OnFile(id)'
  BY <1>8 DEF OnFile
<1> QED
  BY <1>2, <1>7, <1>9, <1>10

\* A debate's record is saved, and its resolution made of the plan.
LEMMA DebateStep ==
    ASSUME CarvingInv, NEW t \in Terminals, save_debate(t),
           NEW p, p = terminal[t].plan,
           NEW key, key = terminal[t].taken[1], NEW id, id = terminal[t].taken[2]
    PROVE  Stepped
<1>1. /\ In(t, "resolving") /\ UNCHANGED <<plan, admitted, disk, reported>>
      /\ \E r \in Resolutions(p, key, id) :
            /\ debates' = [i \in Indices(debates) \cup {id} |->
                              IF i = id THEN [target |-> key, named |-> r.named] ELSE debates[i]]
            /\ lost' = IF id \in Indices(debates) THEN lost \cup {<<id, debates[id]>>} ELSE lost
            /\ Turn(t, [terminal[t] EXCEPT !.plan = r.to, !.pc = "debated", !.taken = <<>>])
  BY DEF save_debate, StoreUnchanged
<1>2. CarvingType /\ p \in Seq(PlanEntry) /\ p \in Copies /\ terminal[t] \in Session
  BY <1>1, CopiesTyped DEF CarvingInv, In, Session
<1>3. /\ key \in CarveKeys /\ id \in 1 .. MaxDebates /\ id <= Len(debates) + 1
      /\ Debatable(p, key)
  BY <1>1 DEF CarvingInv, Resolving
<1>4. PICK r \in Resolutions(p, key, id) :
            /\ debates' = [i \in Indices(debates) \cup {id} |->
                              IF i = id THEN [target |-> key, named |-> r.named] ELSE debates[i]]
            /\ lost' = IF id \in Indices(debates) THEN lost \cup {<<id, debates[id]>>} ELSE lost
            /\ Turn(t, [terminal[t] EXCEPT !.plan = r.to, !.pc = "debated", !.taken = <<>>])
  BY <1>1
<1> DEFINE record == [target |-> key, named |-> r.named]
<1>5. record \in DebateRecord /\ record.target = key /\ record.named = r.named
  BY <1>3, <1>4, NamedKeys DEF DebateRecord
<1> HIDE DEF record
<1>6. debates' = [i \in Indices(debates) \cup {id} |-> IF i = id THEN record ELSE debates[i]]
  BY <1>4 DEF record
<1>7. /\ debates' \in Seq(DebateRecord) /\ Len(debates) <= Len(debates')
      /\ Len(debates') <= MaxDebates /\ id \in 1 .. Len(debates') /\ record \in OnFile(id)'
      /\ \A i \in 1 .. Len(debates) : OnFile(i) \subseteq OnFile(i)'
  BY <1>2, <1>3, <1>4, <1>5, <1>6, RecordSaved
<1>8. Grows
  BY <1>1, <1>7 DEF Grows
<1>9. Files(id, key)' /\ id \in 0 .. MaxDebates
  BY <1>3, <1>5, <1>7 DEF Files
<1>10. Written(r.to) /\ r.to \in Seq(PlanEntry)
  <2>1. CASE \E s \in {"debated", "dropped", "proposed"} : r.to = Settle(p, key, id, s)
    BY <1>2, <1>3, <1>9, <2>1, SettleWrites
  <2>2. CASE r.to = Revise(p, key, id) /\ find_entry(p, key).carve \in DOMAIN Revision
    BY <1>2, <1>3, <1>9, <2>2, ReviseWrites
  <2>3. CASE \E into \in Splits : /\ r.to = Split(p, key, id, into)
                                  /\ r.named = {Catalogue[into[i]].key : i \in Indices(into)}
    <3>1. PICK into \in Splits : /\ r.to = Split(p, key, id, into)
                                 /\ r.named = {Catalogue[into[i]].key : i \in Indices(into)}
      BY <2>3
    <3>2. record.named = {Catalogue[into[i]].key : i \in Indices(into)}
      BY <1>5, <3>1
    <3> QED
      BY <1>2, <1>3, <1>7, <1>9, <3>1, <3>2, SplitWrites
  <2> QED
    BY <1>4, <2>1, <2>2, <2>3 DEF Resolutions
<1> DEFINE state == [terminal[t] EXCEPT !.plan = r.to, !.pc = "debated", !.taken = <<>>]
<1>11. state \in Session /\ state.pc = "debated" /\ state.plan = r.to
  BY <1>2, <1>10 DEF Session, Pcs
<1>12. Turn(t, state)
  BY <1>4
<1> HIDE DEF state
<1>13. /\ terminal' \in [Terminals -> {Idle} \cup Session]
       /\ \A q \in Copies' : (q = plan' /\ plan' # NoPlan) \/ q \in Copies \/ q = r.to
  BY <1>2, <1>11, <1>12, TurnPlans
<1>14. \A q \in Copies' : q \in Copies \/ Written(q)
  BY <1>1, <1>10, <1>13 DEF Copies
<1>15. CarvingType'
  BY <1>1, <1>2, <1>7, <1>13 DEF CarvingType
<1>16. \A u \in Terminals : Minting(u)' /\ Resolving(u)' /\ (Reporting(u) => Reporting(u)')
  BY <1>8, <1>11, <1>12, <1>15, OtherMinting
<1> QED
  BY <1>8, <1>14, <1>15, <1>16 DEF Stepped

LEMMA MintItemStep ==
    ASSUME CarvingInv, NEW t \in Terminals, NEW n \in 1 .. MaxEntries,
           NEW result \in {"landed", "refused"}, MintItem(t, n, result)
    PROVE  Stepped
<1> DEFINE state == [terminal[t] EXCEPT !.landed = @ \cup {<<n, result>>}]
           id == Of(terminal[t].items[n]).id
<1>1. /\ In(t, "minting") /\ n \in Indices(terminal[t].items) /\ Turn(t, state)
      /\ UNCHANGED <<plan, debates, lost, admitted>>
      /\ DOMAIN disk' = DOMAIN disk \cup {id}
      /\ reported' = IF result = "landed" THEN reported \cup {id} ELSE reported
  BY DEF MintItem, debateVars
<1>2. /\ CarvingType /\ terminal[t] \in Session /\ terminal[t].plan \in Copies /\ Minting(t)
  BY <1>1, CopiesTyped DEF CarvingInv, In
<1>3. n \in Nat
  BY <1>1, <1>2, PlanIndices DEF Session
<1>4. /\ state \in Session /\ state.pc = "minting" /\ state.plan = terminal[t].plan
      /\ state.items = terminal[t].items
      /\ state.landed \in SUBSET (Nat \X {"landed", "refused"})
  BY <1>1, <1>2, <1>3 DEF Session, In
<1> HIDE DEF state, id
<1>5. Grows
  BY <1>1 DEF Grows, OnFile
<1>6. /\ terminal' \in [Terminals -> {Idle} \cup Session]
      /\ terminal'[t] = state /\ \A u \in Terminals \ {t} : terminal'[u] = terminal[u]
      /\ \A q \in Copies' : (q = plan' /\ plan' # NoPlan) \/ q \in Copies \/ q = state.plan
  BY <1>1, <1>2, <1>4, TurnPlans
<1>7. \A q \in Copies' : q \in Copies
  BY <1>1, <1>2, <1>4, <1>6 DEF Copies
<1>8. CarvingType'
  BY <1>1, <1>2, <1>6 DEF CarvingType
<1>9. Minting(t)' /\ Resolving(t)'
  BY <1>1, <1>2, <1>4, <1>6 DEF Minting, Resolving, In
<1>10. \A u \in Terminals \ {t} : Minting(u)' /\ (Reporting(u) => Reporting(u)')
  BY <1>5, <1>6 DEF Minting, Reporting, In, CarvingInv, Grows
<1>11. Reporting(t) => Reporting(t)'
  <2> SUFFICES ASSUME Reporting(t), NEW m \in Indices(state.items), <<m, "landed">> \in state.landed
               PROVE  Of(state.items[m]).id \in reported'
    BY <1>6 DEF Reporting, In
  <2>1. state.landed = terminal[t].landed \cup {<<n, result>>}
    BY <1>2 DEF state, Session
  <2>2. CASE <<m, "landed">> \in terminal[t].landed
    BY <1>1, <1>4, <1>5, <2>2 DEF Reporting, Grows
  <2>3. CASE <<m, "landed">> = <<n, result>>
    BY <1>1, <1>4, <2>3 DEF id
  <2> QED
    BY <2>1, <2>2, <2>3
<1>12. \A u \in Terminals \ {t} : Resolving(u)'
  BY <1>2, <1>5, <1>6, <1>8, ResolvingStays DEF CarvingInv
<1> QED
  BY <1>5, <1>7, <1>8, <1>9, <1>10, <1>11, <1>12 DEF Stepped

LEMMA SaveStep ==
    ASSUME CarvingInv, NEW t \in Terminals, SaveDebated(t)
    PROVE  Stepped
<1> DEFINE state == [terminal[t] EXCEPT !.pc = "debating"]
<1>1. /\ In(t, "debated") /\ plan' = terminal[t].plan /\ Turn(t, state)
      /\ UNCHANGED <<debates, lost, admitted, disk, reported>>
  BY DEF SaveDebated, StoreUnchanged, debateVars
<1>2. CarvingType /\ terminal[t] \in Session /\ terminal[t].plan \in Copies
  BY <1>1, CopiesTyped DEF CarvingInv, In
<1>3. state \in Session /\ state.pc = "debating" /\ state.plan = terminal[t].plan
  BY <1>2 DEF Session, Pcs
<1> HIDE DEF state
<1>4. Grows
  BY <1>1 DEF Grows, OnFile
<1>5. /\ terminal' \in [Terminals -> {Idle} \cup Session]
      /\ \A q \in Copies' : q = plan' \/ q \in Copies \/ q = state.plan
  BY <1>1, <1>2, <1>3, TurnPlans
<1>6. \A q \in Copies' : q \in Copies
  BY <1>1, <1>2, <1>3, <1>5
<1>7. CarvingType'
  BY <1>1, <1>2, <1>5, CopiesTyped DEF CarvingType
<1>8. \A u \in Terminals : Minting(u)' /\ Resolving(u)' /\ (Reporting(u) => Reporting(u)')
  BY <1>1, <1>3, <1>4, <1>7, OtherMinting
<1> QED
  BY <1>4, <1>6, <1>7, <1>8 DEF Stepped

\* What a step of Carving is: it writes plans made of copies, and takes nothing back.
LEMMA CarvingSteps ==
    ASSUME CarvingInv, [CarvingNext]_carvingVars
    PROVE  Stepped
<1> USE DEF StoreUnchanged, debateVars
<1>0. /\ CarvingType /\ \A p \in Copies : p \in Seq(PlanEntry)
      /\ \A t \in Terminals : ~ In(t, "idle") => terminal[t] \in Session /\ terminal[t].plan \in Copies
      /\ plan # NoPlan => plan \in Copies
      /\ plan = NoPlan \/ plan \in Seq(PlanEntry)
  BY CopiesTyped DEF CarvingInv, CarvingType
<1>1. ASSUME NEW t \in Terminals, StartEdging(t) \/ StartDebating(t) \/ StartVerifying(t)
      PROVE  Stepped
  <2>1. plan # NoPlan /\ \E pc \in Pcs \ {"minting", "resolving"} : Load(t, pc, <<>>)
    BY <1>1 DEF StartEdging, StartDebating, StartVerifying, Pcs
  <2>2. PICK pc \in Pcs \ {"minting", "resolving"} : Load(t, pc, <<>>)
    BY <2>1
  <2>3. <<>> \in Seq(PlanEntry)
    OBVIOUS
  <2> QED
    BY <2>1, <2>2, <2>3, LoadStep
<1>2. ASSUME NEW t \in Terminals, StartMint(t)
      PROVE  Stepped
  <2>1. plan # NoPlan /\ Load(t, "minting", mint_items(plan)) /\ "minting" \in Pcs \ {"resolving"}
    BY <1>2 DEF StartMint, Pcs
  <2>2. mint_items(plan) \in Seq(PlanEntry)
    BY <1>0, <2>1, MintItems
  <2> QED
    BY <2>1, <2>2, LoadStep
<1>3. ASSUME NEW t \in Terminals, Stop(t)
      PROVE  Stepped
  <2>1. /\ Turn(t, Idle) /\ UNCHANGED <<plan, debates, lost, admitted, disk, reported>>
    BY <1>3 DEF Stop
  <2>2. Grows
    BY <2>1 DEF Grows, OnFile
  <2>3. \A q \in Copies' : q = plan' => q \in Copies
    BY <1>0, <2>1, TurnPlans
  <2> QED
    BY <1>0, <2>1, <2>2, <2>3, EndStep
<1>4. ASSUME NEW t \in Terminals, run_ontologist(t)
      PROVE  Stepped
  <2>1. /\ UNCHANGED <<terminal, debates, lost, admitted, disk, reported>>
        /\ \E out \in NodeOuts : \E kept \in trim_to_cap(out, {"nodes"}) :
              plan' = mark_contested(block_entries(kept, NodeMisfits(kept)))
    BY <1>4 DEF run_ontologist
  <2>2. Grows
    BY <2>1 DEF Grows, OnFile
  <2>3. ASSUME NEW q, q = plan'
        PROVE  Written(q) /\ q \in Seq(PlanEntry)
    BY <2>1, <2>2, <2>3, AtomizeWrites
  <2>4. plan' \in Seq(PlanEntry) /\ \A q \in Copies' : q = plan' => Written(q)
    BY <2>3
  <2> QED
    BY <2>1, <2>2, <2>4, RulingStep
<1>5. ASSUME NEW t \in Terminals, run_edge_drafter(t)
      PROVE  Stepped
  <2>1. In(t, "edging") /\ Turn(t, Idle) /\ UNCHANGED <<debates, lost, admitted, disk, reported>>
    BY <1>5 DEF run_edge_drafter
  <2>2. Grows
    BY <2>1 DEF Grows, OnFile
  <2>3. PICK p : p = terminal[t].plan
    OBVIOUS
  <2>4. p \in Copies /\ p \in Seq(PlanEntry)
    BY <1>0, <2>1, <2>3 DEF In
  <2>5. PICK out \in EdgeOuts : \E kept \in trim_to_cap(out, {"edges", "quality_edges"}) :
              /\ EdgesClean(p, kept)
              /\ plan' = mark_contested(p \o block_entries(kept, EdgeMisfits(p, kept)))
    BY <1>5, <2>3, Zenon DEF run_edge_drafter
  <2>6. PICK kept \in trim_to_cap(out, {"edges", "quality_edges"}) :
              /\ EdgesClean(p, kept)
              /\ plan' = mark_contested(p \o block_entries(kept, EdgeMisfits(p, kept)))
    BY <2>5
  <2>7. ASSUME NEW q, q = plan'
        PROVE  Written(q) /\ q \in Seq(PlanEntry)
    <3>1. q = mark_contested(p \o block_entries(kept, EdgeMisfits(p, kept)))
      BY <2>6, <2>7
    <3> QED
      BY <2>2, <2>4, <2>6, <3>1, EdgingWrites
  <2>8. plan' \in Seq(PlanEntry) /\ \A q \in Copies' : q = plan' => Written(q)
    BY <2>7
  <2> QED
    BY <2>1, <2>2, <2>8, EndStep
<1>6. ASSUME NEW t \in Terminals, NEW key \in CarveKeys, run_debate(t, key)
      PROVE  Stepped
  <2>1. PICK id : id = Len(debates) + 1
    OBVIOUS
  <2> QED
    BY <1>6, <2>1, TakeStep
<1>7. ASSUME NEW t \in Terminals, save_debate(t) \/ SaveDebated(t)
      PROVE  Stepped
  <2>1. PICK p, key, id : p = terminal[t].plan /\ key = terminal[t].taken[1] /\ id = terminal[t].taken[2]
    OBVIOUS
  <2> QED
    BY <1>7, <2>1, DebateStep, SaveStep
<1>8. ASSUME NEW t \in Terminals, NEW passed, verify_plan(t, passed)
      PROVE  Stepped
  <2>1. /\ In(t, "verifying") /\ Turn(t, Idle) /\ UNCHANGED <<debates, lost, disk, reported>>
        /\ admitted \subseteq admitted'
    BY <1>8 DEF verify_plan
  <2>2. Grows
    BY <2>1 DEF Grows, OnFile
  <2>3. PICK p : p = terminal[t].plan
    OBVIOUS
  <2>4. p \in Copies /\ p \in Seq(PlanEntry)
    BY <1>0, <2>1, <2>3 DEF In
  <2>5. ASSUME NEW q, q = plan' PROVE Written(q) /\ q \in Seq(PlanEntry)
    BY <1>8, <2>3, <2>4, <2>5, VerifyWrites
  <2>6. plan' \in Seq(PlanEntry) /\ \A q \in Copies' : q = plan' => Written(q)
    BY <2>5
  <2> QED
    BY <2>1, <2>2, <2>6, EndStep
<1>9. ASSUME NEW t \in Terminals, EndMint(t)
      PROVE  Stepped
  <2>1. /\ In(t, "minting") /\ Turn(t, Idle) /\ UNCHANGED <<debates, lost, admitted, disk, reported>>
    BY <1>9 DEF EndMint
  <2>2. Grows
    BY <2>1 DEF Grows, OnFile
  <2>3. PICK p : p = terminal[t].plan
    OBVIOUS
  <2>4. p \in Copies /\ p \in Seq(PlanEntry) /\ Minting(t)
    BY <1>0, <2>1, <2>3 DEF In, CarvingInv
  <2>5. ASSUME NEW q, q = plan' PROVE Written(q) /\ q \in Seq(PlanEntry)
    BY <1>9, <2>2, <2>3, <2>4, <2>5, MintWrites
  <2>6. plan' \in Seq(PlanEntry) /\ \A q \in Copies' : q = plan' => Written(q)
    BY <2>5
  <2> QED
    BY <2>1, <2>2, <2>6, EndStep
<1>10. ASSUME NEW t \in Terminals, NEW n \in 1 .. MaxEntries, NEW result \in {"landed", "refused"},
              MintItem(t, n, result)
       PROVE  Stepped
  BY <1>10, MintItemStep
<1>11. ASSUME NEW key \in CarveKeys, waive(key) \/ drop(key)
       PROVE  Stepped
  <2>1. /\ plan # NoPlan /\ Named(plan, key) # {}
        /\ UNCHANGED <<terminal, debates, lost, admitted, disk, reported>>
    BY <1>11 DEF waive, drop, Ruling
  <2>2. Grows
    BY <2>1 DEF Grows, OnFile
  <2>3. PICK p : p = plan
    OBVIOUS
  <2>4. p \in Copies /\ p \in Seq(PlanEntry)
    BY <1>0, <2>1, <2>3
  <2>5. ASSUME NEW q, q = plan' PROVE Written(q) /\ q \in Seq(PlanEntry)
    <3>1. CASE waive(key)
      <4>1. /\ find_entry(p, key).contested # {}
            /\ q = set_entry(p, key, [i \in Named(p, key) |-> [p[i] EXCEPT !.status = "waived",
                                                                           !.waived = TRUE]])
        BY <2>3, <2>5, <3>1 DEF waive, Ruling
      <4> QED
        BY <2>1, <2>3, <2>4, <4>1, WaiveWrites
    <3>2. CASE drop(key)
      <4>1. q = set_entry(p, key, [i \in Named(p, key) |-> [p[i] EXCEPT !.status = "dropped"]])
        BY <2>3, <2>5, <3>2 DEF drop, Ruling
      <4> QED
        BY <2>4, <4>1, DropWrites
    <3> QED
      BY <1>11, <3>1, <3>2
  <2>6. plan' \in Seq(PlanEntry) /\ \A q \in Copies' : q = plan' => Written(q)
    BY <2>5
  <2> QED
    BY <2>1, <2>2, <2>6, RulingStep
<1>12. CASE Release \/ (\E c \in Others : Elsewhere(c)) \/ UNCHANGED carvingVars
  <2>1. /\ UNCHANGED <<plan, terminal, debates, lost, admitted, reported>>
        /\ DOMAIN disk \subseteq DOMAIN disk'
    BY <1>12 DEF Release, Elsewhere, carvingVars
  <2>2. Grows
    BY <2>1 DEF Grows, OnFile
  <2>3. \A q \in Copies' : q = plan' => q \in Copies
    BY <2>1 DEF Copies, Holding, In
  <2> QED
    BY <1>0, <2>1, <2>2, <2>3, RulingStep
<1> QED
  BY <1>1, <1>2, <1>3, <1>4, <1>5, <1>6, <1>7, <1>8, <1>9, <1>10, <1>11, <1>12 DEF CarvingNext

-----------------------------------------------------------------------------
(* What every copy of the plan keeps.                                        *)

LEMMA SoundStays ==
    ASSUME Grows, CarvingType, CarvingType', NEW e \in PlanEntry, Sound(e)
    PROVE  Sound(e)'
<1>1. e.debate \in Nat /\ Len(debates) \in Nat /\ Len(debates') \in Nat
  BY EntryFields, CarveBoundsAssumption DEF CarvingType
<1>2. ASSUME e.debate # 0
      PROVE  /\ e.debate <= Len(debates')
             /\ \E d \in OnFile(e.debate)' : Of(e).key \in {d.target} \cup d.named
  <2>1. e.debate <= Len(debates) /\ e.debate \in 1 .. Len(debates)
    BY <1>1, <1>2 DEF Sound, Filed
  <2>2. PICK d \in OnFile(e.debate) : Of(e).key \in {d.target} \cup d.named
    BY <1>2 DEF Sound, Filed
  <2>3. d \in OnFile(e.debate)' /\ Len(debates) <= Len(debates')
    BY <2>1, <2>2 DEF Grows
  <2> QED
    BY <1>1, <2>1, <2>2, <2>3
<1>3. Filed(e)'
  BY <1>2 DEF Filed
<1>4. Gated(e)'
  BY DEF Sound, Gated, Grows
<1> QED
  BY <1>3, <1>4 DEF Sound

\* Marking changes what an entry is contested for.
LEMMA MarkFields ==
    ASSUME NEW p, NEW i, NEW q, p[i] \in PlanEntry, Marks(p, i, q)
    PROVE  /\ q[i].carve = p[i].carve /\ q[i].blocked = p[i].blocked
           /\ q[i].debate = p[i].debate /\ q[i].status = p[i].status
           /\ q[i].verification = p[i].verification /\ q[i].waived = p[i].waived
           /\ Sole(q, i) => q[i].contested = {}
<1>1. PICK triggers \in SUBSET Triggers : /\ q[i] = [p[i] EXCEPT !.contested = triggers]
                                          /\ Sole(q, i) => triggers = {}
  BY DEF Marks
<1>2. q[i] = [p[i] EXCEPT !.contested = triggers]
  BY <1>1
<1>3. /\ q[i].carve = p[i].carve /\ q[i].blocked = p[i].blocked
      /\ q[i].debate = p[i].debate /\ q[i].status = p[i].status
      /\ q[i].verification = p[i].verification /\ q[i].waived = p[i].waived
      /\ q[i].contested = triggers
  BY <1>2 DEF PlanEntry
<1> QED
  BY <1>1, <1>3

\* A place in a plan keeps its key, and its blocking.
LEMMA SamePlace ==
    ASSUME NEW p, NEW i, NEW q, p[i] \in PlanEntry, Changes(p, i, q[i]) \/ Marks(p, i, q)
    PROVE  Of(q[i]).key = Of(p[i]).key /\ q[i].blocked = p[i].blocked
<1>1. CASE ~ Revises(p, i, q[i])
  <2>1. CASE Marks(p, i, q)
    BY <2>1, MarkFields DEF Of
  <2>2. CASE ~ Marks(p, i, q)
    <3>1. q[i].carve = p[i].carve /\ q[i].blocked = p[i].blocked
      BY <1>1, <2>2 DEF Changes, Settles, Waives, Drops, Verifies, Mints, PlanEntry
    <3> QED
      BY <3>1 DEF Of
  <2> QED
    BY <2>1, <2>2
<1>2. CASE Revises(p, i, q[i])
  <2>1. PICK c \in DOMAIN Revision : /\ Catalogue[c].key = Of(p[i]).key
                                     /\ q[i].carve = Revision[c] /\ q[i].blocked = p[i].blocked
    BY <1>2 DEF Revises, PlanEntry
  <2> QED
    BY <2>1, RevisionAssumption DEF Of
<1> QED
  BY <1>1, <1>2

LEMMA SoundBecomes ==
    ASSUME Grows, CarvingType, CarvingType', NEW p, NEW i, NEW q,
           p[i] \in PlanEntry, Sound(p[i]), Changes(p, i, q[i]) \/ Marks(p, i, q)
    PROVE  Sound(q[i])'
<1>1. Sound(p[i])'
  BY SoundStays
<1>2. Of(q[i]).key = Of(p[i]).key
  BY SamePlace
<1>3. CASE q[i] = p[i]
  BY <1>1, <1>3
<1>4. CASE Marks(p, i, q) \/ Waives(p, i, q[i]) \/ Drops(p, i, q[i]) \/ Mints(p, i, q[i])
  <2>1. q[i].debate = p[i].debate /\ q[i].verification = p[i].verification
    <3>1. CASE Marks(p, i, q)
      BY <3>1, MarkFields
    <3>2. CASE Waives(p, i, q[i]) \/ Drops(p, i, q[i]) \/ Mints(p, i, q[i])
      BY <3>2 DEF Waives, Drops, Mints, PlanEntry
    <3> QED
      BY <1>4, <3>1, <3>2
  <2> QED
    BY <1>1, <1>2, <2>1 DEF Sound, Filed, Gated
<1>5. CASE Settles(p, i, q[i]) \/ Revises(p, i, q[i])
  <2>1. q[i].verification = p[i].verification /\ Files(q[i].debate, Of(p[i]).key)'
    BY <1>5 DEF Settles, Revises, PlanEntry
  <2>2. Gated(q[i])'
    BY <1>1, <1>2, <2>1 DEF Sound, Gated
  <2>3. /\ q[i].debate \in 1 .. Len(debates') /\ Len(debates') \in Nat
        /\ \E d \in OnFile(q[i].debate)' : d.target = Of(p[i]).key
    BY <2>1 DEF Files, CarvingType
  <2>4. q[i].debate <= Len(debates') /\ \E d \in OnFile(q[i].debate)' : Of(q[i]).key \in {d.target} \cup d.named
    BY <1>2, <2>3
  <2> QED
    BY <2>2, <2>4 DEF Sound, Filed
<1>6. CASE Verifies(p, i, q[i])
  <2>1. /\ q[i].debate = p[i].debate
        /\ q[i].verification = "admitted" => Of(p[i]).key \in admitted'
    BY <1>6 DEF Verifies, PlanEntry
  <2> QED
    BY <1>1, <1>2, <2>1 DEF Sound, Filed, Gated
<1> QED
  BY <1>3, <1>4, <1>5, <1>6 DEF Changes

LEMMA CarvingStarts == CarvingInit => CarvingInv
<1> SUFFICES ASSUME CarvingInit PROVE CarvingInv
  OBVIOUS
<1>1. /\ plan = NoPlan /\ debates = <<>> /\ terminal = [t \in Terminals |-> Idle]
  BY DEF CarvingInit
<1>2. \A t \in Terminals : terminal[t].pc = "idle"
  BY <1>1 DEF Idle
<1>3. Copies = {}
  BY <1>1, <1>2 DEF Copies, Holding, In
<1>4. CarvingType
  BY <1>1, CarveBoundsAssumption DEF CarvingType
<1> QED
  BY <1>2, <1>3, <1>4 DEF CarvingInv, Minting, Resolving, In

\* Of a plan written, an entry is new, or has come of the one in its place.
LEMMA WrittenPlaces ==
    ASSUME NEW q, Written(q), NEW j \in Indices(q)
    PROVE  \/ Fresh(q, j)' \/ SplitOff(q[j])'
           \/ \E p \in Copies : j \in Indices(p) /\ (Changes(p, j, q[j]) \/ Marks(p, j, q))
<1>1. PICK p \in Copies \cup {<<>>} : From(p, q)
  BY DEF Written
<1>2. j \in Indices(p) => p \in Copies
  BY DEF Indices
<1> QED
  BY <1>1, <1>2 DEF From

LEMMA CarvingStays == CarvingInv /\ [CarvingNext]_carvingVars => CarvingInv'
<1> SUFFICES ASSUME CarvingInv, [CarvingNext]_carvingVars PROVE CarvingInv'
  OBVIOUS
<1>1. Stepped /\ CarvingType /\ CarvingType' /\ Grows
  BY CarvingSteps DEF CarvingInv, Stepped
<1>2. \A p \in Copies : p \in Seq(PlanEntry) /\ \A i \in Indices(p) : p[i] \in PlanEntry /\ Sound(p[i])
  BY CopiesTyped, PlanIndices DEF CarvingInv
<1>3. ASSUME NEW q \in Copies', NEW j \in Indices(q)
      PROVE  Sound(q[j])'
  <2>1. CASE q \in Copies
    BY <1>1, <1>2, <2>1, SoundStays
  <2>2. CASE Written(q)
    <3>1. CASE Fresh(q, j)'
      <4>1. q[j].debate = 0 /\ q[j].verification = "none"
        BY <3>1 DEF Fresh
      <4> QED
        BY <4>1 DEF Sound, Filed, Gated
    <3>2. CASE SplitOff(q[j])'
      <4>1. /\ q[j].debate \in 1 .. Len(debates') /\ q[j].verification = "none"
            /\ \E d \in OnFile(q[j].debate)' : Of(q[j]).key \in d.named
        BY <3>2 DEF SplitOff
      <4>2. Len(debates') \in Nat
        BY <1>1 DEF CarvingType
      <4>3. q[j].debate <= Len(debates')
        BY <4>1, <4>2
      <4> QED
        BY <4>1, <4>3 DEF Sound, Filed, Gated
    <3>3. ASSUME NEW p \in Copies, j \in Indices(p), Changes(p, j, q[j]) \/ Marks(p, j, q)
          PROVE  Sound(q[j])'
      <4>1. p[j] \in PlanEntry /\ Sound(p[j])
        BY <1>2, <3>3
      <4> QED
        BY <1>1, <3>3, <4>1, SoundBecomes
    <3> QED
      BY <2>2, <3>1, <3>2, <3>3, WrittenPlaces
  <2> QED
    BY <1>1, <2>1, <2>2 DEF Stepped
<1> QED
  BY <1>1, <1>3 DEF CarvingInv, Stepped

LEMMA CarvingHolds == CarvingSpec => []CarvingInv
BY CarvingStarts, CarvingStays, PTL DEF CarvingSpec

\* Of a node or an edge nothing lands whose key the verifier has not admitted (minting.py:136),
\* whichever terminals overwrote the plan between the verdict and the mint.
THEOREM GateHolds == CarvingSpec => GateIsPassed
<1> DEFINE Admitted ==
      \A t \in Terminals, n \in 1 .. MaxEntries :
          MintItem(t, n, "landed") =>
              LET item == Of(terminal[t].items[n])
              IN  item.list \in GATED_LISTS => item.key \in admitted
<1>1. CarvingInv => Admitted
  <2> SUFFICES ASSUME CarvingInv, NEW t \in Terminals, NEW n \in 1 .. MaxEntries,
                      MintItem(t, n, "landed"), Of(terminal[t].items[n]).list \in GATED_LISTS
               PROVE  Of(terminal[t].items[n]).key \in admitted
    OBVIOUS
  <2>1. In(t, "minting") /\ n \in Indices(terminal[t].items)
    BY DEF MintItem
  <2>2. PICK p : p = terminal[t].plan
    OBVIOUS
  <2>3. /\ p \in Copies /\ p \in Seq(PlanEntry)
        /\ terminal[t].items = mint_items(p)
    BY <2>1, <2>2, CopiesTyped DEF CarvingInv, In, Minting
  <2>4. PICK i \in Indices(p) : Mintable(p[i]) /\ terminal[t].items[n] = p[i]
    BY <2>1, <2>3, MintItems
  <2>5. p[i].verification = "admitted" /\ Gated(p[i])
    BY <2>3, <2>4 DEF Mintable, CarvingInv, Sound
  <2> QED
    BY <2>4, <2>5 DEF Gated
<1>2. CarvingInv /\ [CarvingNext]_carvingVars => [Admitted]_carvingVars
  BY <1>1
<1> QED
  BY <1>2, CarvingHolds, PTL DEF CarvingSpec, GateIsPassed

LEMMA Filing == CarvingInv => CarvingOK /\ DebatesOnFile
<1> SUFFICES ASSUME CarvingInv PROVE CarvingOK /\ DebatesOnFile
  OBVIOUS
<1>1. /\ CarvingType /\ \A p \in Copies : p \in Seq(PlanEntry)
      /\ \A t \in Terminals : ~ In(t, "idle") => terminal[t].plan \in Copies
      /\ plan # NoPlan => plan \in Copies
  BY CopiesTyped DEF CarvingInv
<1>2. \A p \in Copies : IsPlan(p)
  BY <1>1, PlanIndices DEF IsPlan
<1>3. CarvingOK
  BY <1>1, <1>2 DEF CarvingOK, CarvingType
<1>4. \A e \in InPlan : Sound(e)
  BY <1>1 DEF InPlan, CarvingInv
<1> QED
  BY <1>3, <1>4 DEF DebatesOnFile, Sound, Filed

-----------------------------------------------------------------------------
(* What it keeps where a key stands for one id.                              *)

LEMMA LandedBecomes ==
    ASSUME OneIdEach, LandedInv, Grows, NEW p, NEW i, NEW q,
           p[i] \in PlanEntry, Landed(p[i]), Changes(p, i, q[i]) \/ Marks(p, i, q)
    PROVE  Landed(q[i])'
<1>1. Landed(p[i])'
  BY DEF Landed, Grows
<1>2. CASE q[i] = p[i] \/ Marks(p, i, q) \/ Verifies(p, i, q[i])
  <2>1. q[i].carve = p[i].carve /\ (q[i].status = "minted" => p[i].status = "minted")
    <3>1. CASE Marks(p, i, q)
      BY <3>1, MarkFields
    <3>2. CASE Verifies(p, i, q[i])
      BY <3>2 DEF Verifies, PlanEntry
    <3> QED
      BY <1>2, <3>1, <3>2
  <2> QED
    BY <1>1, <2>1 DEF Landed, Of
<1>3. CASE Waives(p, i, q[i]) \/ Drops(p, i, q[i]) \/ Settles(p, i, q[i]) \/ Revises(p, i, q[i])
  <2>1. q[i].status # "minted"
    BY <1>3 DEF Waives, Drops, Settles, Revises, PlanEntry
  <2> QED
    BY <2>1 DEF Landed
<1>4. CASE Mints(p, i, q[i])
  <2>1. q[i].carve = p[i].carve /\ Of(p[i]).id \in reported'
    BY <1>4 DEF Mints, PlanEntry
  <2> QED
    BY <2>1 DEF Landed, Of
<1> QED
  BY <1>2, <1>3, <1>4 DEF Changes

LEMMA LandedStays ==
    ASSUME OneIdEach
    PROVE  CarvingInv /\ LandedInv /\ [CarvingNext]_carvingVars => LandedInv'
<1> SUFFICES ASSUME CarvingInv, LandedInv, [CarvingNext]_carvingVars PROVE LandedInv'
  OBVIOUS
<1>1. Stepped
  BY CarvingSteps
<1>2. \A p \in Copies : \A i \in Indices(p) : p[i] \in PlanEntry /\ Landed(p[i])
  BY CopiesTyped, PlanIndices DEF CarvingInv, LandedInv
<1>3. ASSUME NEW q \in Copies', NEW j \in Indices(q)
      PROVE  Landed(q[j])'
  <2>1. CASE q \in Copies
    BY <1>1, <1>2, <2>1 DEF Stepped, Landed, Grows
  <2>2. CASE Written(q)
    <3>1. CASE Fresh(q, j)' \/ SplitOff(q[j])'
      <4>1. q[j].status # "minted"
        BY <3>1 DEF Fresh, SplitOff
      <4> QED
        BY <4>1 DEF Landed
    <3>2. ASSUME NEW p \in Copies, j \in Indices(p), Changes(p, j, q[j]) \/ Marks(p, j, q)
          PROVE  Landed(q[j])'
      <4>1. p[j] \in PlanEntry /\ Landed(p[j])
        BY <1>2, <3>2
      <4> QED
        BY <1>1, <3>2, <4>1, LandedBecomes DEF Stepped
    <3> QED
      BY <2>2, <3>1, <3>2, WrittenPlaces
  <2> QED
    BY <1>1, <2>1, <2>2 DEF Stepped
<1> QED
  BY <1>1, <1>3 DEF LandedInv, Stepped

\* Where no two carves of one key are about different ids, the plan says `minted` only of
\* what a landing has reported (minting.py:217), whichever of a batch were refused, and
\* whatever a terminal overwrote.
THEOREM MintedHolds ==
    ASSUME OneIdEach
    PROVE  CarvingSpec => []MintedWasReported
<1>1. CarvingInit => LandedInv
  <2> SUFFICES ASSUME CarvingInit PROVE LandedInv
    OBVIOUS
  <2>1. \A t \in Terminals : terminal[t].pc = "idle"
    BY DEF CarvingInit, Idle
  <2>2. Copies = {}
    BY <2>1 DEF CarvingInit, Copies, Holding, In
  <2> QED
    BY <2>1, <2>2 DEF LandedInv, Reporting, In
<1>2. CarvingInv /\ LandedInv /\ [CarvingNext]_carvingVars => LandedInv'
  BY LandedStays
<1>3. LandedInv => MintedWasReported
  BY DEF LandedInv, MintedWasReported, InPlan, Landed, Copies
<1> QED
  BY <1>1, <1>2, <1>3, CarvingHolds, PTL DEF CarvingSpec

-----------------------------------------------------------------------------
(* The order of a batch, and the carves that stay out.                       *)

LEMMA PlacedStays ==
    ASSUME Grows, NEW e, e.carve \in Carves, Placed(e)
    PROVE  Placed(e)'
BY FitsStays DEF Placed

\* What is made of an orderly plan is orderly: the places keep their keys and their blocking,
\* so a key that has only blocked carves had only blocked ones before.
LEMMA OrderlyFrom ==
    ASSUME OrderlyInv, Grows, NEW p \in Copies \cup {<<>>}, NEW q, From(p, q)
    PROVE  Orderly(q)'
<1>1. Orderly(p) /\ (p \in Copies \/ Indices(p) = {})
  BY DEF OrderlyInv, Orderly, Indices
<1>2. /\ p \in Seq(PlanEntry) /\ \A i \in Indices(p) : p[i] \in PlanEntry
      /\ \A i \in Indices(p) : i \in Indices(q) /\ (Changes(p, i, q[i]) \/ Marks(p, i, q))
      /\ \A j \in Indices(q) \ Indices(p) : Fresh(q, j)' \/ SplitOff(q[j])'
  BY PlanIndices DEF From
<1>3. \A i \in Indices(p) : Of(q[i]).key = Of(p[i]).key /\ q[i].blocked = p[i].blocked
  BY <1>2, SamePlace
<1>4. ASSUME NEW i \in Indices(p), Sole(q, i)
      PROVE  Sole(p, i) /\ Kept(p[i])
  <2>1. \A k \in Named(p, Of(p[i]).key) : k \in Named(q, Of(q[i]).key) /\ q[k].blocked = p[k].blocked
    BY <1>2, <1>3 DEF Named
  <2>2. Sole(p, i)
    BY <1>4, <2>1 DEF Sole
  <2> QED
    BY <1>1, <2>2 DEF Orderly
<1>5. ASSUME NEW i \in Indices(p)
      PROVE  (Sole(q, i) => Kept(q[i])) /\ Placed(q[i])'
  <2>1. p[i] \in PlanEntry /\ p[i].carve \in Carves /\ Placed(p[i])'
    BY <1>1, <1>2, EntryFields, PlacedStays DEF Orderly
  <2>2. Untouched(p, i) => ~ Sole(q, i)
    BY <1>4 DEF Untouched
  <2>3. CASE q[i] = p[i]
    BY <1>4, <2>1, <2>3
  <2>4. CASE Settles(p, i, q[i]) \/ Waives(p, i, q[i]) \/ Verifies(p, i, q[i]) \/ Mints(p, i, q[i])
    <3>1. Untouched(p, i) /\ q[i].carve = p[i].carve /\ q[i].blocked = p[i].blocked
      BY <2>1, <2>4 DEF Settles, Waives, Verifies, Mints, PlanEntry
    <3> QED
      BY <2>1, <2>2, <3>1 DEF Placed
  <2>5. CASE Revises(p, i, q[i])
    <3>1. Untouched(p, i) /\ q[i].carve \in Redrafted
      BY <2>1, <2>5 DEF Revises, Redrafted, PlanEntry
    <3> QED
      BY <2>2, <3>1 DEF Placed
  <2>6. CASE Drops(p, i, q[i])
    <3>1. /\ q[i].carve = p[i].carve /\ q[i].blocked = p[i].blocked
          /\ q[i].contested = p[i].contested /\ q[i].debate = p[i].debate /\ q[i].status = "dropped"
          /\ q[i].verification = p[i].verification /\ q[i].waived = p[i].waived
      BY <2>1, <2>6 DEF Drops, PlanEntry
    <3> QED
      BY <1>4, <2>1, <3>1 DEF Placed, Kept
  <2>7. CASE Marks(p, i, q)
    <3>1. /\ q[i].carve = p[i].carve /\ q[i].blocked = p[i].blocked
          /\ q[i].debate = p[i].debate /\ q[i].status = p[i].status
          /\ q[i].verification = p[i].verification /\ q[i].waived = p[i].waived
          /\ Sole(q, i) => q[i].contested = {}
      BY <2>1, <2>7, MarkFields
    <3> QED
      BY <1>4, <2>1, <3>1 DEF Placed, Kept
  <2> QED
    BY <1>2, <2>3, <2>4, <2>5, <2>6, <2>7 DEF Changes
<1>6. ASSUME NEW j \in Indices(q), j \notin Indices(p)
      PROVE  (Sole(q, j) => Kept(q[j])) /\ Placed(q[j])'
  <2>1. CASE Fresh(q, j)'
    BY <2>1 DEF Fresh, Kept
  <2>2. CASE SplitOff(q[j])'
    <3>1. q[j].blocked = FALSE /\ q[j].carve \in Redrafted
      BY <2>2 DEF SplitOff, Redrafted
    <3>2. ~ Sole(q, j)
      BY <1>6, <3>1 DEF Sole, Named
    <3> QED
      BY <3>1, <3>2 DEF Placed
  <2> QED
    BY <1>2, <1>6, <2>1, <2>2
<1> QED
  BY <1>5, <1>6 DEF Orderly

LEMMA OrderlyStays == CarvingInv /\ OrderlyInv /\ [CarvingNext]_carvingVars => OrderlyInv'
<1> SUFFICES ASSUME CarvingInv, OrderlyInv, [CarvingNext]_carvingVars,
                    NEW q \in Copies'
             PROVE  Orderly(q)'
  BY DEF OrderlyInv
<1>1. Grows /\ (q \in Copies \/ Written(q))
  BY CarvingSteps DEF Stepped
<1>2. CASE q \in Copies
  <2>1. Orderly(q) /\ \A i \in Indices(q) : q[i] \in PlanEntry
    BY <1>2, CopiesTyped, PlanIndices DEF OrderlyInv, CarvingInv
  <2>2. \A i \in Indices(q) : Placed(q[i])'
    BY <1>1, <2>1, EntryFields, PlacedStays DEF Orderly
  <2> QED
    BY <2>1, <2>2 DEF Orderly
<1>3. CASE Written(q)
  BY <1>1, <1>3, OrderlyFrom DEF Written
<1> QED
  BY <1>1, <1>2, <1>3

\* A batch is in order when nothing in it names what is minted later.
LEMMA OrderedBatch ==
    ASSUME CarvingInv, OrderlyInv, NEW t \in Terminals, In(t, "minting"),
           NEW i \in Indices(terminal[t].items), NEW j \in Indices(terminal[t].items),
           i < j, Of(terminal[t].items[j]).id \in Of(terminal[t].items[i]).refs,
           terminal[t].items[i].carve \notin Redrafted, OneKind(Of(terminal[t].items[j]).id)
    PROVE  Of(terminal[t].items[j]).id \in DOMAIN disk
<1>1. PICK p : p = terminal[t].plan
  OBVIOUS
<1>2. p \in Copies /\ p \in Seq(PlanEntry) /\ terminal[t].items = mint_items(p)
  BY <1>1, CopiesTyped DEF CarvingInv, In, Minting
<1>3. PICK items : items = mint_items(p)
  OBVIOUS
<1>4. PICK k \in Indices(p) : Mintable(p[k]) /\ items[i] = p[k]
  BY <1>2, <1>3, MintItems
<1>5. PICK l \in Indices(p) : Mintable(p[l]) /\ items[j] = p[l]
  BY <1>2, <1>3, MintItems
<1>6. MintRank(items[i].carve) <= MintRank(items[j].carve)
  BY <1>2, <1>3, MintItems
<1>7. p[k].carve \in Carves /\ p[l].carve \in Carves
  BY <1>2, <1>4, <1>5, PlanIndices, EntryFields
<1>8. Fits(p[k].carve)
  BY <1>2, <1>3, <1>4 DEF OrderlyInv, Orderly, Placed, Mintable
<1>9. MintRank(p[k].carve) \in Nat /\ MintRank(p[l].carve) \in Nat
  BY <1>7, Ranks
<1>10. MintRank(p[l].carve) < MintRank(p[k].carve) \/ Of(p[l]).id \in DOMAIN disk
  BY <1>2, <1>3, <1>4, <1>5, <1>7, <1>8 DEF Fits, Of
<1> QED
  BY <1>2, <1>3, <1>4, <1>5, <1>6, <1>9, <1>10

\* Whatever overwrote the plan, its batches are in order (minting.py:165), a debate's own
\* carves and a name of two kinds of record excepted; its debates are on file
\* (debate_record.py:55), unless another terminal's record has replaced one; and a carve the
\* structure has no place for is never debated, verified or minted (structure.py:6), unless
\* another that has a place took its key.
THEOREM PlansHold == CarvingSpec => []PlanSound
<1>1. CarvingInit => OrderlyInv
  <2> SUFFICES ASSUME CarvingInit PROVE OrderlyInv
    OBVIOUS
  <2>1. \A t \in Terminals : terminal[t].pc = "idle"
    BY DEF CarvingInit, Idle
  <2>2. Copies = {}
    BY <2>1 DEF CarvingInit, Copies, Holding, In
  <2> QED
    BY <2>2 DEF OrderlyInv
<1>2. CarvingInv /\ OrderlyInv /\ [CarvingNext]_carvingVars => OrderlyInv'
  BY OrderlyStays
<1>3. CarvingInv /\ OrderlyInv => PlanSound
  <2> SUFFICES ASSUME CarvingInv, OrderlyInv PROVE PlanSound
    OBVIOUS
  <2>1. OrderSuffices
    BY OrderedBatch DEF OrderSuffices
  <2>2. plan # NoPlan => Orderly(plan)
    BY CopiesTyped DEF OrderlyInv, CarvingInv
  <2>3. BlockedStaysOut
    BY <2>2 DEF BlockedStaysOut, Orderly, Kept
  <2> QED
    BY <2>1, <2>3, Filing DEF PlanSound
<1> QED
  BY <1>1, <1>2, <1>3, CarvingHolds, PTL DEF CarvingSpec
=============================================================================
