----------------------------- MODULE RealityCheck ------------------------------
(***************************************************************************)
(* R5's reality check (research/reality): the sampled languages answer a   *)
(* theme's questionnaire, one session each; every answer with evidence is  *)
(* gated; the findings are what the gated answers say about the carves.    *)
(* `classify` and `verify` read the reality check, work for hours and      *)
(* write back what they hold, while another terminal does the same,        *)
(* restarts, or closes an entry of the shakedown log.                      *)
(*                                                                         *)
(* ThemeCycle has the sign-off and how a cycle's files land; here the      *)
(* cells have their contents, as far as a rule reads them.  Of an answer   *)
(* its notes, characteristics and syntax are left out, of the record the   *)
(* uncovered constructs and the counts of the summary, of the shakedown    *)
(* log what the compiler, the sources and the verifier file.               *)
(***************************************************************************)
EXTENDS Naturals, FiniteSets, TLC

CONSTANTS
    Languages,    \* the cycle's sample
    Scope,        \* the features its theme has minted
    Groups,       \* the questionnaire: its dimensions and its standalone features
    AnswerSheets, \* what a session may answer: per feature, a reading
    Consoles,     \* where the developer types
    NoCheck,      \* before the first `reality compile`
    MaxSessions,  \* bound: classifier sessions
    MaxCommands,  \* bound: the other commands
    MaxDrops      \* bound: features that go

\* A group of a dimension reaches the languages of the kinds it applies to.
ASSUME GroupsAssumption ==
    \A g \in Groups : /\ DOMAIN g = {"members", "dimension", "exclusive", "reaches"}
                      /\ g.dimension \/ Cardinality(g.members) = 1

\* A reading: the cell does not fit, nothing it cites resolves, or an answer with evidence.
Readings5 == {"unmappable", "unsourced", "present", "absent"}
ASSUME ScopeAssumption == IsFiniteSet(Scope)
ASSUME SheetsAssumption == AnswerSheets \subseteq [Scope -> Readings5]
ASSUME SessionsAssumption == MaxSessions \in Nat

VARIABLES
    check,        \* research/reality-checks/<cycle>.yaml in the work tree
    settled,      \* the reality check on origin/main
    stage,        \* whether git tracks the file, and whether the cycle is r5-done
    existing,     \* the features of the theme the store still has
    console,      \* per console, the command it runs
    sessions, spent \* bounds

realityVars == <<check, settled, stage, existing, console, sessions, spent>>
files == <<check, settled, stage>>

CELL_STATUSES == {"proposed", "admitted", "refused", "unmappable", "unsourced"}
Cell == [answer : {"present", "absent", "none"}, status : CELL_STATUSES, session : 1 .. MaxSessions]
Entries5 == {"classifier", "questionnaire"} \X Languages \X Scope

-----------------------------------------------------------------------------
(* The questionnaire (spec.py). *)

\* The slice of it a check is about.
select(scope) ==
    {[g EXCEPT !.members = @ \cap scope] : g \in {h \in Groups : h.members \cap scope # {}}}

\* The features a language is asked about.
instantiate(scope, language) ==
    UNION {g.members : g \in {h \in select(scope) : h.dimension => language \in h.reaches}}

-----------------------------------------------------------------------------
(* The record (record.py): cells by language and feature, the session per language, *)
(* the findings of the last finalize, the shakedown log; the features when it was    *)
(* compiled.                                                                        *)

build_record == [scope |-> existing, cells |-> <<>>, runs |-> <<>>, log |-> <<>>, found |-> {}]

\* All cells of a language are swapped, never merged.
replace_language(r, language, cells, run) ==
    LET kept == {c \in DOMAIN r.cells : c[1] # language}
    IN  [r EXCEPT
            !.cells = [c \in kept \cup DOMAIN cells |-> IF c \in kept THEN @[c] ELSE cells[c]],
            !.runs = [l \in DOMAIN @ \cup {language} |-> IF l = language THEN run ELSE @[l]]]

\* An entry is filed once, and one that is closed stays closed.
add_shakedown(r, keys) ==
    [r EXCEPT !.log = @ @@ [k \in keys |-> "open"]]
close_shakedown(r, key) == [r EXCEPT !.log[key] = "closed"]

-----------------------------------------------------------------------------
(* Findings (findings.py): only a verified answer counts, either way. *)

_present(r, c) == c \in DOMAIN r.cells /\ r.cells[c].status = "admitted" /\ r.cells[c].answer = "present"

\* Mutant: an answer without a source is a no as well.
SettledOrUnknown(r, c) ==
    /\ c \in DOMAIN r.cells
    /\ \/ r.cells[c].status \in {"unmappable", "unsourced"}
       \/ r.cells[c].status = "admitted" /\ r.cells[c].answer = "absent"

_settled_no(r, c) ==
    /\ c \in DOMAIN r.cells
    /\ \/ r.cells[c].status = "unmappable"
       \/ r.cells[c].status = "admitted" /\ r.cells[c].answer = "absent"

Asked(r) == {c[1] : c \in DOMAIN r.cells}
uninhabited(r, g) ==
    {<<"uninhabited", f>> : f \in {m \in g.members :
        /\ \E l \in Asked(r) : <<l, m>> \in DOMAIN r.cells
        /\ \A l \in Asked(r) : <<l, m>> \in DOMAIN r.cells => _settled_no(r, <<l, m>>)}}
unfittable(r, g) ==
    {<<"unfittable", l, g>> : l \in {k \in Asked(r) :
        \A m \in g.members : _settled_no(r, <<k, m>>)}}
violations(r, g) ==
    {<<"violation", l, g>> : l \in {k \in Asked(r) :
        g.exclusive /\ Cardinality({m \in g.members : _present(r, <<k, m>>)}) > 1}}
compute_findings(r) ==
    UNION {uninhabited(r, g) \cup unfittable(r, g) \cup violations(r, g) :
               g \in {h \in select(r.scope) : h.dimension}}
    \cup {<<"unmappable", c>> : c \in {d \in DOMAIN r.cells : r.cells[d].status = "unmappable"}}

-----------------------------------------------------------------------------
(* The classifier and the gate. *)

\* A cell without a resolved source proposes nothing.
_bind_cell(reading, session) ==
    [answer |-> IF reading \in {"present", "absent"} THEN reading ELSE "none",
     status |-> IF reading \in {"present", "absent"} THEN "proposed" ELSE reading,
     session |-> session]

\* A session that answers every item once; any other output fails it.
Classified(r, language, sheet, session) ==
    LET asked == instantiate(r.scope, language)
        cells == [c \in {language} \X asked |-> _bind_cell(sheet[c[2]], session)]
        unsourced == {f \in asked : sheet[f] = "unsourced"}
    IN  add_shakedown(replace_language(r, language, cells, session),
                      {<<"classifier", language, f>> : f \in unsourced})

Awaiting(r) == {c \in DOMAIN r.cells : r.cells[c].status = "proposed"}

\* Every proposed cell gets its verdict; one whose feature has gone is refused unseen.
verify_cells(r, passed) ==
    LET proposed == Awaiting(r)
        gone == {c \in proposed : c[2] \notin existing}
        verdict(c) == IF c \in passed \ gone THEN "admitted" ELSE "refused"
    IN  add_shakedown([r EXCEPT !.cells = [c \in DOMAIN @ |->
                                   IF c \in proposed THEN [@[c] EXCEPT !.status = verdict(c)] ELSE @[c]]],
                      {<<"questionnaire", c[1], c[2]>> : c \in gone})

-----------------------------------------------------------------------------
(* The commands (cli.py, lifecycle.py). *)

AtPrompt == [doing |-> "nothing"]
RealityInit ==
    /\ check = NoCheck /\ settled = NoCheck /\ stage = "open" /\ existing = Scope
    /\ console = [p \in Consoles |-> AtPrompt] /\ sessions = 0 /\ spent = 0

Give(p, state) == console' = [console EXCEPT ![p] = state]
Spend == spent < MaxCommands /\ spent' = spent + 1
Typing(p) == console[p] = AtPrompt /\ Spend

\* A check with sessions is discarded only on --restart, and none once the cycle is r5-done.
Compile(p, restart) ==
    /\ Typing(p) /\ stage # "done" /\ existing # {}
    /\ check # NoCheck => check.runs = <<>> \/ restart
    /\ check' = build_record
    /\ UNCHANGED <<settled, stage, existing, console, sessions>>

Unclassified(r) == Languages \ DOMAIN r.runs

\* The languages not yet classified, or any with --redo.
StartClassify(p, languages) ==
    /\ Typing(p) /\ check # NoCheck /\ languages # {}
    /\ Give(p, [doing |-> "classify", held |-> check, left |-> languages])
    /\ UNCHANGED <<files, existing, sessions>>

\* One session, and the file is saved.
Classify(p, language, sheet) ==
    /\ console[p].doing = "classify" /\ language \in console[p].left
    /\ sessions < MaxSessions /\ sessions' = sessions + 1
    /\ LET r == Classified(console[p].held, language, sheet, sessions + 1)
           left == console[p].left \ {language}
       IN  /\ check' = r
           /\ Give(p, IF left = {} THEN AtPrompt ELSE [doing |-> "classify", held |-> r, left |-> left])
    /\ UNCHANGED <<settled, stage, existing, spent>>

StartVerify(p) ==
    /\ Typing(p) /\ check # NoCheck /\ Awaiting(check) # {}
    /\ Give(p, [doing |-> "verify", held |-> check])
    /\ UNCHANGED <<files, existing, sessions>>

Verify5(p) ==
    /\ console[p].doing = "verify"
    /\ \E passed \in SUBSET Awaiting(console[p].held) : check' = verify_cells(console[p].held, passed)
    /\ Give(p, AtPrompt)
    /\ UNCHANGED <<settled, stage, existing, sessions, spent>>

\* A failed session, a provider's error or a kill: the file stays as last saved.
Break(p) ==
    /\ console[p] # AtPrompt
    /\ Give(p, AtPrompt)
    /\ UNCHANGED <<files, existing, sessions, spent>>

\* A file git tracks is landed at once, or refused.
Closes(key, landed) ==
    /\ Spend /\ check # NoCheck
    /\ key \in DOMAIN check.log /\ check.log[key] = "open"
    /\ check' = close_shakedown(check, key)
    /\ landed => stage # "open"
    /\ settled' = IF landed THEN check' ELSE settled
    /\ UNCHANGED <<stage, existing, console, sessions>>

r5_blockers(r) == Unclassified(r) \cup Awaiting(r)

\* The findings are refreshed and saved, whatever then lands: nothing, when the register
\* before it is refused; a commit of its own; the check; the check and the cycle.
Finalize(result) ==
    /\ Spend /\ check # NoCheck /\ r5_blockers(check) = {}
    /\ check' = [check EXCEPT !.found = compute_findings(check)]
    /\ settled' = IF result \in {"check", "cycle"} THEN check' ELSE settled
    /\ stage' = CASE stage = "done" \/ result = "cycle" -> "done"
                  [] stage # "done" /\ result \in {"commit", "check"} -> "tracked"
                  [] OTHER -> stage
    /\ UNCHANGED <<existing, console, sessions>>

\* A migration drops a feature of the theme.
DropFeature(f) ==
    /\ f \in existing /\ Cardinality(Scope \ existing) < MaxDrops
    /\ existing' = existing \ {f}
    /\ UNCHANGED <<files, console, sessions, spent>>

RealityNext ==
    \/ \E p \in Consoles :
          \/ \E restart \in BOOLEAN : Compile(p, restart)
          \/ \E languages \in SUBSET Languages : StartClassify(p, languages)
          \/ \E language \in Languages, sheet \in AnswerSheets : Classify(p, language, sheet)
          \/ StartVerify(p) \/ Verify5(p) \/ Break(p)
    \/ \E key \in Entries5, landed \in BOOLEAN : Closes(key, landed)
    \/ \E result \in {"nothing", "commit", "check", "cycle"} : Finalize(result)
    \/ \E f \in Scope : DropFeature(f)

-----------------------------------------------------------------------------
Checks == {check, settled} \ {NoCheck}
RealityOK ==
    /\ stage \in {"open", "tracked", "done"} /\ (settled # NoCheck => stage # "open")
    /\ \A r \in Checks : \A c \in DOMAIN r.cells : c \in Languages \X Scope /\ r.cells[c] \in Cell

\* The answers of a language are those of the one session the check names for it
\* (record.py:134), to exactly the items it is asked.
OneSessionEach ==
    \A r \in Checks :
        /\ \A c \in DOMAIN r.cells : c[1] \in DOMAIN r.runs /\ r.cells[c].session = r.runs[c[1]]
        /\ \A l \in DOMAIN r.runs : {c \in DOMAIN r.cells : c[1] = l} = {l} \X instantiate(r.scope, l)

Unknown(r) == {c \in DOMAIN r.cells : r.cells[c].status \in {"proposed", "refused", "unsourced"}}
Settled(r, no) ==
    [r EXCEPT !.cells = [c \in DOMAIN @ |->
        IF c \in Unknown(r)
        THEN [@[c] EXCEPT !.status = "admitted",
                          !.answer = IF c \in no THEN "absent" ELSE "present"]
        ELSE @[c]]]

\* A finding stands whatever the cells nobody has verified turn out to be (findings.py:5).
FindingsStand ==
    \A r \in Checks :
        LET found == compute_findings(r)
        IN  \A no \in SUBSET Unknown(r) : found \subseteq compute_findings(Settled(r, no))

\* What the dossier reads of R5: whole sessions, and findings no later verdict takes back,
\* whichever command has overwritten the work of another.
RealitySound == RealityOK /\ OneSessionEach /\ FindingsStand
=============================================================================
