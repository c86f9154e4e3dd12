----------------------------- MODULE Migration -----------------------------
(***************************************************************************)
(* origin/main of the canonical store, with those who commit to it: the    *)
(* gate's mints, the developer's edits and slug renames, the settling of a *)
(* theme, migrations drafted, planned and landed from a clone that falls   *)
(* behind, and the git revert that undoes one.                             *)
(*                                                                         *)
(* A commit CI refuses is reverted before anything builds on it, so it     *)
(* does not happen here, except that a landed migration says whether its   *)
(* replay was green.  Two commits that change one record, the ledger or    *)
(* the redirects conflict; git would merge separate hunks of one record.   *)
(***************************************************************************)
EXTENDS Restructure

CONSTANTS
    Stores,       \* the trees main may start from
    Ops,          \* the restructures a developer may ask for, their remap empty
    Seeds,        \* the records the settled cycle minted
    Slug,         \* the slug a node is minted with
    MaxCommits    \* bound: edits, mints and migrations; a revert is free

\* A start is a store the validators accept, its ledger lines older than any migration here;
\* an op is what the manifest schema admits (ontology/schema/migration-manifest.schema.json),
\* before facts are remapped.
Disposition == [op : {"split", "merge", "move", "remove"}, from : SUBSET Nodes, to : SUBSET Nodes,
                demote : BOOLEAN, layer : {1, 2}, remap : {{}}]

ASSUME MigrationAssumption ==
    /\ MaxCommits \in Nat
    /\ \A t \in Stores : Typed(t) /\ Valid(t) /\ \A x \in t.ledger : x.by = 0
    /\ Ops \subseteq Disposition
    /\ \A d \in Ops : d.op = "merge" => \E n \in Nodes : d.to = {n}
    /\ Slug \in [Nodes -> Slugs]

VARIABLES
    main,         \* the tree of origin/main
    settled,      \* the ids of records of settled themes
    owed,         \* history: every fact a settled record has had
    draft,        \* the tree a draft was written against
    work,         \* the migration that is to land: its manifest, base and tree
    last,         \* the last migration that landed
    commits       \* counter

vars == <<main, settled, owed, draft, work, last, commits>>

Owes(t, ids) == {f \in Facts(t) : f.rec \in ids}

TypeOK ==
    /\ Typed(main)
    /\ settled \in {{}, Seeds}
    /\ draft # None => work = None
    /\ commits \in 0 .. MaxCommits

Init ==
    /\ main \in Stores
    /\ settled = {} /\ owed = {}
    /\ draft = None /\ work = None /\ last = None
    /\ commits = 0

------------------------------------------------------------------------------
(* Commits that are no migration.                                            *)

\* What CI asks of a commit: the store's validators, the ledger and the guard.
Green(t, u) == Valid(u) /\ AppendOnly(t, u) /\ Guard(t, u, settled)

Commit(u) ==
    /\ Green(main, u)
    /\ main' = u
    /\ owed' = owed \cup Owes(u, settled)

Edit(u) ==
    /\ commits < MaxCommits /\ commits' = commits + 1
    /\ u # main /\ Commit(u)
    /\ UNCHANGED <<settled, draft, work, last>>

Line(f, by) == [fact |-> f, successors |-> {}, by |-> by]

\* The gate mints a feature or an edge: additive.
MintNode(n, text) ==
    /\ n \in Nodes \ DOMAIN main.nodes
    /\ Edit([main EXCEPT !.nodes = [k \in DOMAIN @ \cup {n} |->
                 IF k = n THEN [kind |-> "feature", text |-> text, slug |-> Slug[n], layer |-> 1,
                                realizes |-> {}, aliases |-> {}]
                 ELSE @[k]]])

MintEdge(e, polarity) ==
    /\ e \in Edges \ DOMAIN main.edges
    /\ Edit([main EXCEPT !.edges = [k \in DOMAIN @ \cup {e} |->
                 IF k = e THEN (IF IsQuality(e) THEN "assessed" ELSE polarity) ELSE @[k]]])

\* The developer edits one record by hand, with or without a ledger line for what it said.
Lines(u, lines) == [u EXCEPT !.ledger = @ \cup {Line(f, 0) : f \in lines}]

Retext(n, text, line) ==
    /\ n \in DOMAIN main.nodes
    /\ LET u == [main EXCEPT !.nodes[n].text = text]
       IN  Edit(Lines(u, IF line THEN Facts(main) \ Facts(u) ELSE {}))

Repolarize(e, line) ==
    /\ e \in DOMAIN main.edges /\ ~IsQuality(e)
    /\ \E p \in Polarities :
           LET u == [main EXCEPT !.edges[e] = p]
           IN  Edit(Lines(u, IF line THEN Facts(main) \ Facts(u) ELSE {}))

Delete(r, line) ==
    /\ r \in Records(main)
    /\ LET u == [main EXCEPT !.nodes = Minus(@, {r}), !.edges = Minus(@, {r}),
                             !.rules = Minus(@, {r})]
       IN  Edit(Lines(u, IF line THEN Facts(main) \ Facts(u) ELSE {}))

Unrealize(n, c) ==
    /\ n \in DOMAIN main.nodes
    /\ Edit([main EXCEPT !.nodes[n].realizes = @ \ {c}])

DropLine(x) == x \in main.ledger /\ Edit([main EXCEPT !.ledger = @ \ {x}])

\* The node's record and the redirect map land together.
rename_slug(n, s) ==
    /\ n \in DOMAIN main.nodes
    /\ \A k \in DOMAIN main.nodes : main.nodes[k].slug # s
    /\ s \in DOMAIN main.redirects => main.redirects[s] = n
    /\ LET old == main.nodes[n].slug
       IN  Edit([main EXCEPT !.nodes[n].slug = s,
                             !.redirects = [k \in (DOMAIN @ \cup {old}) \ {s} |->
                                               IF k = old THEN n ELSE @[k]]])

\* `consolidate settle` closes the one cycle of the model.
settle ==
    /\ settled = {} /\ settled' = Seeds
    /\ owed' = Owes(main, Seeds)
    /\ UNCHANGED <<main, draft, work, last, commits>>

------------------------------------------------------------------------------
(* Migrations.                                                               *)

\* The casebook's entry for an anchor the op affects (D16).
CasebookEntry(d, a) ==
    LET entry(action, target) == [match |-> {a}, action |-> action, target |-> target]
    IN  IF a[2] = "summary"
        THEN IF Keeps(d) THEN entry("untouched", None)
             ELSE IF d.op = "merge" THEN entry("remap", The(d.to))
             ELSE entry("tombstone", None)
        ELSE CASE d.op = "merge" ->
                      IF a[1] \in Edges /\ {a[1][1], a[1][2]} \subseteq d.from \cup d.to
                      THEN entry("tombstone", None) ELSE entry("remap", The(d.to))
               [] d.op = "split" -> entry("requeue", None)
               [] OTHER -> entry("tombstone", None)

\* The developer may send one record elsewhere before the migration runs.
EditedEntry(d, edit, a) ==
    IF edit # None /\ edit.rec = a[1]
    THEN [match |-> {a}, action |-> edit.action, target |-> edit.target]
    ELSE CasebookEntry(d, a)

draft_manifest(t, d, edit) ==
    LET anchors == {Anchor(f) : f \in {f \in Facts(t) : f.rec \in Affected(t, d)}}
    IN  [d EXCEPT !.remap = IF d.op = "move" THEN {}
                            ELSE {EditedEntry(d, edit, x) : x \in anchors}]

\* What the developer may make of the draft: another disposition for one record.
FieldEdits(t) ==
    {None} \cup [rec : Records(t), action : {"remap"}, target : Nodes]
           \cup [rec : Records(t), action : {"requeue", "tombstone", "untouched"},
                 target : {None}]

\* The manifests a draft against t may become; one op to a manifest.
Manifests(t) ==
    UNION {{[id |-> commits, dispositions |-> <<draft_manifest(t, d, edit)>>] :
               edit \in {e \in FieldEdits(t) : e = None \/ e.rec \in Affected(t, d)}} :
              d \in {d \in Ops : Checks(t, d)}}

\* `consolidate draft-migration`: what is drafted is chosen when it is read again.
write_draft ==
    /\ draft = None /\ work = None /\ commits < MaxCommits
    /\ draft' = main /\ commits' = commits + 1
    /\ UNCHANGED <<main, settled, owed, work, last>>

\* run_migration up to its landing: plan, check_plan, and the gate on what is rewritten,
\* which may refuse; a refusal leaves the draft.
run_migration ==
    /\ draft # None /\ work = None
    /\ \E m \in Manifests(draft) :
           LET p == plan_migration(main, m)
           IN  /\ ~p.refused /\ p.tree # main /\ Valid(p.tree)
               /\ work' = [manifest |-> m, base |-> main, tree |-> p.tree]
    /\ draft' = None
    /\ UNCHANGED <<main, settled, owed, last, commits>>

At(f, k) == IF k \in DOMAIN f THEN f[k] ELSE None

\* git's three ways on one file, and on a directory of them.  Two records that are
\* added under one name never have the same text, whatever of it the model keeps.
Clash(base, mine, theirs) ==
    /\ mine # base /\ theirs # base
    /\ mine # theirs \/ mine # None
Pick(base, mine, theirs) == IF mine = base THEN theirs ELSE mine

MergeDirectory(base, mine, theirs) ==
    LET picked(k) == Pick(At(base, k), At(mine, k), At(theirs, k))
    IN  [k \in {k \in DOMAIN mine \cup DOMAIN theirs : picked(k) # None} |-> picked(k)]

ClashIn(base, mine, theirs) ==
    \E k \in DOMAIN base \cup DOMAIN mine \cup DOMAIN theirs :
        Clash(At(base, k), At(mine, k), At(theirs, k))

Conflict(base, mine, theirs) ==
    \/ ClashIn(base.nodes, mine.nodes, theirs.nodes)
    \/ ClashIn(base.edges, mine.edges, theirs.edges)
    \/ ClashIn(base.rules, mine.rules, theirs.rules)
    \/ Clash(base.ledger, mine.ledger, theirs.ledger)
    \/ Clash(base.redirects, mine.redirects, theirs.redirects)

Rebased(base, mine, theirs) ==
    [nodes |-> MergeDirectory(base.nodes, mine.nodes, theirs.nodes),
     edges |-> MergeDirectory(base.edges, mine.edges, theirs.edges),
     rules |-> MergeDirectory(base.rules, mine.rules, theirs.rules),
     ledger |-> Pick(base.ledger, mine.ledger, theirs.ledger),
     redirects |-> Pick(base.redirects, mine.redirects, theirs.redirects)]

\* replay_commit: the commit is what its manifest makes of its parent.
Replays(before, after, m) ==
    LET p == plan_migration(before, m) IN ~p.refused /\ p.tree = after

\* History: what the plan was made from that the conflicts do not cover.  A manifest reads
\* the nodes it names, what points at the old ones, what they are sent to, and the edges
\* whose claims absorb others; most of it without rewriting it.
Reads(t, d) ==
    LET g == Governing(t, d)
    IN  d.from \cup d.to \cup DOMAIN g
            \cup {Target(g, n) : n \in {n \in DOMAIN g \cap DOMAIN t.nodes : Action(g, n) = "remap"}}
            \cup {Moved(d, g, e) : e \in RemappedEdges(t, g)}

Changed(t, u) ==
    {r \in Records(t) \cup Records(u) : \/ At(t.nodes, r) # At(u.nodes, r)
                                        \/ At(t.edges, r) # At(u.edges, r)
                                        \/ At(t.rules, r) # At(u.rules, r)}

\* land_changeset rebases, validates and pushes; CI replays, and a red commit is undone.
Push(u) ==
    LET green == Replays(main, u, work.manifest) /\ AppendOnly(main, u)
    IN  /\ main' = IF green THEN u ELSE main
        /\ last' = [before |-> main, after |-> u, green |-> green,
                    op |-> work.manifest.dispositions[1].op,
                    stale |-> Reads(work.base, work.manifest.dispositions[1])
                                  \cap Changed(work.base, main)]
        /\ owed' = owed \cup Owes(main', settled)

\* Mutant: the rebased tree is not validated.
LandUnvalidated ==
    /\ work # None /\ ~Conflict(work.base, work.tree, main)
    /\ Push(Rebased(work.base, work.tree, main))
    /\ work' = None
    /\ UNCHANGED <<settled, draft, commits>>

LandMigration ==
    /\ work # None /\ ~Conflict(work.base, work.tree, main)
    /\ LET u == Rebased(work.base, work.tree, main)
       IN  Valid(u) /\ Push(u)
    /\ work' = None
    /\ UNCHANGED <<settled, draft, commits>>

\* The gate or the landing refuses; main turns red meanwhile; the developer gives it up.
Abandon ==
    /\ draft # None \/ work # None
    /\ draft' = None /\ work' = None
    /\ UNCHANGED <<main, settled, owed, last, commits>>

\* `git revert` of the migration, as the rollback of section 5.2.
RevertMigration ==
    /\ last # None /\ last.green /\ ~Conflict(last.after, last.before, main)
    /\ Commit(Rebased(last.after, last.before, main))
    /\ last' = None
    /\ UNCHANGED <<settled, draft, work, commits>>

------------------------------------------------------------------------------

EditByHand ==
    \/ \E n \in Nodes, text \in Texts : MintNode(n, text)
    \/ \E e \in Edges, p \in Polarities : MintEdge(e, p)
    \/ \E n \in Nodes, text \in Texts, line \in BOOLEAN : Retext(n, text, line)
    \/ \E e \in Edges, line \in BOOLEAN : Repolarize(e, line)
    \/ \E r \in Nodes \cup Edges \cup Rules, line \in BOOLEAN : Delete(r, line)
    \/ \E n, c \in Nodes : Unrealize(n, c)
    \/ \E x \in main.ledger : DropLine(x)

Next ==
    \/ EditByHand
    \/ \E n \in Nodes, s \in Slugs : rename_slug(n, s)
    \/ settle
    \/ write_draft \/ run_migration \/ LandMigration \/ Abandon \/ RevertMigration

Spec == Init /\ [][Next]_vars

------------------------------------------------------------------------------
(* Properties                                                                *)

\* Whatever manifest the developer makes of a draft, what the interpreter accepts on a
\* valid store leaves no edge, rule, `realizes` or redirect that leads nowhere, and no
\* ledger line whose successor is neither live nor tombstoned.  The validators let two
\* live nodes have one slug; to merge one of them makes a redirect of a live slug, which
\* is left to check_plan to refuse.
SlugsDiffer(t) ==
    \A n, k \in DOMAIN t.nodes : t.nodes[n].slug = t.nodes[k].slug => n = k

NeverDangles ==
    draft = main => \A m \in Manifests(main) :
        LET p == plan_migration(main, m)
        IN  ~p.refused =>
                /\ References(p.tree)
                /\ SlugsDiffer(main) => Redirects(p.tree)
                /\ \A x \in p.tree.ledger :
                       x.successors \subseteq Facts(p.tree) \cup Tombstoned(p.tree)

\* Every edge or rule that a migration writes, new or changed, is sent to the gate first:
\* no claim enters the store without it (D4).
NothingUngated ==
    work # None =>
        LET p == plan_migration(work.base, work.manifest)
        IN  \A r \in Records(p.tree) \ DOMAIN p.tree.nodes :
                \/ r \in p.gated
                \/ r \in Records(work.base)
                      /\ (r \in Rules => p.tree.rules[r] = work.base.rules[r])
                      /\ (r \in Edges => p.tree.edges[r] = work.base.edges[r])

\* What a migration makes of the store (migrate.py): every record well-formed, nothing
\* that leads nowhere, and nothing in it that no gate has seen.
StoreSound == TypeOK /\ NeverDangles /\ NothingUngated

\* The conflicts of git and the validators see everything main has done meanwhile but for
\* one thing: a migration planned on a tree that main has left behind lands only where its
\* manifest makes the same of main, whatever now points at its nodes, unless main has
\* changed a record that the manifest reads and leaves alone.  Only then is it the replay
\* that has to turn main red.
StaleNeverLands == last # None => last.green \/ last.stale # {}

\* Every fact a record of a settled theme has ever had is live or has a ledger line,
\* through edits, migrations and their reverts (section 3.2).
FactsAccounted == owed \subseteq Facts(main) \cup Tombstoned(main)

\* Reverting the migration that landed last passes the ledger check and the guard, unless
\* what it left of a settled record is restructured by going back: a split that demoted, a
\* move, a rewritten rule, an edge brought back under a settled id.
UndoRestructures(before, after) ==
    \E r \in settled \cap Records(after) :
        r \notin Records(before) \/ Restructured(after, before, r)

RollbackHolds ==
    last # None /\ last.green /\ main = last.after /\ ~UndoRestructures(last.before, last.after)
        => Green(main, last.before)

\* A slug that has been published keeps leading to its node or to the one it was merged
\* into; it is lost only with a node that is removed (section 5.2).
Published(t) == DOMAIN t.redirects \cup {t.nodes[n].slug : n \in DOMAIN t.nodes}
LeadsTo(t, s) ==
    IF s \in DOMAIN t.redirects THEN t.redirects[s]
    ELSE CHOOSE n \in DOMAIN t.nodes : t.nodes[n].slug = s

URLsKept ==
    [][\A s \in Published(main) \ Published(main') :
           /\ LeadsTo(main, s) \notin DOMAIN main'.nodes
           /\ (last' # last /\ last' # None) => last'.op # "merge"]_vars
=============================================================================
