------------------------------- MODULE Currency -------------------------------
(***************************************************************************)
(* Source currency (ingest/currency, jobs/link_checker.py,                 *)
(* jobs/edition_check.py): the live pages of committed sources against     *)
(* what was last seen of them, the checkpoint rows of the two jobs, the    *)
(* findings they file, and the developer's `supersede`.                    *)
(*                                                                         *)
(* A page's body stands for its hash after whitespace is collapsed.  Each  *)
(* job checks one source at a time, in its steps: fetch twice, record,     *)
(* file.  A human closes entries.                                          *)
(***************************************************************************)
EXTENDS SourcingQueue

CONSTANTS
    Bodies,       \* contents of live pages
    Anchored,     \* the bodies that have the cited anchor
    Announcing,   \* the bodies that still show the pinned edition
    NoBody,       \* never fetched
    Interval,     \* days between edition checks, in ticks
    MaxTicks, MaxChanges, MaxOutages, MaxKills    \* bounds

ASSUME BodiesAssumption == NoBody \notin Bodies \cup Sources /\ Anchored \cup Announcing \subseteq Bodies

VARIABLES
    page,         \* per source, the body its URL serves
    baseline,     \* source_link_checks.content_hash
    checkedAt,    \* source_edition_checks.checked_at; 0 when there is no row
    linkRows, editionRows,    \* the sources whose checkpoint row is done
    linkJob,      \* the findings the link checker has still to file, or none in progress
    editionJob,   \* likewise
    superseded,   \* per source record, custom.superseded_by
    tombstones,   \* sources/_tombstones.yaml
    adopting,     \* `supersede` under way
    now, changes, outages, kills,
    witnessed,    \* history: the body at the last completed link check
    cut           \* history: sources whose check a kill cut between record and file

pages == <<page, now, changes, outages>>
linkVars == <<baseline, linkRows, linkJob, witnessed>>
editionVars == <<checkedAt, editionRows, editionJob>>
records == <<superseded, tombstones, adopting>>
currencyVars == <<pages, linkVars, editionVars, records, kills, cut>>

Resting == [source |-> NoBody, findings |-> {}]

CurrencyOK ==
    /\ page \in [Sources -> Bodies]
    /\ baseline \in [Sources -> Bodies \cup {NoBody}]
    /\ checkedAt \in [Sources -> Nat]
    /\ linkRows \subseteq Sources /\ editionRows \subseteq Sources
    /\ \A job \in {linkJob, editionJob} :
           job = Resting \/ (job.source \in Sources /\ job.findings \subseteq Reasons)
    /\ superseded \in [Sources -> Sources \cup {NoBody}]
    /\ tombstones \in [Sources -> Sources \cup {NoBody}]

CurrencyInit ==
    /\ page \in [Sources -> Bodies]
    /\ baseline = [s \in Sources |-> NoBody]
    /\ checkedAt = [s \in Sources |-> 0]
    /\ linkRows = {} /\ editionRows = {}
    /\ linkJob = Resting /\ editionJob = Resting
    /\ superseded = [s \in Sources |-> NoBody]
    /\ tombstones = [s \in Sources |-> NoBody]
    /\ adopting = <<>>
    /\ now = 1 /\ changes = 0 /\ outages = 0 /\ kills = 0
    /\ witnessed = [s \in Sources |-> NoBody]
    /\ cut = {}

-----------------------------------------------------------------------------
(* The link checker. *)

\* Mutant: a missing anchor hides the drift.
LinkFindingsMasked(s) ==
    IF page[s] \notin Anchored THEN {"anchor-missing"}
    ELSE IF baseline[s] \notin {NoBody, page[s]} THEN {"content-drift"} ELSE {}

\* check_link: what a page that answers implies; the signals do not mask each other.
LinkFindings(s) ==
    (IF page[s] \in Anchored THEN {} ELSE {"anchor-missing"})
        \cup (IF baseline[s] \notin {NoBody, page[s]} THEN {"content-drift"} ELSE {})

\* One of the two attempts is answered: record_link_check, the findings still to file.
CheckLink(s) ==
    /\ linkJob = Resting /\ s \notin linkRows
    /\ linkJob' = [source |-> s, findings |-> LinkFindings(s)]
    /\ baseline' = [baseline EXCEPT ![s] = page[s]]
    /\ UNCHANGED <<pages, linkRows, witnessed, editionVars, records, kills, cut, queue>>

\* Neither is: the last known hash stays (COALESCE).
LinkDead(s) ==
    /\ linkJob = Resting /\ s \notin linkRows /\ outages < MaxOutages
    /\ outages' = outages + 1
    /\ linkJob' = [source |-> s, findings |-> {"link-dead"}]
    /\ UNCHANGED <<page, now, changes, baseline, linkRows, witnessed, editionVars, records,
                   kills, cut, queue>>

FileLinkFinding(reason) ==
    /\ reason \in linkJob.findings
    /\ File("link-checker", linkJob.source, reason)
    /\ linkJob' = [linkJob EXCEPT !.findings = @ \ {reason}]
    /\ UNCHANGED <<pages, baseline, linkRows, witnessed, editionVars, records, kills, cut>>

LinkDone ==
    /\ linkJob # Resting /\ linkJob.findings = {}
    /\ linkRows' = linkRows \cup {linkJob.source}
    /\ witnessed' = [witnessed EXCEPT ![linkJob.source] = baseline[linkJob.source]]
    /\ linkJob' = Resting
    /\ UNCHANGED <<pages, baseline, editionVars, records, kills, cut, queue>>

-----------------------------------------------------------------------------
(* The edition check. *)

IsDue(s) == checkedAt[s] = 0 \/ now - checkedAt[s] >= Interval

\* check_edition and record_edition_check.  A page that cannot be fetched counts as
\* matched, and as checked today.
CheckEdition(s, fetched) ==
    /\ editionJob = Resting /\ s \notin editionRows /\ IsDue(s)
    /\ \/ fetched /\ UNCHANGED outages
       \/ ~ fetched /\ outages < MaxOutages /\ outages' = outages + 1
    /\ checkedAt' = [checkedAt EXCEPT ![s] = now]
    /\ editionJob' = [source |-> s, findings |-> IF fetched /\ page[s] \notin Announcing
                                                 THEN {"edition-mismatch"} ELSE {}]
    /\ UNCHANGED <<page, now, changes, linkVars, editionRows, records, kills, cut, queue>>

EditionDone ==
    /\ editionJob # Resting
    /\ \/ editionJob.findings = {} /\ UNCHANGED queue
       \/ editionJob.findings # {} /\ File("edition-check", editionJob.source, "edition-mismatch")
    /\ editionRows' = editionRows \cup {editionJob.source}
    /\ editionJob' = Resting
    /\ UNCHANGED <<pages, linkVars, checkedAt, records, kills, cut>>

-----------------------------------------------------------------------------
(* supersede_source: the old record, the ledger, the queue. *)

Supersede(old, new) ==
    /\ adopting = <<>> /\ old # new
    /\ superseded' = [superseded EXCEPT ![old] = new]
    /\ adopting' = <<old, new, "ledger">>
    /\ UNCHANGED <<pages, linkVars, editionVars, tombstones, kills, cut, queue>>

Bury ==
    /\ adopting # <<>> /\ adopting[3] = "ledger"
    /\ tombstones' = [tombstones EXCEPT ![adopting[1]] = adopting[2]]
    /\ adopting' = [adopting EXCEPT ![3] = "file"]
    /\ UNCHANGED <<pages, linkVars, editionVars, superseded, kills, cut, queue>>

Announce ==
    /\ adopting # <<>> /\ adopting[3] = "file"
    /\ File("edition-check", adopting[1], "edition-superseded")
    /\ adopting' = <<>>
    /\ UNCHANGED <<pages, linkVars, editionVars, superseded, tombstones, kills, cut>>

-----------------------------------------------------------------------------
(* The environment. *)

PageChanges(s, body) ==
    /\ changes < MaxChanges /\ changes' = changes + 1
    /\ page' = [page EXCEPT ![s] = body]
    /\ UNCHANGED <<now, outages, linkVars, editionVars, records, kills, cut, queue>>

Tick ==
    /\ now < MaxTicks /\ now' = now + 1
    /\ UNCHANGED <<page, changes, outages, linkVars, editionVars, records, kills, cut, queue>>

\* The rows of a kind stay done from month to month, until the operator removes its
\* checkpoint database.
DropCheckpoint ==
    /\ \/ linkJob = Resting /\ linkRows' = {} /\ UNCHANGED editionRows
       \/ editionJob = Resting /\ editionRows' = {} /\ UNCHANGED linkRows
    /\ UNCHANGED <<pages, baseline, linkJob, witnessed, checkedAt, editionJob, records,
                   kills, cut, queue>>

JobKilled ==
    /\ kills < MaxKills /\ kills' = kills + 1
    /\ \/ /\ linkJob # Resting /\ linkJob' = Resting
          /\ cut' = cut \cup {linkJob.source}
          /\ UNCHANGED <<editionJob, adopting>>
       \/ /\ editionJob # Resting /\ editionJob' = Resting
          /\ cut' = cut \cup {editionJob.source}
          /\ UNCHANGED <<linkJob, adopting>>
       \/ adopting # <<>> /\ adopting' = <<>> /\ UNCHANGED <<linkJob, editionJob, cut>>
    /\ UNCHANGED <<pages, baseline, linkRows, witnessed, checkedAt, editionRows, superseded,
                   tombstones, queue>>

CloseEntry(id) ==
    /\ queue[id].open /\ queue[id].kind # "pending-source"
    /\ changes < MaxChanges /\ changes' = changes + 1
    /\ queue' = [queue EXCEPT ![id].open = FALSE]
    /\ UNCHANGED <<page, now, outages, linkVars, editionVars, records, kills, cut>>

CurrencyNext ==
    \/ \E s \in Sources :
          \/ CheckLink(s) \/ LinkDead(s)
          \/ \E fetched \in BOOLEAN : CheckEdition(s, fetched)
          \/ \E t \in Sources : Supersede(s, t)
          \/ \E body \in Bodies : PageChanges(s, body)
    \/ \E reason \in Reasons : FileLinkFinding(reason)
    \/ LinkDone \/ EditionDone \/ Bury \/ Announce
    \/ Tick \/ DropCheckpoint \/ JobKilled \/ \E id \in Rows : CloseEntry(id)

-----------------------------------------------------------------------------
(* Properties. *)

\* A page that changed between two completed checks is reported by the later one
\* (links.py:86), however many outages lay between them; a check that was killed after
\* the baseline moved is excepted: see README.
DriftIsFiled ==
    [][\A s \in Sources \ cut :
           /\ s \in linkRows' \ linkRows
           /\ witnessed[s] # NoBody /\ witnessed'[s] # witnessed[s]
           => \E id \in Rows : /\ queue[id].source = s /\ queue[id].reason = "content-drift"
                               /\ queue[id].kind = "link-checker"]_<<currencyVars, queue>>

\* Findings do not mask each other and do not stack: one open entry per reason, however
\* often it is found again.
FindingsDoNotStack ==
    \A i, j \in Rows :
        i # j /\ queue[i].open /\ queue[j].open /\ queue[i].kind # "pending-source"
            => <<queue[i].kind, queue[i].source, queue[i].reason>> #
               <<queue[j].kind, queue[j].source, queue[j].reason>>

\* The ledger never names a successor the record itself has not named, kills between the
\* two writes and a second adoption included: it follows the record or lags behind it.
LedgerFollowsRecord ==
    \A s \in Sources :
        /\ tombstones[s] # NoBody => superseded[s] # NoBody
        /\ adopting # <<>> /\ adopting[1] = s /\ adopting[3] = "file"
              => tombstones[s] = superseded[s]

\* The queue and the ledger tell of the sources what the checks and the adoptions found,
\* once each (store.py:176, supersede.py:58), through kills between two of their writes.
CurrencySound == CurrencyOK /\ FindingsDoNotStack /\ LedgerFollowsRecord
=============================================================================
