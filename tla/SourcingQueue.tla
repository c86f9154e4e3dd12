---------------------------- MODULE SourcingQueue ----------------------------
(***************************************************************************)
(* The sourcing queue of tools/ingest (store.py): the one table in which   *)
(* ingestion, verification and the currency jobs leave what a human has to *)
(* look at.  Connections are autocommit and the table has no unique index, *)
(* so `file` is two statements, a SELECT and then an INSERT or an UPDATE   *)
(* by id, and other processes come between them.                           *)
(***************************************************************************)
EXTENDS Naturals, Sequences, FiniteSets

CONSTANTS
    Sources,      \* source ids
    NoEntry       \* what a SELECT returns when no row matches

ASSUME NoEntryAssumption == NoEntry \notin Nat

EntryKinds == {"pending-source", "link-checker", "edition-check"}
PendingReasons == {"not-ingested", "partially-ingested", "acquisition-failed"}
Reasons == PendingReasons \cup {"link-dead", "anchor-missing", "content-drift",
                                "edition-mismatch", "edition-superseded"}

Entry == [kind : EntryKinds, source : Sources, reason : Reasons,
          bounces : Nat, open : BOOLEAN]

VARIABLE queue    \* the rows of sourcing_queue, by id

QueueOK == queue \in Seq(Entry)

Rows == 1 .. Len(queue)

\* A pending source has one issue, whatever its reason; the findings of the two
\* currency jobs are told apart by their reasons.
Matches(id, kind, s, reason) ==
    /\ queue[id].open /\ queue[id].kind = kind /\ queue[id].source = s
    /\ kind # "pending-source" => queue[id].reason = reason

Selected(kind, s, reason) == {id \in Rows : Matches(id, kind, s, reason)}

\* The row fetchone returns.
Select(kind, s, reason, found) ==
    \/ found \in Selected(kind, s, reason)
    \/ Selected(kind, s, reason) = {} /\ found = NoEntry

\* Mutant: every finding files an entry of its own.
UpsertAnew(kind, s, reason, found) ==
    queue' = Append(queue, [kind |-> kind, source |-> s, reason |-> reason,
                            bounces |-> 0, open |-> TRUE])

\* The second statement, on what the first one saw: the UPDATE does not look again
\* whether the entry is still open.
Upsert(kind, s, reason, found) ==
    queue' = IF found = NoEntry
             THEN Append(queue, [kind |-> kind, source |-> s, reason |-> reason,
                                 bounces |-> 0, open |-> TRUE])
             ELSE [queue EXCEPT ![found].reason = reason]

\* Both statements at once, where no other process files under this kind.
File(kind, s, reason) ==
    \E found \in Rows \cup {NoEntry} :
        Select(kind, s, reason, found) /\ Upsert(kind, s, reason, found)

Bounce(id) == queue' = [queue EXCEPT ![id].bounces = @ + 1]

Resolve(kind, s) ==
    queue' = [id \in Rows |->
                 IF queue[id].open /\ queue[id].kind = kind /\ queue[id].source = s
                 THEN [queue[id] EXCEPT !.open = FALSE] ELSE queue[id]]

\* open_entries orders by the time of opening.
OpenIssues(s) ==
    {id \in Rows : queue[id].open /\ queue[id].kind = "pending-source" /\ queue[id].source = s}
FirstOpen(s) ==
    IF OpenIssues(s) = {} THEN NoEntry
    ELSE CHOOSE id \in OpenIssues(s) : \A other \in OpenIssues(s) : id <= other
=============================================================================
