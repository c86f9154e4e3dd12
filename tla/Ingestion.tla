------------------------------ MODULE Ingestion ------------------------------
(***************************************************************************)
(* Snapshots and ingestion (snapshot.py, pipeline.py, store.py): the       *)
(* originals and manifests of the private tier, the chunks with their      *)
(* embeddings, the row of bookkeeping that decides whether a source is     *)
(* read again, and the sourcing queue.                                     *)
(*                                                                         *)
(* A text stands for itself and for its hash.  `put` and `fetch_url` write *)
(* the original, then the manifest; `ingest_source` is one step, because   *)
(* all it stores goes through one transaction, except that an override is  *)
(* in the manifest before the rest can fail.  The developer runs one of    *)
(* these commands at a time.  Left out: a manifest cut short by a kill,    *)
(* and the QA report.                                                      *)
(***************************************************************************)
EXTENDS SourcingQueue

CONSTANTS
    Texts,        \* contents of originals
    Names,        \* file names under original/
    KindLists,    \* orders of locator kinds
    DefaultKinds, \* DEFAULT_LOCATOR_KINDS
    Mute,         \* <<text, kinds>> from which no chunk gets a locator
    Thin,         \* texts below the default floor, and above an explicit one
    None,         \* no file, no manifest, no row, no chunks, no setting
    MaxPuts,      \* bound: acquisitions
    MaxUpsets     \* bound: upgrades of the tools, deletions, kills

ASSUME KindsAssumption == DefaultKinds \in KindLists

\* min_chars: not set, or a number below the length of a thin text.
Floors == {"unset", "low"}

Manifest == [original : Names, hash : Texts, kinds : KindLists \cup {None}, floor : Floors]
Putting == [source : Sources, manifest : Manifest]
ASSUME NoneAssumption == None \notin Texts \cup Names \cup KindLists \cup Putting

Ingested == [hash : Texts, kinds : KindLists, floor : Floors, tools : Nat,
             promoted : BOOLEAN]
Chunks == [text : Texts, kinds : KindLists, tools : Nat]

VARIABLES
    originals,    \* per source and name, the file
    manifest,     \* per source, snapshot.yaml
    tools,        \* the version of backend, chunker, QA and their configuration
    row,          \* per source, its row in source_ingestions
    chunks,       \* per source, its rows in source_chunks
    embedded,     \* the sources whose chunks are embedded
    putting,      \* the acquisition under way
    last,         \* history: how the last ingestion of a source ended
    torn,         \* history: sources whose original a killed put overwrote
    puts, upsets

private == <<originals, manifest>>
stored == <<row, chunks, embedded>>
bounds == <<puts, upsets>>
ingestionVars == <<originals, manifest, tools, row, chunks, embedded, putting, last,
                   torn, puts, upsets>>

IngestionOK ==
    /\ originals \in [Sources -> [Names -> Texts \cup {None}]]
    /\ manifest \in [Sources -> Manifest \cup {None}]
    /\ tools \in Nat
    /\ row \in [Sources -> Ingested \cup {None}]
    /\ chunks \in [Sources -> Chunks \cup {None}]
    /\ embedded \subseteq Sources
    /\ putting \in Putting \cup {None}
    /\ last \in [Sources -> {"none", "ok", "failed"}]
    /\ torn \subseteq Sources

NothingAcquired ==
    /\ originals = [s \in Sources |-> [n \in Names |-> None]]
    /\ manifest = [s \in Sources |-> None]

NothingStored ==
    /\ tools = 0
    /\ row = [s \in Sources |-> None]
    /\ chunks = [s \in Sources |-> None]
    /\ embedded = {}
    /\ putting = None
    /\ last = [s \in Sources |-> "none"]
    /\ torn = {}
    /\ puts = 0 /\ upsets = 0

IngestionInit == NothingAcquired /\ NothingStored

Upset == upsets < MaxUpsets /\ upsets' = upsets + 1

-----------------------------------------------------------------------------
(* Acquisition. *)

\* An explicit setting wins; otherwise the stored one is carried forward.
KindsFor(s, kinds) ==
    IF kinds # None THEN kinds ELSE IF manifest[s] = None THEN None ELSE manifest[s].kinds
FloorFor(s, floor) ==
    IF floor # "unset" THEN floor
    ELSE IF manifest[s] = None THEN "unset" ELSE manifest[s].floor

\* put and fetch_url, up to the manifest: the original is in place.
Put(s, text, name, kinds, floor) ==
    /\ putting = None /\ puts < MaxPuts
    /\ puts' = puts + 1
    /\ originals' = [originals EXCEPT ![s][name] = text]
    /\ putting' = [source |-> s,
                   manifest |-> [original |-> name, hash |-> text,
                                 kinds |-> KindsFor(s, kinds), floor |-> FloorFor(s, floor)]]
    /\ UNCHANGED <<manifest, tools, stored, last, torn, upsets, queue>>

WriteManifest ==
    /\ putting # None
    /\ manifest' = [manifest EXCEPT ![putting.source] = putting.manifest]
    /\ putting' = None
    /\ UNCHANGED <<originals, tools, stored, last, torn, bounds, queue>>

PutKilled ==
    /\ putting # None /\ Upset
    /\ putting' = None
    /\ torn' = torn \cup {s \in {putting.source} :
                  manifest[s] # None /\ originals[s][manifest[s].original] # manifest[s].hash}
    /\ UNCHANGED <<private, tools, stored, last, puts, queue>>

-----------------------------------------------------------------------------
(* Ingestion. *)

\* The manifest a run works with: an explicit setting is stored first.
Overridden(s, kinds, floor) ==
    [manifest[s] EXCEPT !.kinds = IF kinds # None THEN kinds ELSE @,
                        !.floor = IF floor # "unset" THEN floor ELSE @]

Preference(m) == IF m.kinds # None THEN m.kinds ELSE DefaultKinds

\* Mutant: an ingestion by older tools is current.
IsCurrentAcrossUpgrades(s, m) ==
    /\ row[s] # None /\ row[s].promoted
    /\ row[s].hash = m.hash /\ row[s].kinds = Preference(m) /\ row[s].floor = m.floor
    /\ chunks[s] # None

\* The stored ingestion reflects exactly these inputs, and its chunks are there.
IsCurrent(s, m) ==
    /\ row[s] # None /\ row[s].promoted
    /\ row[s].hash = m.hash /\ row[s].kinds = Preference(m)
    /\ row[s].floor = m.floor /\ row[s].tools = tools
    /\ chunks[s] # None

Fresh(s, m) == [text |-> originals[s][m.original], kinds |-> Preference(m), tools |-> tools]

Extracts(s, m) == <<originals[s][m.original], Preference(m)>> \notin Mute
Passes(s, m) == originals[s][m.original] \in Thin => m.floor = "low"

FinishIngest(s, m, promoted) ==
    /\ row' = [row EXCEPT ![s] = [hash |-> m.hash, kinds |-> Preference(m),
                                  floor |-> m.floor, tools |-> tools,
                                  promoted |-> promoted]]
    /\ chunks' = [chunks EXCEPT ![s] = IF promoted THEN Fresh(s, m) ELSE None]
    /\ embedded' = embedded \ {s}
    /\ last' = [last EXCEPT ![s] = IF promoted THEN "ok" ELSE "failed"]

\* Mutant: a missing snapshot files nothing.
IngestMissingQuietly(s) ==
    /\ manifest[s] = None
    /\ last' = [last EXCEPT ![s] = "failed"]
    /\ UNCHANGED <<private, stored, queue>>

IngestMissing(s) ==
    /\ manifest[s] = None
    /\ File("pending-source", s, "acquisition-failed")
    /\ last' = [last EXCEPT ![s] = "failed"]
    /\ UNCHANGED <<private, stored>>

IngestStored(s, m) ==
    /\ manifest' = [manifest EXCEPT ![s] = m]
    /\ UNCHANGED originals
    /\ \/ /\ IsCurrent(s, m)
          /\ last' = [last EXCEPT ![s] = "ok"]
          /\ UNCHANGED <<stored, queue>>
       \/ /\ ~ IsCurrent(s, m) /\ ~ Extracts(s, m)
          /\ File("pending-source", s, "partially-ingested")
          /\ last' = [last EXCEPT ![s] = "failed"]
          /\ UNCHANGED stored
       \/ /\ ~ IsCurrent(s, m) /\ Extracts(s, m) /\ ~ Passes(s, m)
          /\ File("pending-source", s, "partially-ingested")
          /\ FinishIngest(s, m, FALSE)
       \/ /\ ~ IsCurrent(s, m) /\ Extracts(s, m) /\ Passes(s, m)
          /\ Resolve("pending-source", s)
          /\ FinishIngest(s, m, TRUE)

ingest_source(s, kinds, floor) ==
    /\ putting = None
    /\ \/ IngestMissing(s)
       \/ manifest[s] # None /\ IngestStored(s, Overridden(s, kinds, floor))
    /\ UNCHANGED <<tools, putting, torn, bounds>>

\* Killed after the override is stored and before the transaction commits, or ended there
\* by an exception that is not one of ingestion's own: nothing catches it and nothing is
\* filed (pipeline.py:136 catches ExtractionFailed alone).
IngestKilled(s, kinds, floor) ==
    /\ putting = None /\ manifest[s] # None /\ Upset
    /\ manifest' = [manifest EXCEPT ![s] = Overridden(s, kinds, floor)]
    /\ UNCHANGED <<originals, tools, stored, putting, last, torn, puts, queue>>

\* The sweep is one ingest_source after the other, each with its stored settings; it
\* goes on past failures, so it is steps of the action above.
reingest_all == \E s \in Sources : manifest[s] # None /\ ingest_source(s, None, "unset")

\* embed_source: the chunks that have no embedding yet.
Embed ==
    /\ embedded' = {s \in Sources : chunks[s] # None}
    /\ UNCHANGED <<private, tools, row, chunks, putting, last, torn, bounds, queue>>

\* The environment: an upgrade or a new configuration, rows deleted by hand.
UpgradeTools ==
    /\ Upset /\ tools' = tools + 1
    /\ UNCHANGED <<private, stored, putting, last, torn, puts, queue>>

DeleteRows(s) ==
    /\ chunks[s] # None /\ Upset
    /\ chunks' = [chunks EXCEPT ![s] = None]
    /\ embedded' = embedded \ {s}
    /\ UNCHANGED <<private, tools, row, putting, last, torn, puts, queue>>

Acquire ==
    \/ \E s \in Sources, t \in Texts, n \in Names, k \in KindLists \cup {None}, f \in Floors :
           Put(s, t, n, k, f)
    \/ WriteManifest \/ PutKilled

Ingest ==
    \/ \E s \in Sources, k \in KindLists \cup {None}, f \in Floors :
           ingest_source(s, k, f) \/ IngestKilled(s, k, f)
    \/ reingest_all

IngestionNext ==
    Acquire \/ Ingest \/ Embed \/ UpgradeTools \/ \E s \in Sources : DeleteRows(s)

-----------------------------------------------------------------------------
(* Properties. *)

\* The skip of pipeline.py:124 is no trap: whenever the next run of a source would be
\* skipped as current, the chunks it points at are those that run would store, whatever
\* overrides, upgrades, deletions, kills and re-acquisitions came before.  An original
\* that a killed put overwrote is excepted: see README.
SkipIsSound ==
    \A s \in Sources :
        s \notin torn /\ putting = None /\ manifest[s] # None /\ IsCurrent(s, manifest[s])
            => chunks[s] = Fresh(s, manifest[s])

\* A source whose last ingestion failed has an open issue (pipeline.py:81, "a refused
\* source stays visible"), through re-filing, bounces and the resolving of other runs.  A
\* failure is one the pipeline knows: no snapshot, no text or no locators, the QA gate.  Any
\* other exception ends the run as a kill does and leaves no issue.
RefusedIsVisible == \A s \in Sources : last[s] = "failed" => OpenIssues(s) # {}
=============================================================================
