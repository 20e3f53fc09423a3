----------------------------- MODULE HostStorage -----------------------------
(***************************************************************************)
(* What the orchestrator keeps on its host between two runs, but for the   *)
(* tables of other modules: the schema, brought up to date by Migrator at  *)
(* each boot; the anchors SemanticIngestor takes from the project's files; *)
(* and the file of LearningMatrix.  The process may be killed between two  *)
(* statements, a statement may fail, and a boot does it all again.         *)
(*                                                                         *)
(* A file is known by the version of its text, 0 for none.  Two files may  *)
(* share the path they are stored under, as files outside the working      *)
(* directory that have one basename do.                                    *)
(***************************************************************************)
EXTENDS Integers, Sequences, FiniteSets, SequencesExt, Functions

CONSTANTS
    Files,        \* what the crawl indexes, in the order of the directory
    StoredAs,     \* file |-> sanitizePath of it
    MaxEntries,   \* of the learning matrix
    MaxEdits, MaxCycles   \* bounds of the model

\* ORCHESTRATOR_MIGRATIONS: what each version creates.
Migrations == <<
    {"conversation_topics", "conversation_messages", "conversation_topics_seq", "idx_messages_topic_ts"},
    {"chair_claims"},
    {"cycle_events", "idx_cycle_events_kind"},
    {"episodic_memories", "idx_episodic_agent", "episodic_memories_fts", "episodic_ai", "episodic_ad"} >>

Torn == <<0>>   \* a file of the matrix that was not written to its end

VARIABLES
    stage,     \* of the process: down, migrating, crawling, serving
    at,        \* the migration, or the file, whose turn it is
    schema,    \* what is in the database
    versions,  \* schema_migrations
    texts,     \* file |-> the version of its text
    anchors,   \* stored path |-> the texts that are anchored, a bag without order
    matrix,    \* the file of the matrix: its entries, newest first, or torn
    cycles,    \* cycles that ended
    edits

database == <<schema, versions, anchors>>
vars == <<stage, at, database, texts, matrix, cycles, edits>>

Boot ==
    /\ stage = "down"
    /\ stage' = "migrating" /\ at' = 1
    /\ UNCHANGED <<database, texts, matrix, cycles, edits>>

\* apply: a known version is skipped; another is applied and recorded in one
\* transaction, and rolled back when it fails, which ends the boot.
Migrate ==
    /\ stage = "migrating" /\ at <= Len(Migrations)
    /\ \/ /\ at' = at + 1 /\ stage' = stage
          /\ versions' = versions \cup {at}
          /\ schema' = IF at \in versions THEN schema ELSE schema \cup Migrations[at]
       \/ at \notin versions /\ at' = at /\ stage' = "down" /\ UNCHANGED <<schema, versions>>
    /\ UNCHANGED <<anchors, texts, matrix, cycles, edits>>

\* The schema is as it should be; the ingestor makes its table and crawls.
Migrated ==
    /\ stage = "migrating" /\ at = Len(Migrations) + 1
    /\ stage' = "crawling" /\ at' = 1
    /\ UNCHANGED <<database, texts, matrix, cycles, edits>>

\* indexFile: the rows of the path are replaced, in two statements; a file
\* that is gone is not met, and one that is too large or fails is passed over,
\* in the second case perhaps between the two.
Index ==
    /\ stage = "crawling" /\ at <= Len(Files)
    /\ at' = at + 1
    /\ LET f == Files[at]
       IN  \/ anchors' = IF texts[f] = 0 THEN anchors ELSE [anchors EXCEPT ![StoredAs[f]] = <<texts[f]>>]
           \/ texts[f] # 0 /\ anchors' \in {anchors, [anchors EXCEPT ![StoredAs[f]] = << >>]}
    /\ UNCHANGED <<stage, schema, versions, texts, matrix, cycles, edits>>

Serve ==
    /\ stage = "crawling" /\ at = Len(Files) + 1
    /\ stage' = "serving" /\ at' = 0
    /\ UNCHANGED <<database, texts, matrix, cycles, edits>>

\* LearningMatrix.read: what does not parse is empty.
ReadMatrix == IF matrix = Torn THEN << >> ELSE matrix
Entries(c) == SubSeq(<<c>> \o ReadMatrix, 1, IF Len(ReadMatrix) < MaxEntries THEN Len(ReadMatrix) + 1 ELSE MaxEntries)

\* record: read, prepend, write.  A write that fails leaves the file as it was
\* or, once it was truncated, torn.
Record ==
    /\ stage = "serving" /\ cycles < MaxCycles
    /\ cycles' = cycles + 1
    /\ matrix' \in {Entries(cycles'), matrix, Torn}
    /\ UNCHANGED <<stage, at, database, texts, edits>>

\* Someone writes or deletes a file.
Edit(f) ==
    /\ edits < MaxEdits
    /\ edits' = edits + 1
    /\ \E v \in {0, edits'} : texts' = [texts EXCEPT ![f] = v]
    /\ UNCHANGED <<stage, at, database, matrix, cycles>>

\* The process dies: in a transaction, between the two statements of an index,
\* or in a write of the matrix.
Crash ==
    /\ stage # "down"
    /\ stage' = "down" /\ at' = 0
    /\ anchors' \in {anchors} \cup (IF stage = "crawling" /\ at <= Len(Files) /\ texts[Files[at]] # 0
                                    THEN {[anchors EXCEPT ![StoredAs[Files[at]]] = << >>]} ELSE {})
    /\ matrix' \in {matrix} \cup (IF stage = "serving" THEN {Torn} ELSE {})
    /\ UNCHANGED <<schema, versions, texts, cycles, edits>>

Init ==
    /\ stage = "down" /\ at = 0
    /\ schema = {} /\ versions = {}
    /\ texts \in [Range(Files) -> {0, 1}] /\ edits = 1
    /\ anchors = [p \in Range(StoredAs) |-> << >>]
    /\ matrix = << >> /\ cycles = 0

Next ==
    \/ Boot
    \/ Migrate
    \/ Migrated
    \/ Index
    \/ Serve
    \/ Record
    \/ \E f \in Range(Files) : Edit(f)
    \/ Crash

Spec == Init /\ [][Next]_vars

-----------------------------------------------------------------------------
(* Properties                                                              *)

\* A recorded version has all it creates, a version follows the ones before,
\* and nothing is served before the schema is whole, wherever a boot ended.
SchemaMatchesVersions ==
    /\ \A v \in versions : Migrations[v] \subseteq schema /\ \A w \in 1..v : w \in versions
    /\ schema = UNION {Migrations[v] : v \in versions}
    /\ stage \in {"crawling", "serving"} => versions = DOMAIN Migrations

\* Boots do not accumulate anchors: a path has one text at most.
OneAnchorPerPath == \A p \in DOMAIN anchors : Len(anchors[p]) <= 1

\* The matrix holds the newest cycles it was given, newest first.
MatrixIsNewest ==
    matrix # Torn => /\ Len(matrix) <= MaxEntries
                           /\ \A i, j \in DOMAIN matrix : i < j => matrix[i] > matrix[j]
=============================================================================
