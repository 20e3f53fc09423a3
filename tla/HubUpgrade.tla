----------------------------- MODULE HubUpgrade -----------------------------
(***************************************************************************)
(* Opening the database of an agent hub: AgentHubStore's constructor and   *)
(* runMigrations, which bring a hub of an older build up to date.  The     *)
(* inbox adapter and the tools that read the hub open the same file, each  *)
(* from its own process, and no transaction spans the statements: another  *)
(* process may step between any two of them, a process may be killed after *)
(* any of them, and opening the hub again starts from the first.           *)
(*                                                                         *)
(* A key is a pair of a secret and a salt.  A row is known by the key that *)
(* sealed it and by whether the columns of version 2 are filled.           *)
(***************************************************************************)
EXTENDS Integers, FiniteSets

CONSTANTS
    Procs,      \* processes that open the hub
    Secrets,    \* KOVAEL_AGENT_HUB_SECRET, as a process may be given it
    NoSecret,   \* it is given none
    Rows,       \* dispatches and memories the hub may hold
    NumColumns, \* columns that ensureColumn adds, in its order
    MaxOpens    \* times a process opens the hub, a bound of the model

None == <<>>
Salts == Procs \X (1..MaxOpens)
Keys == Secrets \X Salts
NoKey == <<NoSecret, None>>
Absent == [there |-> FALSE, filled |-> FALSE, key |-> NoKey]
Legacy == [there |-> TRUE, filled |-> FALSE, key |-> NoKey]

VARIABLES
    version,  \* schema_version of the meta table: 0 when there is none
    salt,     \* encryption_salt of the meta table
    columns,  \* the columns of 1..NumColumns that the tables have
    made,     \* the tables are made
    rows,     \* row |-> what is stored
    pc,       \* process |-> the statement it is at
    prior,    \* process |-> priorSchemaVersion
    key,      \* process |-> encryptionKey
    at,       \* process |-> the column it is at
    missing,  \* process |-> the column was missing when it looked
    todo,     \* process |-> the rows that its backfill has listed
    opens     \* process |-> times it has opened the hub

db == <<version, salt, columns, made, rows>>
vars == <<db, pc, prior, key, at, missing, todo, opens>>

\* A new file, a hub of an older build with some of the columns and rows that
\* no column of version 2 is filled in, or one that this build has left.
Init ==
    /\ salt = None
    /\ \/ version = 0 /\ made = FALSE /\ columns = {} /\ rows = [r \in Rows |-> Absent]
       \/ /\ version \in {0, 1} /\ made = TRUE
          /\ columns \in SUBSET (1..NumColumns)
          /\ rows \in [Rows -> {Absent, Legacy}]
    /\ pc = [p \in Procs |-> "closed"]
    /\ prior = [p \in Procs |-> 0] /\ key = [p \in Procs |-> NoKey]
    /\ at = [p \in Procs |-> 1] /\ missing = [p \in Procs |-> FALSE]
    /\ todo = [p \in Procs |-> {}] /\ opens = [p \in Procs |-> 0]

goto(p, label) == pc' = [pc EXCEPT ![p] = label]

\* The meta table is there, and the version is read before anything is done.
Begin(p, secret) ==
    /\ pc[p] = "closed" /\ opens[p] < MaxOpens
    /\ opens' = [opens EXCEPT ![p] = @ + 1]
    /\ prior' = [prior EXCEPT ![p] = version]
    /\ key' = [key EXCEPT ![p] = <<secret, None>>]
    /\ at' = [at EXCEPT ![p] = 1]
    /\ goto(p, IF secret = NoSecret THEN "tables" ELSE "salt")
    /\ UNCHANGED <<db, missing, todo>>

\* initializeEncryptionKey: a salt that is there is taken.
ReadSalt(p) ==
    /\ pc[p] = "salt"
    /\ \/ salt # None /\ key' = [key EXCEPT ![p] = <<key[p][1], salt>>] /\ goto(p, "tables")
       \/ salt = None /\ goto(p, "newsalt") /\ UNCHANGED key
    /\ UNCHANGED <<db, prior, at, missing, todo, opens>>

\* createEncryptionSalt: INSERT ... ON CONFLICT DO NOTHING, so the first
\* process to get here decides.
InsertSalt(p) ==
    /\ pc[p] = "newsalt"
    /\ salt' = IF salt = None THEN <<p, opens[p]>> ELSE salt
    /\ goto(p, "salt")
    /\ UNCHANGED <<version, columns, made, rows, prior, key, at, missing, todo, opens>>

\* CREATE TABLE IF NOT EXISTS: a new table has every column.
MakeTables(p) ==
    /\ pc[p] = "tables"
    /\ made' = TRUE
    /\ columns' = IF made THEN columns ELSE 1..NumColumns
    /\ goto(p, "look")
    /\ UNCHANGED <<version, salt, rows, prior, key, at, missing, todo, opens>>

\* ensureColumn looks whether the table has the column.
LookForColumn(p) ==
    /\ pc[p] = "look" /\ at[p] <= NumColumns
    /\ missing' = [missing EXCEPT ![p] = at[p] \notin columns]
    /\ goto(p, "alter")
    /\ UNCHANGED <<db, prior, key, at, todo, opens>>

\* ... and adds it when it had not.  ALTER TABLE throws when another process
\* has added it since, and the constructor with it.
AddColumn(p) ==
    /\ pc[p] = "alter"
    /\ IF missing[p] /\ at[p] \in columns
       THEN goto(p, "closed") /\ UNCHANGED <<columns, at>>
       ELSE /\ columns' = columns \cup {at[p]}
            /\ at' = [at EXCEPT ![p] = @ + 1]
            /\ goto(p, "look")
    /\ UNCHANGED <<version, salt, made, rows, prior, key, missing, todo, opens>>

\* With every column there, a hub of version 2 is done; of another, the rows
\* are listed.
ListRows(p) ==
    /\ pc[p] = "look" /\ at[p] = NumColumns + 1
    /\ todo' = [todo EXCEPT ![p] = IF prior[p] = 2 THEN {} ELSE {r \in Rows : rows[r].there}]
    /\ goto(p, "fill")
    /\ UNCHANGED <<db, prior, key, at, missing, opens>>

\* openSensitive: a plain value is returned as it is, a sealed one needs the
\* key that sealed it.
Opens(p, r) == rows[r].key = NoKey \/ rows[r].key = key[p]

\* backfillV2Columns, row by row: COALESCE keeps what is there.
FillRow(p) == \E r \in todo[p] :
    /\ pc[p] = "fill"
    /\ IF Opens(p, r)
       THEN rows' = [rows EXCEPT ![r].filled = TRUE] /\ todo' = [todo EXCEPT ![p] = @ \ {r}] /\ UNCHANGED pc
       ELSE goto(p, "closed") /\ UNCHANGED <<rows, todo>>
    /\ UNCHANGED <<version, salt, columns, made, prior, key, at, missing, opens>>

\* Fault: the version is stamped while rows are left to fill.
StampEarly(p) ==
    /\ pc[p] = "fill"
    /\ version' = 2
    /\ goto(p, IF todo[p] = {} THEN "open" ELSE "fill")
    /\ UNCHANGED <<salt, columns, made, rows, prior, key, at, missing, todo, opens>>

\* The version is stamped and the hub is open.
Stamp(p) ==
    /\ pc[p] = "fill" /\ todo[p] = {}
    /\ version' = 2
    /\ goto(p, "open")
    /\ UNCHANGED <<salt, columns, made, rows, prior, key, at, missing, todo, opens>>

\* An open hub takes a row and seals it with its key, if it has one.
WriteRow(p, r) ==
    /\ pc[p] = "open" /\ ~rows[r].there
    /\ rows' = [rows EXCEPT ![r] = [there |-> TRUE, filled |-> TRUE, key |-> key[p]]]
    /\ UNCHANGED <<version, salt, columns, made, pc, prior, key, at, missing, todo, opens>>

\* close, or the process is killed, whatever it was at.
Leave(p) ==
    /\ pc[p] # "closed"
    /\ goto(p, "closed")
    /\ UNCHANGED <<db, prior, key, at, missing, todo, opens>>

Step(p) ==
    \/ \E secret \in Secrets \cup {NoSecret} : Begin(p, secret)
    \/ ReadSalt(p) \/ InsertSalt(p) \/ MakeTables(p) \/ LookForColumn(p)
    \/ AddColumn(p) \/ ListRows(p) \/ FillRow(p) \/ Stamp(p) \/ Leave(p)
    \/ \E r \in Rows : WriteRow(p, r)

Next == \E p \in Procs : Step(p)

Spec == Init /\ [][Next]_vars

-----------------------------------------------------------------------------
TypeOK ==
    /\ version \in 0..2 /\ salt \in Salts \cup {None} /\ made \in BOOLEAN
    /\ columns \in SUBSET (1..NumColumns)
    /\ rows \in [Rows -> [there : BOOLEAN, filled : BOOLEAN, key : {NoKey} \cup Keys]]
    /\ pc \in [Procs -> {"closed", "salt", "newsalt", "tables", "look", "alter", "fill", "open"}]
    /\ prior \in [Procs -> 0..2] /\ key \in [Procs -> {NoKey} \cup Keys \cup (Secrets \X {None})]
    /\ at \in [Procs -> 1..(NumColumns + 1)] /\ missing \in [Procs -> BOOLEAN]
    /\ todo \in [Procs -> SUBSET Rows] /\ opens \in [Procs -> 0..MaxOpens]

\* A hub that is stamped has every column, and no row is left that the
\* backfill should have filled: a process that reads version 2 skips the scan
\* for good.
StampedIsFilled ==
    version = 2 =>
        /\ made /\ columns = 1..NumColumns
        /\ \A r \in Rows : rows[r].there => rows[r].filled

\* Whatever is sealed is sealed with the salt that the hub keeps, so that the
\* same secret opens it after a restart, whichever process made the salt.
OneSalt == \A r \in Rows : rows[r].key # NoKey => rows[r].key[2] = salt
=============================================================================
