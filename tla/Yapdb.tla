--------------------------------- MODULE Yapdb ---------------------------------
(* The state database /var/lib/yap/installed.db as a value: which tables exist, *)
(* the rows of packages, and the rows of files and caps, which belong to a      *)
(* package by its row id.  Architecture, release and epoch are part of a name.  *)
EXTENDS Naturals, FiniteSets, Sequences

\* The tables in the order the schema script creates them, each statement of it
\* a transaction of its own; initSchema looks for the last only.
Schema == <<"packages", "files", "caps", "meta">>

\* A database file that was just created.
Blank == [tables |-> {}, rows |-> {}, files |-> {}, caps |-> {}, next |-> 1]

Initialized(db) == "meta" \in db.tables

\* The script fails at its first CREATE TABLE if an earlier run of it was cut.
CanInitialize(db) == db.tables = {}

\* The next statement of the script.
CreateTable(db) ==
    LET i == CHOOSE n \in DOMAIN Schema :
                /\ Schema[n] \notin db.tables
                /\ \A m \in 1..(n - 1) : Schema[m] \in db.tables
    IN  [db EXCEPT !.tables = @ \cup {Schema[i]}]

RowsOf(db, name) == {r \in db.rows : r.name = name}

\* Ids taken from the rows that are left instead of AUTOINCREMENT's sequence.
Insert_ReusesIds(db, name, version, paths) ==
    LET left == db.rows \ RowsOf(db, name)
        id   == Cardinality(left) + 1
    IN  [db EXCEPT !.rows = left \cup {[id |-> id, name |-> name, version |-> version]},
                   !.files = @ \cup {[id |-> id, path |-> p] : p \in paths},
                   !.caps = @ \cup {[id |-> id, name |-> name, version |-> version]}]

\* One transaction.  The row of an older version goes; its files and caps stay,
\* since foreign keys, and with them ON DELETE CASCADE, are off in a connection
\* that does not ask for them.  Every package provides its own name.
Insert(db, name, version, paths) ==
    [db EXCEPT !.rows = (@ \ RowsOf(db, name))
                          \cup {[id |-> db.next, name |-> name, version |-> version]},
               !.files = @ \cup {[id |-> db.next, path |-> p] : p \in paths},
               !.caps = @ \cup {[id |-> db.next, name |-> name, version |-> version]},
               !.next = @ + 1]

IsInstalled(db, name) == RowsOf(db, name) # {}

List(db) == {[name |-> r.name, version |-> r.version] : r \in db.rows}

\* LookupByName: versions is a singleton, or empty for ErrNotFound.
LookupByName(db, name) ==
    LET ids == {r.id : r \in RowsOf(db, name)}
    IN  [versions |-> {r.version : r \in RowsOf(db, name)},
         files    |-> {f.path : f \in {g \in db.files : g.id \in ids}},
         caps     |-> {<<c.name, c.version>> : c \in {d \in db.caps : d.id \in ids}}]

\* LookupProviders joins caps with packages.
ProvidersOf(db, cap) ==
    {r.name : r \in {q \in db.rows : \E c \in db.caps : c.id = q.id /\ c.name = cap}}
================================================================================
