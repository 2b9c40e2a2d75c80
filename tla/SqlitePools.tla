----------------------------- MODULE SqlitePools -----------------------------
(***************************************************************************)
(* The SQLite capability (kunkka-core, capability/sqlite.rs): one pool of  *)
(* one connection for each app, which lives from an "open" to a "close",   *)
(* to the next "open" or to the end of the core, and over which the app's  *)
(* statements run request by request.                                      *)
(*                                                                         *)
(* SQLite and the pool are external.  A statement runs on the pool's       *)
(* connection, in the transaction that is open on it or in one of its own; *)
(* a connection that is closed rolls its transaction back; and the pool,   *)
(* made with its default times, closes a connection that is idle or old    *)
(* and opens another for the next statement.                               *)
(*                                                                         *)
(* A request carries a string of statements, which run one after another   *)
(* until one fails; there is one answer for the string, and what ran       *)
(* before the failure stays (sqlite.rs:223 and 277).  A step is one        *)
(* statement; answered tells whether its string was answered as done.      *)
(*                                                                         *)
(* Every insert has a row of its own.  belief, promised and withdrawn are  *)
(* what the app may conclude from the answers it got: no guard reads them. *)
(***************************************************************************)
EXTENDS Naturals

CONSTANTS
    SqliteApp,     \* apps that declare the capability
    Db,            \* database names, as given to "open"
    File,          \* database files
    FileOf,        \* the file a name of an app leads to, NoFile if it is refused
    MaxRows,       \* bound: inserts
    NoFile,        \* no database is open
    NoTransaction,
    Unsure         \* an app that cannot tell whether a transaction is open

ASSUME SqliteAssumption ==
    /\ NoFile \notin File
    /\ FileOf \in [SqliteApp -> [Db -> File \cup {NoFile}]]
    /\ MaxRows \in Nat
    /\ \A rows \in SUBSET (1..MaxRows) : rows # NoTransaction /\ rows # Unsure
    /\ NoTransaction # Unsure

VARIABLES
    pools,         \* SqliteConnectionStore::connections
    disk,          \* the committed rows of each file
    inserted,      \* rows so far
    belief,        \* the file and the transaction each app thinks it has
    promised,      \* rows of a file that were answered as written for good
    withdrawn      \* rows of a file that were answered as rolled back

sqliteVars == <<pools, disk, inserted, belief, promised, withdrawn>>

RowId == 1..MaxRows
Pool == [file: File \cup {NoFile}, pending: {NoTransaction} \cup SUBSET RowId]
Belief == [file: File \cup {NoFile}, pending: {NoTransaction, Unsure} \cup SUBSET RowId]
NoPool == [file |-> NoFile, pending |-> NoTransaction]
Rows == [File -> SUBSET RowId]

SqliteTypeOK ==
    /\ pools \in [SqliteApp -> Pool]
    /\ disk \in Rows
    /\ inserted \in 0..MaxRows
    /\ belief \in [SqliteApp -> Belief]
    /\ promised \in Rows
    /\ withdrawn \in Rows

SqliteInit ==
    /\ pools = [a \in SqliteApp |-> NoPool]
    /\ disk = [f \in File |-> {}]
    /\ inserted = 0
    /\ belief = [a \in SqliteApp |-> NoPool]
    /\ promised = [f \in File |-> {}]
    /\ withdrawn = [f \in File |-> {}]

-----------------------------------------------------------------------------
(* handle_sqlite_request.                                                  *)

\* The path has to begin with the app's directory.  It is compared as it is
\* written, with any ".." left in it, so that a name may lead to the file of
\* another app: FileOf may map two apps to one file.
OpenRefused(a, d) == FileOf[a][d] = NoFile /\ UNCHANGED sqliteVars

\* No directory, no connection or no pragma: the store stays as it was.
OpenFails(a, d) == FileOf[a][d] # NoFile /\ UNCHANGED sqliteVars

\* The new pool takes the place of the old one, which is dropped.
Opened(a, d) ==
    LET pool == [file |-> FileOf[a][d], pending |-> NoTransaction]
    IN  /\ FileOf[a][d] # NoFile
        /\ pools' = [pools EXCEPT ![a] = pool]
        /\ belief' = [belief EXCEPT ![a] = pool]
        /\ UNCHANGED <<disk, inserted, promised, withdrawn>>

OpenDatabase(a, d) == OpenRefused(a, d) \/ OpenFails(a, d) \/ Opened(a, d)

\* Closing what is not open is answered like any other.
CloseDatabase(a) ==
    /\ pools' = [pools EXCEPT ![a] = NoPool]
    /\ belief' = [belief EXCEPT ![a] = NoPool]
    /\ UNCHANGED <<disk, inserted, promised, withdrawn>>

IsOpen(a) == pools[a].file # NoFile

\* "query" and "execute" on an app without a pool.
NotOpen(a) ==
    /\ ~IsOpen(a)
    /\ UNCHANGED sqliteVars

-----------------------------------------------------------------------------
(* A statement, by "query" or by "execute".                                *)

\* It leaves a transaction, or none, and writes rows for good.
Runs(a, pending, written) ==
    /\ IsOpen(a)
    /\ pools' = [pools EXCEPT ![a].pending = pending]
    /\ disk' = [disk EXCEPT ![pools[a].file] = @ \cup written]

\* What the app concludes: which transaction it has, which rows are kept and
\* which undone.  After an error it cannot tell how much of its string ran.
\* One that did not open the database itself, as its worker is a new one,
\* concludes nothing.
Concludes(a, answered, pending, kept, undone) ==
    IF belief[a].file = NoFile
    THEN UNCHANGED <<belief, promised, withdrawn>>
    ELSE IF answered
    THEN /\ belief' = [belief EXCEPT ![a].pending = pending]
         /\ promised' = [promised EXCEPT ![belief[a].file] = @ \cup kept]
         /\ withdrawn' = [withdrawn EXCEPT ![belief[a].file] = @ \cup undone]
    ELSE /\ belief' = [belief EXCEPT ![a].pending = Unsure]
         /\ UNCHANGED <<promised, withdrawn>>

Begin(a, answered) ==
    /\ pools[a].pending = NoTransaction
    /\ Runs(a, {}, {})
    /\ Concludes(a, answered, {}, {}, {})
    /\ UNCHANGED inserted

\* SQLite lets one connection at a time write to a file.
MayWrite(a) ==
    \A b \in SqliteApp \ {a} :
        pools[b].file = pools[a].file => pools[b].pending \in {NoTransaction, {}}

\* A variant for the checks: the statement runs on another connection.
StoreRowVariant(a, row) == Runs(a, pools[a].pending, {row})

\* In the connection's transaction, or in one of its own.
StoreRow(a, row) ==
    IF pools[a].pending = NoTransaction
    THEN Runs(a, NoTransaction, {row})
    ELSE Runs(a, pools[a].pending \cup {row}, {})

\* The rows an app knows to be in its transaction, if it has one.
Believed(a) ==
    IF belief[a].pending \in {NoTransaction, Unsure} THEN {} ELSE belief[a].pending

\* The answer is of a row that is written, of one in the app's transaction,
\* or of either.
Insert(a, answered) ==
    LET row == inserted + 1
        known == belief[a].pending
    IN  /\ inserted < MaxRows
        /\ inserted' = row
        /\ MayWrite(a)
        /\ StoreRow(a, row)
        /\ \/ /\ known = NoTransaction
              /\ Concludes(a, answered, NoTransaction, {row}, {})
           \/ /\ known = Unsure
              /\ Concludes(a, answered, Unsure, {}, {})
           \/ /\ known \notin {NoTransaction, Unsure}
              /\ Concludes(a, answered, known \cup {row}, {}, {})

Commit(a, answered) ==
    /\ pools[a].pending # NoTransaction
    /\ Runs(a, NoTransaction, pools[a].pending)
    /\ Concludes(a, answered, NoTransaction, Believed(a), {})
    /\ UNCHANGED inserted

Rollback(a, answered) ==
    /\ pools[a].pending # NoTransaction
    /\ Runs(a, NoTransaction, {})
    /\ Concludes(a, answered, NoTransaction, {}, Believed(a))
    /\ UNCHANGED inserted

\* A statement that stores nothing.
StatementReads(a) == IsOpen(a) /\ UNCHANGED sqliteVars

\* A BEGIN within a transaction, a COMMIT or a ROLLBACK outside of one, a file
\* that another connection is writing to, or any statement SQLite refuses: it
\* does nothing itself, but some failures end the transaction it is in.  The
\* statements of its string that ran before it are steps of their own.
StatementFails(a) ==
    /\ IsOpen(a)
    /\ pools' \in {pools, [pools EXCEPT ![a].pending = NoTransaction]}
    /\ UNCHANGED <<disk, inserted, belief, promised, withdrawn>>

-----------------------------------------------------------------------------
(* What else happens to a pool.                                            *)

\* The pool replaces its connection between two requests.
ConnectionRecycled(a) ==
    /\ IsOpen(a)
    /\ pools' = [pools EXCEPT ![a].pending = NoTransaction]
    /\ UNCHANGED <<disk, inserted, belief, promised, withdrawn>>

\* The core ends and is started again; the apps are not told.
PoolsLost ==
    /\ pools' = [a \in SqliteApp |-> NoPool]
    /\ UNCHANGED <<disk, inserted, belief, promised, withdrawn>>

\* The app's worker ends; the next one has opened nothing yet.
WorkerRestarts(a) ==
    /\ belief' = [belief EXCEPT ![a] = NoPool]
    /\ UNCHANGED <<pools, disk, inserted, promised, withdrawn>>

Statement(a) ==
    \/ \E answered \in BOOLEAN :
          Begin(a, answered) \/ Insert(a, answered) \/ Commit(a, answered) \/ Rollback(a, answered)
    \/ StatementReads(a)
    \/ StatementFails(a)

HandleSqliteRequest(a) ==
    \/ \E d \in Db : OpenDatabase(a, d)
    \/ CloseDatabase(a)
    \/ NotOpen(a)
    \/ Statement(a)

SqliteNext ==
    \/ \E a \in SqliteApp :
          HandleSqliteRequest(a) \/ ConnectionRecycled(a) \/ WorkerRestarts(a)
    \/ PoolsLost

SqliteSpec == SqliteInit /\ [][SqliteNext]_sqliteVars

-----------------------------------------------------------------------------
\* The rows that the end of a pool's connection undoes.
Uncommitted(a) == IF pools[a].pending = NoTransaction THEN {} ELSE pools[a].pending

(* What an app and its pool hold of the same transaction.                  *)
BeliefMatches(a) ==
    belief[a].file # NoFile =>
       /\ pools[a].file \in {NoFile, belief[a].file}
       /\ belief[a].pending = NoTransaction => pools[a].pending = NoTransaction
       /\ pools[a].pending # NoTransaction => Believed(a) \subseteq pools[a].pending

(* An uncommitted row is in one pool, and in no file and no answer yet.    *)
RowsAreFresh ==
    /\ \A f \in File : \A row \in disk[f] \cup withdrawn[f] : row <= inserted
    /\ \A a \in SqliteApp :
          /\ pools[a].file = NoFile => pools[a].pending = NoTransaction
          /\ \A row \in Uncommitted(a) :
                /\ row <= inserted
                /\ \A f \in File : row \notin disk[f] \cup withdrawn[f]
                /\ \A b \in SqliteApp \ {a} : row \notin Uncommitted(b)

(* What an app may conclude from its answers holds on disk.  A row that    *)
(* was answered as written while the app knew of no transaction, or that   *)
(* was in one whose BEGIN and COMMIT were answered as done with no error   *)
(* in between that left it unsure, is in the file it opened last; a row    *)
(* before a ROLLBACK that was answered so is not: whatever strings of its  *)
(* own failed halfway before that, whatever was opened again, refused,     *)
(* recycled or restarted in between, and whoever shares the file.  An app  *)
(* whose string failed after its first statement concludes nothing before  *)
(* its next answered BEGIN, COMMIT, ROLLBACK or open: a BEGIN of that      *)
(* string may be open, and take its later answered inserts with it.        *)
AnswersHoldOnDisk ==
    /\ SqliteTypeOK
    /\ \A f \in File :
          /\ promised[f] \subseteq disk[f]
          /\ withdrawn[f] \cap disk[f] = {}

(* The inductive invariant behind it.                                      *)
SqliteIInv ==
    /\ AnswersHoldOnDisk
    /\ RowsAreFresh
    /\ \A a \in SqliteApp : BeliefMatches(a)
=============================================================================
