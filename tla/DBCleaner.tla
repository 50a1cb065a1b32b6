------------------------------ MODULE DBCleaner ------------------------------
(***************************************************************************)
(* suite.DeleteCreatedEntities as DBTestSuite uses it: one cleaner for the *)
(* whole suite and one for each test.  While a cleaner's gorm hook is      *)
(* registered, every Create appends the row's keys to the cleaner's list;  *)
(* cleaning deletes the listed rows, last one first, in a transaction.  It *)
(* removes the hook and keeps the list: a test may call its cleaner before *)
(* TearDownTest does, and go on.                                           *)
(*                                                                         *)
(* gorm and PostgreSQL are external.  A row is identified by its table and *)
(* primary key, and refers to at most one other row.                       *)
(***************************************************************************)
EXTENDS Naturals, Sequences, FiniteSets

CONSTANTS
    Rows,
    NoRow,
    Parent,       \* the row a row refers to by a foreign key, or NoRow
    Keyless,      \* rows of tables without a primary key
    Goroutines,   \* of a test, they create rows concurrently
    MaxTests,     \* bound: tests in the suite
    MaxEntities,  \* bound: rows a cleaner has listed when one more is created
    MaxCrossings  \* bound: Creates that overlap others

ASSUME DBCleanerAssumption ==
    /\ NoRow \notin Rows
    /\ Parent \in [Rows -> Rows \cup {NoRow}]
    /\ \A r \in Rows : Parent[r] # r
    /\ Keyless \subseteq Rows
    /\ MaxTests \in Nat /\ MaxEntities \in Nat /\ MaxCrossings \in Nat

Cleaners == {"suite", "test"}

VARIABLES
    reporting,  \* IsCleanTestDataErrorReportingRequired()
    deferrable, \* are the database's constraints deferrable
    rows,       \* the committed contents of the database
    phase,      \* "suite": between tests, "test", "cleaning", "over"
    tests,      \* tests that were started
    hooks,      \* cleaners whose hook is registered with gorm
    entities,   \* each cleaner's list
    hook,       \* per goroutine: the cleaner whose hook it is in, or "none"
    inserted,   \* per goroutine: the row of its last Create
    read,       \* per goroutine: the list its hook has read, or Unread
    tx,         \* the cleaning transaction
    created,    \* ghost: rows created by gorm while the cleaner was recording
    collided,   \* ghost: a Create of the cleaner's time has failed
    crossed,    \* ghost: how many Creates of the cleaner's time began during others
    raced,      \* ghost: an append to the cleaner's list has overwritten another
    report      \* what the last cleaner returned

settings == <<reporting, deferrable>>
cleanVars == <<settings, phase, tests, hooks, tx, report>>
hookVars == <<entities, hook, read>>
ghosts == <<created, collided, crossed, raced>>
vars == <<rows, cleanVars, hookVars, inserted, ghosts>>

Unread == <<NoRow>>
NoTx == [cleaner |-> "none", view |-> {}, aborted |-> FALSE, deferred |-> FALSE, left |-> 0]

Children(r, db) == {c \in db : Parent[c] = r}
Consistent(db) == \A r \in db : Parent[r] \in db \cup {NoRow}

Init ==
    /\ reporting \in BOOLEAN /\ deferrable \in BOOLEAN
    /\ rows \in {db \in SUBSET Rows : Consistent(db)}
    /\ phase = "suite"
    /\ tests = 0
    /\ hooks = {"suite"}                            \* SetupSuite
    /\ entities = [c \in Cleaners |-> <<>>]
    /\ hook = [g \in Goroutines |-> "none"]
    /\ inserted = [g \in Goroutines |-> NoRow]
    /\ read = [g \in Goroutines |-> Unread]
    /\ tx = NoTx
    /\ created = [c \in Cleaners |-> {}]
    /\ collided = [c \in Cleaners |-> FALSE]
    /\ crossed = [c \in Cleaners |-> 0]
    /\ raced = [c \in Cleaners |-> FALSE]
    /\ report = "none"

Pending == {g \in Goroutines : hook[g] # "none"}
Quiet == Pending = {}
Running == phase \in {"suite", "test"}

-----------------------------------------------------------------------------
(* What tests do, and the hook.                                            *)

\* db.Create: the hook runs after gorm:create, also if that failed.
Create(g, r) ==
    /\ Running /\ hook[g] = "none"
    /\ Quiet \/ crossed["suite"] < MaxCrossings
    /\ \A c \in hooks : Len(entities[c]) + Cardinality(Pending) < MaxEntities
    /\ LET ok == (r \in rows => r \in Keyless) /\ Parent[r] \in rows \cup {NoRow}
       IN  /\ rows' = IF ok THEN rows \cup {r} ELSE rows
           /\ created' = [c \in Cleaners |-> IF ok /\ c \in hooks THEN created[c] \cup {r} ELSE created[c]]
           /\ collided' = [c \in Cleaners |-> collided[c] \/ (~ok /\ c \in hooks)]
           /\ crossed' = [c \in Cleaners |-> IF ~Quiet /\ c \in hooks THEN crossed[c] + 1 ELSE crossed[c]]
    /\ hook' = [hook EXCEPT ![g] = "suite"]
    /\ inserted' = [inserted EXCEPT ![g] = r]
    /\ UNCHANGED <<cleanVars, entities, read, raced>>

\* entities = append(entities, ...), without synchronization: first it is read ...
Read(g) ==
    /\ hook[g] # "none" /\ read[g] = Unread
    /\ read' = [read EXCEPT ![g] = entities[hook[g]]]
    /\ UNCHANGED <<rows, cleanVars, entities, hook, inserted, ghosts>>

\* ... then assigned; then comes the test's hook, with its own list.
Record(g) ==
    LET c == hook[g]
        next == IF c = "suite" /\ "test" \in hooks THEN "test" ELSE "none"
    IN  /\ c # "none" /\ read[g] # Unread
        /\ raced' = [raced EXCEPT ![c] = @ \/ read[g] # entities[c]]
        /\ entities' = [entities EXCEPT ![c] = Append(read[g], inserted[g])]
        /\ hook' = [hook EXCEPT ![g] = next]
        /\ read' = [read EXCEPT ![g] = Unread]
        /\ inserted' = [inserted EXCEPT ![g] = IF next = "none" THEN NoRow ELSE @]
        /\ UNCHANGED <<rows, cleanVars, created, collided, crossed>>

Listed(c) == {entities[c][i] : i \in 1..Len(entities[c])}

\* Rows that come from elsewhere, SQL scripts or fixtures, with keys of their
\* own.
InsertBySQL(r) ==
    /\ Running /\ Quiet
    /\ \A c \in Cleaners : r \notin Listed(c)
    /\ r \notin rows /\ Parent[r] \in rows \cup {NoRow}
    /\ rows' = rows \cup {r}
    /\ UNCHANGED <<cleanVars, hookVars, inserted, ghosts>>

Delete(r) ==
    /\ Running /\ Quiet
    /\ r \in rows /\ Children(r, rows) = {}
    /\ rows' = rows \ {r}
    /\ UNCHANGED <<cleanVars, hookVars, inserted, ghosts>>

\* The ghosts of a cleaner are about its own time.
Forget(c) ==
    /\ created' = [created EXCEPT ![c] = {}]
    /\ collided' = [collided EXCEPT ![c] = FALSE]
    /\ crossed' = [crossed EXCEPT ![c] = 0]
    /\ raced' = [raced EXCEPT ![c] = FALSE]

\* Mutant: the list is shared by the cleaners of all tests.
SetupWithOldList ==
    /\ phase = "suite" /\ Quiet /\ tests < MaxTests
    /\ phase' = "test"
    /\ tests' = tests + 1
    /\ hooks' = hooks \cup {"test"}
    /\ report' = "none"
    /\ Forget("test")
    /\ UNCHANGED <<settings, rows, hookVars, inserted, tx>>

SetupTest ==
    /\ phase = "suite" /\ Quiet /\ tests < MaxTests
    /\ phase' = "test"
    /\ tests' = tests + 1
    /\ hooks' = hooks \cup {"test"}
    /\ entities' = [entities EXCEPT !["test"] = <<>>]
    /\ report' = "none"
    /\ Forget("test")
    /\ UNCHANGED <<settings, rows, hook, read, inserted, tx>>

-----------------------------------------------------------------------------
(* The function DeleteCreatedEntities returned, run by TearDownTest and by *)
(* TearDownSuite, and by tests that look at what it leaves.                *)

\* It returns, to the test or to the suite that called it; the deferred
\* function removes the hook, and its list stays.
Finish(c, outcome) ==
    /\ phase' \in IF c = "test" THEN {"test", "suite"} ELSE {"over"}
    /\ hooks' = hooks \ {c}
    /\ tx' = NoTx
    /\ report' = outcome
    /\ UNCHANGED <<settings, tests, hookVars, inserted, ghosts>>

\* Mutant: the loop starts one too low.
AllButLast(c) == IF entities[c] = <<>> THEN 0 ELSE Len(entities[c]) - 1

NumberOf(c) == Len(entities[c])

\* SET CONSTRAINTS ALL DEFERRED; if it fails that is logged, and the
\* transaction is aborted.
Clean(c) ==
    /\ Quiet
    /\ phase = (IF c = "test" THEN "test" ELSE "suite")
    /\ phase' = "cleaning"
    /\ \E fails \in BOOLEAN :
          tx' = [cleaner |-> c, view |-> rows, aborted |-> fails,
                 deferred |-> deferrable /\ ~fails, left |-> NumberOf(c)]
    /\ UNCHANGED <<settings, rows, tests, hooks, report, hookVars, inserted, ghosts>>

\* Begin fails: there is no transaction to use, the function panics.
BeginFails(c) ==
    /\ Quiet
    /\ phase = (IF c = "test" THEN "test" ELSE "suite")
    /\ Finish(c, "panic")
    /\ UNCHANGED rows

\* Mutant: the rows are deleted in the order they were created.
OldestRow == entities[tx.cleaner][Len(entities[tx.cleaner]) + 1 - tx.left]

NextRow == entities[tx.cleaner][tx.left]

Blocked(r) == tx.aborted \/ (~tx.deferred /\ Children(r, tx.view) # {})

\* Mutant: each row is deleted for good at once.
DeleteAndCommit ==
    /\ phase = "cleaning" /\ tx.left > 0 /\ NextRow \notin Keyless /\ ~Blocked(NextRow)
    /\ tx' = [tx EXCEPT !.view = @ \ {NextRow}, !.left = @ - 1]
    /\ rows' = rows \ {NextRow}
    /\ UNCHANGED <<settings, phase, tests, hooks, report, hookVars, inserted, ghosts>>

DeleteNext ==
    /\ phase = "cleaning" /\ tx.left > 0 /\ NextRow \notin Keyless /\ ~Blocked(NextRow)
    /\ tx' = [tx EXCEPT !.view = @ \ {NextRow}, !.left = @ - 1]
    /\ UNCHANGED <<settings, rows, phase, tests, hooks, report, hookVars, inserted, ghosts>>

\* A row without keys is skipped, a failed statement (for a constraint, in an
\* aborted transaction, or with the connection) ignored ...
SkipNext ==
    /\ ~reporting
    /\ phase = "cleaning" /\ tx.left > 0
    /\ tx' = [tx EXCEPT !.left = @ - 1, !.aborted = @ \/ NextRow \notin Keyless]
    /\ UNCHANGED <<settings, rows, phase, tests, hooks, report, hookVars, inserted, ghosts>>

\* ... unless errors are reported: then the transaction is rolled back.
RollbackAndReport ==
    /\ reporting
    /\ phase = "cleaning" /\ tx.left > 0
    /\ Finish(tx.cleaner, "error")
    /\ UNCHANGED rows

Committable == ~tx.aborted /\ Consistent(tx.view)

\* An error comes back; if it is the connection's, COMMIT may have taken effect.
CommitFails ==
    /\ phase = "cleaning" /\ tx.left = 0
    /\ rows' = rows \/ (Committable /\ rows' = tx.view)
    /\ Finish(tx.cleaner, IF reporting THEN "error" ELSE "nil")

Commit ==
    /\ phase = "cleaning" /\ tx.left = 0 /\ Committable
    /\ rows' = tx.view
    /\ Finish(tx.cleaner, "nil")

Cleaning == (\E c \in Cleaners : Clean(c) \/ BeginFails(c)) \/ DeleteNext \/ SkipNext \/ RollbackAndReport \/ CommitFails \/ Commit

Testing ==
    \/ \E g \in Goroutines : Read(g) \/ Record(g) \/ \E r \in Rows : Create(g, r)
    \/ \E r \in Rows : InsertBySQL(r) \/ Delete(r)
    \/ SetupTest

Next == Testing \/ Cleaning

Spec == Init /\ [][Next]_vars

-----------------------------------------------------------------------------
(* Properties.                                                             *)

\* The variables stay in their types, and outside its time no cleaner's hook
\* is left with gorm (test/suite/db_clean.go:41-118).
TypeOK ==
    /\ rows \in SUBSET Rows /\ Consistent(rows)
    /\ phase \in {"suite", "test", "cleaning", "over"}
    /\ tests \in 0..MaxTests
    /\ hooks \subseteq Cleaners /\ ("suite" \in hooks <=> phase # "over")
    /\ "test" \in hooks => phase = "test" \/ tx.cleaner = "test"
    /\ entities \in [Cleaners -> Seq(Rows)]
    /\ hook \in [Goroutines -> Cleaners \cup {"none"}]
    /\ inserted \in [Goroutines -> Rows \cup {NoRow}]
    /\ read \in [Goroutines -> Seq(Rows) \cup {Unread}]
    /\ tx \in [cleaner : Cleaners \cup {"none"}, view : SUBSET Rows, aborted : BOOLEAN,
               deferred : BOOLEAN, left : Nat]
    /\ phase = "cleaning" => tx.left <= NumberOf(tx.cleaner)
    /\ report \in {"none", "nil", "error", "panic"}

\* If a cleaner returns nil, at its first call or a later one, nothing is left
\* of what was created through gorm while its hook was registered; any error
\* has been reported if IsCleanTestDataErrorReportingRequired().  Concurrent
\* Creates do not change that, unless one of their appends overwrote another's
\* (test/suite/db_clean.go:55-113).
NilMeansClean ==
    [][reporting /\ phase = "cleaning" /\ phase' # "cleaning" /\ ~raced[tx.cleaner] /\ report' = "nil"
         => created[tx.cleaner] \cap rows' = {}]_vars

\* Cleaning deletes all the listed rows or nothing, also if statements fail
\* and errors are not reported, or COMMIT took effect and its answer was lost
\* (test/suite/db_clean.go:59-111).
CleansAllOrNothing ==
    [][phase = "cleaning" =>
         rows' = rows \/ rows' \cap (Listed(tx.cleaner) \ Keyless) = {}]_vars

\* Last in, first out respects foreign keys that cannot be deferred: when a
\* cleaner is called for the first time a row is deleted after the rows created
\* in the same time that refer to it, if every Create of that time succeeded
\* and no two of them overlapped.  Only rows without keys, which are never
\* deleted, are in its way.  Called again, a cleaner has an old list, and what
\* was created since is not on it (test/suite/db_clean.go:55, 65-91).
ReverseOrderSuffices ==
    /\ phase = "cleaning" /\ tx.cleaner \in hooks /\ tx.left > 0 /\ NextRow \notin Keyless /\ ~tx.aborted
    /\ ~collided[tx.cleaner] /\ crossed[tx.cleaner] = 0
    => Children(NextRow, tx.view) \cap created[tx.cleaner] \subseteq Keyless

\* The two state predicates above.
CleanerInv == TypeOK /\ ReverseOrderSuffices

\* A test's cleaner, and the suite's, leaves alone what was not created through
\* gorm while its hook was registered, however often it is called, if every
\* Create of that time succeeded (test/suite/db_clean.go:48-56, 65-100).
LeavesOthersAlone ==
    [][phase = "cleaning" /\ ~collided[tx.cleaner] => rows \ created[tx.cleaner] \subseteq rows']_vars

\* Only created entities are deleted (test/suite/db_clean.go:14-16: "records
\* all created entities [...] to delete created entities").  The code
\* records also those whose creation failed.
DeletesOnlyCreated ==
    [][phase = "cleaning" => rows \ created[tx.cleaner] \subseteq rows']_vars
==============================================================================
