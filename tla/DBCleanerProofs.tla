-------------------------- MODULE DBCleanerProofs --------------------------
(***************************************************************************)
(* What a cleaner deletes, for any rows and foreign keys, any number of    *)
(* goroutines, and any failures of statements.                             *)
(***************************************************************************)
EXTENDS DBCleaner, TLAPS

-----------------------------------------------------------------------------
(* The inductive invariant.                                                *)

\* The goroutines that have still to append their row to c's list.
Ahead(c) == {g \in Goroutines : hook[g] = c \/ (hook[g] = "suite" /\ c = "test" /\ "test" \in hooks)}

\* While a cleaner works, and after the suite, nothing is created; a goroutine
\* is in the hooks that are registered, and between Creates nothing is read.
Phases ==
    /\ phase = "cleaning" <=> tx.cleaner # "none"
    /\ phase \in {"cleaning", "over"} => Quiet
    /\ \A g \in Goroutines :
          /\ hook[g] = "test" => "test" \in hooks
          /\ hook[g] = "none" => read[g] = Unread
          /\ hook[g] # "none" => inserted[g] \in Rows
          /\ read[g] # Unread => read[g] \in Seq(Rows)

Holds(list) == {list[i] : i \in 1..Len(list)}

\* Unless an append has overwritten another one, what was created is listed,
\* or will be.
NothingLost(c) ==
    ~raced[c] => created[c] \subseteq Listed(c) \cup {inserted[g] : g \in Ahead(c)}

\* Unless a Create has failed, what is listed, or will be, was created.
NothingForeign(c) ==
    ~collided[c] =>
        /\ Listed(c) \subseteq created[c]
        /\ \A g \in Ahead(c) : inserted[g] \in created[c]
        /\ \A g \in Goroutines : hook[g] = c /\ read[g] # Unread => Holds(read[g]) \subseteq created[c]

\* Without overlapping Creates one goroutine at a time is in the hooks, and
\* has read the list that is there.
OneByOne(c) ==
    crossed[c] = 0 =>
        /\ ~raced[c]
        /\ \A g, h \in Pending : g = h
        /\ \A g \in Goroutines : hook[g] = c /\ read[g] # Unread => read[g] = entities[c]

\* r is listed after position j, or will be.
ListedAfter(c, r, j) ==
    \/ \E k \in 1..Len(entities[c]) : k > j /\ entities[c][k] = r
    \/ \E g \in Ahead(c) : inserted[g] = r

\* If moreover no Create has failed, a listed row that is in the database comes
\* after the row it refers to, wherever that is listed; and nothing refers to
\* a row yet that has still to be listed.
ChildrenLast(c) ==
    crossed[c] = 0 /\ ~collided[c] =>
        /\ \A r \in rows \cap Listed(c), j \in 1..Len(entities[c]) :
              entities[c][j] = Parent[r] /\ Parent[r] \notin Keyless => ListedAfter(c, r, j)
        /\ \A g \in Ahead(c) : inserted[g] \notin Keyless => Children(inserted[g], rows) = {}

\* The order of a list is kept until its cleaner is called; what it holds, until
\* the next test.
ListOK(c) == NothingLost(c) /\ NothingForeign(c) /\ (c \in hooks => OneByOne(c) /\ ChildrenLast(c))

ListInv == \A c \in Cleaners : ListOK(c)

\* The transaction deletes listed rows only; as long as it can still be
\* committed it has deleted all of them from the end of the list on, but
\* those without keys.
TxInv ==
    phase = "cleaning" =>
        /\ tx.view \subseteq rows
        /\ rows \ tx.view \subseteq Listed(tx.cleaner)
        /\ ~tx.aborted =>
              \A i \in 1..Len(entities[tx.cleaner]) :
                  i > tx.left /\ entities[tx.cleaner][i] \in tx.view =>
                      entities[tx.cleaner][i] \in Keyless /\ ~reporting

GhostTypes ==
    /\ reporting \in BOOLEAN /\ deferrable \in BOOLEAN
    /\ created \in [Cleaners -> SUBSET Rows]
    /\ collided \in [Cleaners -> BOOLEAN] /\ raced \in [Cleaners -> BOOLEAN]
    /\ crossed \in [Cleaners -> Nat]

CleanInv == TypeOK /\ GhostTypes /\ Phases /\ ListInv /\ TxInv

-----------------------------------------------------------------------------
(* Frames.                                                                 *)

\* The invariant of the lists is not about the transaction.
LEMMA ListFrame ==
    ASSUME ListInv, UNCHANGED <<rows, hooks, entities, hook, read, inserted, created, collided, crossed, raced>>
    PROVE  ListInv'
<1>1. ASSUME NEW c \in Cleaners
      PROVE  /\ NothingLost(c)' = NothingLost(c) /\ NothingForeign(c)' = NothingForeign(c)
             /\ OneByOne(c)' = OneByOne(c) /\ ChildrenLast(c)' = ChildrenLast(c)
  <2>1. Listed(c)' = Listed(c) /\ Ahead(c)' = Ahead(c) /\ Pending' = Pending
    BY DEF Listed, Ahead, Pending
  <2>2. \A g : (Holds(read[g]))' = Holds(read[g])
    BY DEF Holds
  <2>3. \A r, j : ListedAfter(c, r, j)' = ListedAfter(c, r, j)
    BY <2>1 DEF ListedAfter
  <2>4. \A g : Children(inserted[g], rows)' = Children(inserted[g], rows)
    BY DEF Children
  <2>. QED
    BY <2>1, <2>2, <2>3, <2>4 DEF NothingLost, NothingForeign, OneByOne, ChildrenLast
<1>. QED
  BY <1>1 DEF ListInv, ListOK

\* Between Creates nobody has anything to append or has read a list.
LEMMA QuietFacts ==
    ASSUME Quiet, CleanInv
    PROVE  /\ \A g \in Goroutines : hook[g] = "none" /\ read[g] = Unread
           /\ \A c \in Cleaners : Ahead(c) = {}
<1>1. \A g \in Goroutines : hook[g] = "none"
  BY DEF Quiet, Pending
<1>2. \A g \in Goroutines : read[g] = Unread
  BY <1>1 DEF CleanInv, Phases
<1>. QED
  BY <1>1, <1>2 DEF Ahead, Cleaners

\* Between Creates the invariant of the lists says only this.
SettledList(c) ==
    /\ ~raced[c] => created[c] \subseteq Listed(c)
    /\ ~collided[c] => Listed(c) \subseteq created[c]
    /\ c \in hooks /\ crossed[c] = 0 => ~raced[c]
    /\ c \in hooks /\ crossed[c] = 0 /\ ~collided[c] =>
          \A r \in rows \cap Listed(c), j \in 1..Len(entities[c]) :
              entities[c][j] = Parent[r] /\ Parent[r] \notin Keyless =>
                  \E k \in 1..Len(entities[c]) : k > j /\ entities[c][k] = r

\* So it does.
LEMMA Settled ==
    ASSUME Quiet, CleanInv, NEW c \in Cleaners
    PROVE  SettledList(c)
<1>1. Ahead(c) = {}
  BY QuietFacts
<1>2. NothingLost(c) /\ NothingForeign(c) /\ (c \in hooks => OneByOne(c) /\ ChildrenLast(c))
  BY DEF CleanInv, ListInv, ListOK
<1>. QED
  BY <1>1, <1>2 DEF NothingLost, NothingForeign, OneByOne, ChildrenLast, SettledList, ListedAfter

\* And it suffices.
LEMMA Settle ==
    ASSUME Quiet, CleanInv, NEW c \in Cleaners, UNCHANGED <<hook, read>>, SettledList(c)'
    PROVE  ListOK(c)'
<1>1. Ahead(c)' = {} /\ Pending' = {}
  <2>1. Pending = {} /\ \A g \in Goroutines : hook[g] = "none"
    BY QuietFacts DEF Quiet
  <2>. QED
    BY <2>1 DEF Ahead, Pending, Cleaners
<1>2. \A g \in Goroutines : read'[g] = Unread
  BY QuietFacts
<1>3. (NothingLost(c) /\ NothingForeign(c))'
  BY <1>1, <1>2 DEF SettledList, NothingLost, NothingForeign
<1>4. (c \in hooks => OneByOne(c))'
  BY <1>1, <1>2 DEF SettledList, OneByOne
<1>5. (c \in hooks => ChildrenLast(c))'
  BY <1>1 DEF SettledList, ChildrenLast, ListedAfter
<1>. QED
  BY <1>3, <1>4, <1>5 DEF ListOK

-----------------------------------------------------------------------------
(* Cleaning.                                                               *)

\* A cleaner that returns keeps its list, as the others do.
LEMMA FinishStep ==
    ASSUME CleanInv, Quiet, NEW c \in Cleaners, NEW outcome \in {"nil", "error", "panic"}, Finish(c, outcome),
           rows' \subseteq rows, Consistent(rows)',
           \/ phase = "cleaning" /\ c = tx.cleaner
           \/ phase = (IF c = "test" THEN "test" ELSE "suite")
    PROVE  CleanInv'
<1>1. /\ UNCHANGED <<reporting, deferrable, tests, entities, hook, read, inserted,
                     created, collided, crossed, raced>>
      /\ phase' \in (IF c = "test" THEN {"test", "suite"} ELSE {"over"})
      /\ hooks' = hooks \ {c} /\ tx' = NoTx /\ report' = outcome
  BY DEF Finish, settings, hookVars, ghosts
<1>2. tx'.cleaner = "none" /\ phase' \in {"test", "suite", "over"}
  BY <1>1 DEF NoTx
<1>3. TypeOK'
  <2>1. (rows \in SUBSET Rows /\ Consistent(rows) /\ tests \in 0..MaxTests)'
    BY <1>1 DEF CleanInv, TypeOK
  <2>2. (phase \in {"suite", "test", "cleaning", "over"})'
    BY <1>2
  <2>3. /\ hooks' \subseteq Cleaners /\ ("suite" \in hooks' <=> phase' # "over")
        /\ "test" \in hooks' => phase' = "test" \/ tx'.cleaner = "test"
    <3>1. phase # "cleaning" => tx.cleaner = "none"
      BY DEF CleanInv, TypeOK, Phases
    <3>2. c = "suite" => phase # "test" /\ tx.cleaner # "test"
      BY <3>1
    <3>3. /\ hooks \subseteq Cleaners /\ ("suite" \in hooks <=> phase # "over")
          /\ "test" \in hooks => phase = "test" \/ tx.cleaner = "test"
      BY DEF CleanInv, TypeOK
    <3>4. phase # "over"
      OBVIOUS
    <3>. QED
      BY <1>1, <1>2, <3>2, <3>3, <3>4 DEF Cleaners
  <2>4. (entities \in [Cleaners -> Seq(Rows)] /\ read \in [Goroutines -> Seq(Rows) \cup {Unread}])'
    BY <1>1 DEF CleanInv, TypeOK, Unread
  <2>5. (hook \in [Goroutines -> Cleaners \cup {"none"}] /\ inserted \in [Goroutines -> Rows \cup {NoRow}])'
    BY <1>1 DEF CleanInv, TypeOK, Cleaners
  <2>6. (tx \in [cleaner : Cleaners \cup {"none"}, view : SUBSET Rows, aborted : BOOLEAN, deferred : BOOLEAN, left : Nat])'
    BY <1>1 DEF NoTx
  <2>7. (report \in {"none", "nil", "error", "panic"})'
    BY <1>1
  <2>. QED
    BY <1>2, <2>1, <2>2, <2>3, <2>4, <2>5, <2>6, <2>7 DEF TypeOK
<1>4. GhostTypes'
  BY <1>1 DEF CleanInv, GhostTypes
<1>5. Phases'
  <2>1. Quiet' /\ \A g \in Goroutines : hook'[g] = "none" /\ read'[g] = Unread
    BY <1>1, QuietFacts DEF Quiet, Pending
  <2>2. \A g \in Goroutines : read[g] # Unread => read[g] \in Seq(Rows)
    BY DEF CleanInv, Phases
  <2>. QED
    BY <1>1, <1>2, <2>1, <2>2 DEF Phases, Unread
<1>6. ListInv'
  <2>1. ASSUME NEW d \in Cleaners PROVE SettledList(d)'
    <3>1. SettledList(d)
      BY Settled
    <3>2. entities' = entities /\ Listed(d)' = Listed(d)
      BY <1>1 DEF Listed
    <3>. QED
      BY <1>1, <3>1, <3>2 DEF SettledList
  <2>2. \A d \in Cleaners : ListOK(d)'
    BY <1>1, <2>1, Settle
  <2>. QED
    BY <2>2 DEF ListInv
<1>7. TxInv'
  BY <1>2 DEF TxInv
<1>. QED
  BY <1>3, <1>4, <1>5, <1>6, <1>7 DEF CleanInv

\* The rows of the list that a transaction has passed.
LEMMA TxFacts ==
    ASSUME CleanInv, phase = "cleaning"
    PROVE  /\ Quiet /\ tx.cleaner \in Cleaners
           /\ tx.left \in Nat /\ tx.left <= Len(entities[tx.cleaner])
           /\ entities[tx.cleaner] \in Seq(Rows) /\ Len(entities[tx.cleaner]) \in Nat
           /\ tx = [cleaner |-> tx.cleaner, view |-> tx.view, aborted |-> tx.aborted,
                    deferred |-> tx.deferred, left |-> tx.left]
           /\ tx.view \in SUBSET Rows /\ tx.aborted \in BOOLEAN /\ tx.deferred \in BOOLEAN
           /\ TxInv
<1>1. /\ tx \in [cleaner : Cleaners \cup {"none"}, view : SUBSET Rows, aborted : BOOLEAN,
                 deferred : BOOLEAN, left : Nat]
      /\ tx.left <= NumberOf(tx.cleaner) /\ entities \in [Cleaners -> Seq(Rows)]
  BY DEF CleanInv, TypeOK
<1>2. Quiet /\ tx.cleaner # "none"
  BY DEF CleanInv, Phases
<1>3. TxInv
  BY DEF CleanInv
<1>4. tx.cleaner \in Cleaners
  BY <1>1, <1>2
<1>. QED
  BY <1>1, <1>2, <1>3, <1>4 DEF NumberOf

\* As long as only the transaction changes, its type is what is to be shown.
LEMMA TypeFrame ==
    ASSUME TypeOK, UNCHANGED <<rows, tests, entities, hook, inserted, read, report>>,
           phase' = "cleaning",
           tx' \in [cleaner : Cleaners \cup {"none"}, view : SUBSET Rows, aborted : BOOLEAN,
                    deferred : BOOLEAN, left : Nat],
           tx'.left <= Len(entities[tx'.cleaner]),
           hooks' \subseteq Cleaners, "suite" \in hooks', "test" \in hooks' => tx'.cleaner = "test"
    PROVE  TypeOK'
<1>1. (rows \in SUBSET Rows /\ Consistent(rows) /\ tests \in 0..MaxTests)'
  BY DEF TypeOK, Consistent
<1>2. (entities \in [Cleaners -> Seq(Rows)])'
  BY DEF TypeOK, Cleaners
<1>3. (read \in [Goroutines -> Seq(Rows) \cup {Unread}])'
  BY DEF TypeOK, Unread
<1>4. (hook \in [Goroutines -> Cleaners \cup {"none"}] /\ inserted \in [Goroutines -> Rows \cup {NoRow}])'
  BY DEF TypeOK, Cleaners
<1>5. (report \in {"none", "nil", "error", "panic"})'
  BY DEF TypeOK
<1>6. (tx.left <= NumberOf(tx.cleaner))'
  BY DEF NumberOf
<1>. QED
  BY <1>1, <1>2, <1>3, <1>4, <1>5, <1>6 DEF TypeOK, Cleaners

\* A statement of the transaction changes nothing else.
LEMMA StatementStep ==
    ASSUME CleanInv, phase = "cleaning", tx.left > 0,
           UNCHANGED <<settings, rows, phase, tests, hooks, report, hookVars, inserted, ghosts>>,
           NEW view \in {tx.view, tx.view \ {NextRow}}, NEW aborted \in BOOLEAN,
           tx' = [cleaner |-> tx.cleaner, view |-> view, aborted |-> aborted,
                  deferred |-> tx.deferred, left |-> tx.left - 1],
           ~aborted => ~tx.aborted /\ (NextRow \in view => NextRow \in Keyless /\ ~reporting)
    PROVE  CleanInv'
<1> DEFINE c == tx.cleaner
<1>t. /\ c \in Cleaners /\ tx.left \in Nat /\ tx.left <= Len(entities[c])
      /\ entities[c] \in Seq(Rows) /\ Len(entities[c]) \in Nat
      /\ tx.view \in SUBSET Rows /\ tx.deferred \in BOOLEAN
      /\ tx.view \subseteq rows /\ rows \ tx.view \subseteq Listed(c)
      /\ ~tx.aborted => \A i \in 1..Len(entities[c]) :
              i > tx.left /\ entities[c][i] \in tx.view => entities[c][i] \in Keyless /\ ~reporting
  BY TxFacts DEF TxInv
<1>1. /\ UNCHANGED <<reporting, deferrable, rows, phase, tests, hooks, report, entities, hook, read, inserted,
                     created, collided, crossed, raced>>
  BY DEF settings, hookVars, ghosts
<1>2. tx'.cleaner = c /\ tx'.view = view /\ tx'.aborted = aborted /\ tx'.left = tx.left - 1
  OBVIOUS
<1>3. NextRow = entities[c][tx.left] /\ NextRow \in Listed(c) /\ tx.left - 1 \in Nat
  BY <1>t DEF NextRow, Listed
<1>4. TypeOK'
  <2>1. tx' \in [cleaner : Cleaners \cup {"none"}, view : SUBSET Rows, aborted : BOOLEAN, deferred : BOOLEAN, left : Nat]
    BY <1>t, <1>3
  <2>2. tx'.left <= Len(entities[c])
    BY <1>t, <1>2
  <2>3. hooks' \subseteq Cleaners /\ "suite" \in hooks' /\ ("test" \in hooks' => tx'.cleaner = "test")
    BY <1>1, <1>2 DEF CleanInv, TypeOK
  <2>. QED
    BY <1>1, <1>2, <2>1, <2>2, <2>3, TypeFrame DEF CleanInv
<1>5. GhostTypes'
  BY <1>1 DEF CleanInv, GhostTypes
<1>6. Phases'
  BY <1>1, <1>2 DEF CleanInv, Phases, Quiet, Pending, Unread
<1>7. ListInv'
  BY <1>1, ListFrame DEF CleanInv
<1>8. TxInv'
  <2>1. view \subseteq rows /\ rows \ view \subseteq Listed(c)
    BY <1>t, <1>3
  <2>2. ASSUME ~aborted, NEW i \in 1..Len(entities[c]), i > tx.left - 1, entities[c][i] \in view
        PROVE  entities[c][i] \in Keyless /\ ~reporting
    <3>1. CASE i = tx.left
      BY <1>3, <2>2, <3>1
    <3>2. CASE i > tx.left
      BY <1>t, <2>2, <3>2
    <3>. QED
      BY <1>t, <2>2, <3>1, <3>2
  <2>3. Listed(c)' = Listed(c)
    BY <1>1 DEF Listed
  <2>. QED
    BY <1>1, <1>2, <1>t, <2>1, <2>2, <2>3 DEF TxInv
<1>. QED
  BY <1>4, <1>5, <1>6, <1>7, <1>8 DEF CleanInv

\* A transaction begins with the database as it is and the whole list.
LEMMA CleanStep ==
    ASSUME CleanInv, NEW c \in Cleaners, Clean(c)
    PROVE  CleanInv'
<1>1. /\ UNCHANGED <<reporting, deferrable, rows, tests, hooks, report, entities, hook, read, inserted,
                     created, collided, crossed, raced>>
      /\ Quiet /\ phase = (IF c = "test" THEN "test" ELSE "suite") /\ phase' = "cleaning"
  BY DEF Clean, settings, hookVars, ghosts
<1>2. PICK fails \in BOOLEAN :
        tx' = [cleaner |-> c, view |-> rows, aborted |-> fails,
               deferred |-> deferrable /\ ~fails, left |-> NumberOf(c)]
  BY DEF Clean
<1>3. tx'.cleaner = c /\ tx'.view = rows /\ tx'.left = Len(entities[c])
  BY <1>2 DEF NumberOf
<1>4. entities[c] \in Seq(Rows) /\ Len(entities[c]) \in Nat
  BY DEF CleanInv, TypeOK
<1>h. hooks \subseteq Cleaners /\ "suite" \in hooks /\ ("test" \in hooks => c = "test")
  BY <1>1 DEF CleanInv, TypeOK, Phases, Cleaners
<1>5. TypeOK'
  <2>1. tx' \in [cleaner : Cleaners \cup {"none"}, view : SUBSET Rows, aborted : BOOLEAN, deferred : BOOLEAN, left : Nat]
    <3>1. rows \in SUBSET Rows /\ (deferrable /\ ~fails) \in BOOLEAN
      BY DEF CleanInv, TypeOK
    <3>. QED
      BY <1>2, <1>4, <3>1 DEF NumberOf
  <2>2. hooks' \subseteq Cleaners /\ "suite" \in hooks' /\ ("test" \in hooks' => tx'.cleaner = "test")
    BY <1>1, <1>3, <1>h
  <2>3. tx'.left <= Len(entities[tx'.cleaner])
    BY <1>3, <1>4
  <2>. QED
    BY <1>1, <2>1, <2>2, <2>3, TypeFrame DEF CleanInv
<1>6. GhostTypes'
  BY <1>1 DEF CleanInv, GhostTypes
<1>7. Phases'
  <2>1. Quiet' /\ \A g \in Goroutines : hook'[g] = "none" /\ read'[g] = Unread
    BY <1>1, QuietFacts DEF Quiet, Pending
  <2>2. \A g \in Goroutines : read[g] # Unread => read[g] \in Seq(Rows)
    BY DEF CleanInv, Phases
  <2>3. c # "none"
    BY DEF Cleaners
  <2>. QED
    BY <1>1, <1>3, <2>1, <2>2, <2>3 DEF Phases, Unread
<1>8. ListInv'
  BY <1>1, ListFrame DEF CleanInv
<1>9. TxInv'
  <2>1. \A i \in 1..Len(entities[c]) : ~(i > Len(entities[c]))
    BY <1>4
  <2>. QED
    BY <1>1, <1>3, <1>h, <2>1 DEF TxInv
<1>. QED
  BY <1>5, <1>6, <1>7, <1>8, <1>9 DEF CleanInv

\* Every step of a cleaner preserves the invariant.
LEMMA CleaningStep ==
    ASSUME CleanInv, Cleaning
    PROVE  CleanInv'
<1>c. rows \subseteq rows /\ Consistent(rows)
  BY DEF CleanInv, TypeOK
<1>f. rows' = rows => rows' \subseteq rows /\ Consistent(rows)'
  BY <1>c DEF Consistent
<1>1. ASSUME NEW c \in Cleaners, Clean(c) PROVE CleanInv'
  BY <1>1, CleanStep
<1>2. ASSUME NEW c \in Cleaners, BeginFails(c) PROVE CleanInv'
  BY <1>2, <1>f, FinishStep DEF BeginFails
<1>3. CASE DeleteNext
  <2>1. tx' = [tx EXCEPT !.view = tx.view \ {NextRow}, !.left = tx.left - 1]
    BY <1>3 DEF DeleteNext
  <2>2. tx' = [cleaner |-> tx.cleaner, view |-> tx.view \ {NextRow}, aborted |-> tx.aborted,
               deferred |-> tx.deferred, left |-> tx.left - 1]
    <3>1. tx = [cleaner |-> tx.cleaner, view |-> tx.view, aborted |-> tx.aborted,
                deferred |-> tx.deferred, left |-> tx.left]
      BY <1>3, TxFacts DEF DeleteNext
    <3>. QED
      BY <2>1, <3>1
  <2>3. tx.aborted \in BOOLEAN
    BY <1>3, TxFacts DEF DeleteNext
  <2>. QED
    BY <1>3, <2>2, <2>3, StatementStep DEF DeleteNext
<1>4. CASE SkipNext
  <2> DEFINE aborted == tx.aborted \/ NextRow \notin Keyless
  <2>1. tx' = [tx EXCEPT !.left = tx.left - 1, !.aborted = aborted]
    BY <1>4 DEF SkipNext
  <2>2. tx' = [cleaner |-> tx.cleaner, view |-> tx.view, aborted |-> aborted,
               deferred |-> tx.deferred, left |-> tx.left - 1]
    <3>1. tx = [cleaner |-> tx.cleaner, view |-> tx.view, aborted |-> tx.aborted,
                deferred |-> tx.deferred, left |-> tx.left]
      BY <1>4, TxFacts DEF SkipNext
    <3>. QED
      BY <2>1, <3>1
  <2>3. aborted \in BOOLEAN
    OBVIOUS
  <2>. QED
    BY <1>4, <2>2, <2>3, StatementStep DEF SkipNext
<1>5. CASE RollbackAndReport
  <2>1. phase = "cleaning" /\ rows' = rows /\ Finish(tx.cleaner, "error")
    BY <1>5 DEF RollbackAndReport
  <2>. QED
    BY <1>f, <2>1, TxFacts, FinishStep
<1>6. CASE CommitFails \/ Commit
  <2>1. /\ phase = "cleaning" /\ \E o \in {"nil", "error"} : Finish(tx.cleaner, o)
        /\ rows' = rows \/ (rows' = tx.view /\ Consistent(tx.view))
    BY <1>6 DEF CommitFails, Commit, Committable
  <2>2. rows' \subseteq rows /\ Consistent(rows)'
    BY <1>f, <2>1, TxFacts DEF TxInv, Consistent
  <2>. QED
    BY <2>1, <2>2, TxFacts, FinishStep
<1>. QED
  BY <1>1, <1>2, <1>3, <1>4, <1>5, <1>6 DEF Cleaning

-----------------------------------------------------------------------------
(* Tests.                                                                  *)

\* While tests run no transaction is open; their steps must keep the types.
LEMMA TestFrame ==
    ASSUME CleanInv, Running, UNCHANGED cleanVars,
           rows' \in SUBSET Rows, Consistent(rows)',
           entities' \in [Cleaners -> Seq(Rows)],
           read' \in [Goroutines -> Seq(Rows) \cup {Unread}],
           hook' \in [Goroutines -> Cleaners \cup {"none"}],
           inserted' \in [Goroutines -> Rows \cup {NoRow}]
    PROVE  TypeOK' /\ TxInv'
<1>1. UNCHANGED <<reporting, deferrable, phase, tests, hooks, tx, report>> /\ phase # "cleaning"
  BY DEF cleanVars, settings, Running
<1>2. (phase \in {"suite", "test", "cleaning", "over"} /\ tests \in 0..MaxTests /\ report \in {"none", "nil", "error", "panic"})'
  BY <1>1 DEF CleanInv, TypeOK
<1>3. (/\ hooks \subseteq Cleaners /\ ("suite" \in hooks <=> phase # "over")
       /\ "test" \in hooks => phase = "test" \/ tx.cleaner = "test")'
  BY <1>1 DEF CleanInv, TypeOK
<1>4. (tx \in [cleaner : Cleaners \cup {"none"}, view : SUBSET Rows, aborted : BOOLEAN, deferred : BOOLEAN, left : Nat])'
  BY <1>1 DEF CleanInv, TypeOK, Cleaners
<1>5. phase' # "cleaning"
  BY <1>1
<1>6. TypeOK'
  BY <1>2, <1>3, <1>4, <1>5 DEF TypeOK, Cleaners, Unread
<1>. QED
  BY <1>5, <1>6 DEF TxInv

\* What tests do to the database by SQL is not about listed rows, unless a row
\* is deleted to which no other refers.
LEMMA SQLStep ==
    ASSUME CleanInv, NEW r \in Rows, InsertBySQL(r) \/ Delete(r)
    PROVE  CleanInv'
<1>1. Running /\ Quiet /\ UNCHANGED <<cleanVars, entities, hook, read, inserted, created, collided, crossed, raced>>
  BY DEF InsertBySQL, Delete, hookVars, ghosts
<1>2. UNCHANGED <<reporting, deferrable, phase, tests, hooks, tx, report>>
  BY <1>1 DEF cleanVars, settings
<1>t. rows \in SUBSET Rows /\ \A q \in rows : Parent[q] \in rows \cup {NoRow}
  BY DEF CleanInv, TypeOK, Consistent
<1>3. rows' \in SUBSET Rows /\ Consistent(rows)'
  <2>1. CASE InsertBySQL(r)
    BY <1>t, <2>1 DEF InsertBySQL, Consistent
  <2>2. CASE Delete(r)
    BY <1>t, <2>2 DEF Delete, Consistent, Children
  <2>. QED
    BY <2>1, <2>2
<1>4. TypeOK' /\ TxInv'
  <2>1. /\ entities' \in [Cleaners -> Seq(Rows)] /\ read' \in [Goroutines -> Seq(Rows) \cup {Unread}]
        /\ hook' \in [Goroutines -> Cleaners \cup {"none"}] /\ inserted' \in [Goroutines -> Rows \cup {NoRow}]
    BY <1>1 DEF CleanInv, TypeOK
  <2>. QED
    BY <1>1, <1>3, <2>1, TestFrame
<1>5. GhostTypes'
  BY <1>1, <1>2 DEF CleanInv, GhostTypes
<1>6. Phases'
  BY <1>1, <1>2 DEF CleanInv, Phases, Quiet, Pending, Unread
<1>7. ListInv'
  <2>1. ASSUME NEW c \in Cleaners PROVE SettledList(c)'
    <3>1. SettledList(c)
      BY <1>1, Settled
    <3>2. entities' = entities /\ Listed(c)' = Listed(c)
      BY <1>1 DEF Listed
    <3>3. rows' \cap Listed(c) \subseteq rows
      BY DEF InsertBySQL, Delete
    <3>. QED
      BY <1>1, <1>2, <3>1, <3>2, <3>3 DEF SettledList
  <2>2. \A c \in Cleaners : ListOK(c)'
    BY <1>1, <2>1, Settle
  <2>. QED
    BY <2>2 DEF ListInv
<1>. QED
  BY <1>4, <1>5, <1>6, <1>7 DEF CleanInv

\* A test starts with an empty list and nothing to remember.
LEMMA SetupStep ==
    ASSUME CleanInv, SetupTest
    PROVE  CleanInv'
<1>1. /\ UNCHANGED <<reporting, deferrable, rows, hook, read, inserted, tx>> /\ Forget("test")
      /\ phase = "suite" /\ Quiet /\ tests < MaxTests /\ phase' = "test" /\ tests' = tests + 1
      /\ hooks' = hooks \cup {"test"} /\ entities' = [entities EXCEPT !["test"] = <<>>] /\ report' = "none"
  BY DEF SetupTest, settings
<1>2. /\ tests \in Nat /\ tests' \in 0..MaxTests
      /\ hooks = {"suite"} /\ hooks' = {"suite", "test"} /\ tx.cleaner = "none"
  <2>1. tests \in Nat /\ tests' \in 0..MaxTests
    BY <1>1, DBCleanerAssumption DEF CleanInv, TypeOK
  <2>2. tx.cleaner = "none"
    BY <1>1 DEF CleanInv, Phases
  <2>3. hooks \subseteq {"suite", "test"} /\ "suite" \in hooks /\ "test" \notin hooks
    BY <1>1, <2>2 DEF CleanInv, TypeOK, Cleaners
  <2>. QED
    BY <1>1, <2>1, <2>2, <2>3
<1>3. entities' \in [Cleaners -> Seq(Rows)] /\ entities'["test"] = <<>> /\ entities'["suite"] = entities["suite"]
  BY <1>1 DEF CleanInv, TypeOK, Cleaners
<1>4. TypeOK'
  <2>1. (rows \in SUBSET Rows /\ Consistent(rows))'
    BY <1>1 DEF CleanInv, TypeOK, Consistent
  <2>2. (read \in [Goroutines -> Seq(Rows) \cup {Unread}] /\ hook \in [Goroutines -> Cleaners \cup {"none"}])'
    BY <1>1 DEF CleanInv, TypeOK, Cleaners, Unread
  <2>3. (inserted \in [Goroutines -> Rows \cup {NoRow}])'
    BY <1>1 DEF CleanInv, TypeOK
  <2>4. (tx \in [cleaner : Cleaners \cup {"none"}, view : SUBSET Rows, aborted : BOOLEAN, deferred : BOOLEAN, left : Nat])'
    BY <1>1 DEF CleanInv, TypeOK, Cleaners
  <2>. QED
    BY <1>1, <1>2, <1>3, <2>1, <2>2, <2>3, <2>4 DEF TypeOK, Cleaners
<1>g. /\ GhostTypes'
      /\ created'["test"] = {} /\ created'["suite"] = created["suite"]
      /\ collided'["suite"] = collided["suite"] /\ crossed'["suite"] = crossed["suite"]
      /\ raced'["suite"] = raced["suite"] /\ ~raced'["test"]
  BY <1>1 DEF CleanInv, GhostTypes, Forget, Cleaners
<1>5. GhostTypes'
  BY <1>g
<1>6. Phases'
  <2>1. Quiet' /\ \A g \in Goroutines : hook'[g] = "none" /\ read'[g] = Unread
    BY <1>1, QuietFacts DEF Quiet, Pending
  <2>. QED
    BY <1>1, <1>2, <2>1 DEF Phases, Unread
<1>7. ListInv'
  <2>1. SettledList("suite")'
    <3>1. SettledList("suite")
      BY <1>1, <1>2, Settled DEF Cleaners
    <3>2. Listed("suite")' = Listed("suite")
      BY <1>3 DEF Listed
    <3>. QED
      BY <1>1, <1>2, <1>3, <1>g, <3>1, <3>2 DEF SettledList
  <2>2. SettledList("test")'
    <3>1. Listed("test")' = {}
      BY <1>3 DEF Listed
    <3>. QED
      BY <1>g, <3>1 DEF SettledList
  <2>3. \A c \in Cleaners : ListOK(c)'
    BY <1>1, <2>1, <2>2, Settle DEF Cleaners
  <2>. QED
    BY <2>3 DEF ListInv
<1>8. TxInv'
  BY <1>1 DEF TxInv
<1>. QED
  BY <1>4, <1>5, <1>6, <1>7, <1>8 DEF CleanInv

-----------------------------------------------------------------------------
(* Creates and the hooks.                                                  *)

\* A goroutine is in a hook only while tests run and the hook is registered.
LEMMA BusyFacts ==
    ASSUME CleanInv, NEW g \in Goroutines, hook[g] # "none"
    PROVE  /\ Running /\ g \in Pending /\ inserted[g] \in Rows
           /\ hook[g] \in Cleaners /\ hook[g] \in hooks /\ g \in Ahead(hook[g])
           /\ entities[hook[g]] \in Seq(Rows)
<1>1. g \in Pending
  BY DEF Pending
<1>2. ~Quiet
  BY <1>1 DEF Quiet
<1>3. Running
  BY <1>2 DEF CleanInv, TypeOK, Phases, Running
<1>4. hook[g] \in Cleaners /\ inserted[g] \in Rows
  BY DEF CleanInv, TypeOK, Phases
<1>5. hook[g] = "test" => "test" \in hooks
  BY DEF CleanInv, Phases
<1>6. hook[g] \in hooks
  BY <1>3, <1>4, <1>5 DEF CleanInv, TypeOK, Running, Cleaners
<1>7. entities[hook[g]] \in Seq(Rows)
  BY <1>4 DEF CleanInv, TypeOK
<1>. QED
  BY <1>1, <1>3, <1>4, <1>6, <1>7 DEF Ahead

\* What is read is the list.
LEMMA ReadStep ==
    ASSUME CleanInv, NEW g \in Goroutines, Read(g)
    PROVE  CleanInv'
<1>1. /\ hook[g] # "none" /\ read' = [read EXCEPT ![g] = entities[hook[g]]]
      /\ UNCHANGED <<rows, cleanVars, entities, hook, inserted, created, collided, crossed, raced>>
  BY DEF Read, ghosts
<1>2. UNCHANGED <<reporting, deferrable, phase, tests, hooks, tx, report>>
  BY <1>1 DEF cleanVars, settings
<1>b. /\ Running /\ hook[g] \in Cleaners /\ entities[hook[g]] \in Seq(Rows)
  BY <1>1, BusyFacts
<1>3. /\ read' \in [Goroutines -> Seq(Rows) \cup {Unread}] /\ read'[g] = entities[hook[g]]
      /\ \A h \in Goroutines \ {g} : read'[h] = read[h]
  BY <1>1, <1>b DEF CleanInv, TypeOK
<1>4. TypeOK' /\ TxInv'
  <2>1. rows' \in SUBSET Rows /\ Consistent(rows)'
    BY <1>1 DEF CleanInv, TypeOK, Consistent
  <2>2. /\ entities' \in [Cleaners -> Seq(Rows)]
        /\ hook' \in [Goroutines -> Cleaners \cup {"none"}] /\ inserted' \in [Goroutines -> Rows \cup {NoRow}]
    BY <1>1 DEF CleanInv, TypeOK
  <2>. QED
    BY <1>1, <1>b, <1>3, <2>1, <2>2, TestFrame
<1>5. GhostTypes'
  BY <1>1, <1>2 DEF CleanInv, GhostTypes
<1>6. Phases'
  <2>1. Quiet' = Quiet
    BY <1>1 DEF Quiet, Pending
  <2>2. ASSUME NEW h \in Goroutines
        PROVE  (hook[h] = "none" => read[h] = Unread)' /\ (read[h] # Unread => read[h] \in Seq(Rows))'
    <3>1. CASE h = g
      BY <1>1, <1>b, <1>3, <3>1
    <3>2. CASE h # g
      <4>1. (hook[h] = "none" => read[h] = Unread) /\ (read[h] # Unread => read[h] \in Seq(Rows))
        BY DEF CleanInv, Phases
      <4>. QED
        BY <1>1, <1>3, <3>2, <4>1 DEF Unread
    <3>. QED
      BY <3>1, <3>2
  <2>. QED
    BY <1>1, <1>2, <2>1, <2>2 DEF CleanInv, Phases
<1>7. ListInv'
  <2>1. ASSUME NEW c \in Cleaners PROVE ListOK(c)'
    <3>1. Listed(c)' = Listed(c) /\ Ahead(c)' = Ahead(c) /\ Pending' = Pending
      BY <1>1, <1>2 DEF Listed, Ahead, Pending
    <3>i. NothingLost(c) /\ NothingForeign(c) /\ (c \in hooks => OneByOne(c) /\ ChildrenLast(c))
      BY DEF CleanInv, ListInv, ListOK
    <3>2. NothingLost(c)'
      BY <1>1, <3>1, <3>i DEF NothingLost
    <3>3. NothingForeign(c)'
      <4>1. ASSUME ~collided[c], NEW h \in Goroutines, hook[h] = c, read'[h] # Unread
            PROVE  Holds(read'[h]) \subseteq created[c]
        <5>1. CASE h = g
          BY <1>3, <3>i, <4>1, <5>1 DEF NothingForeign, Holds, Listed
        <5>2. CASE h # g
          BY <1>3, <3>i, <4>1, <5>2 DEF NothingForeign
        <5>. QED
          BY <5>1, <5>2
      <4>2. \A h \in Goroutines : Holds(read[h])' = Holds(read'[h])
        BY DEF Holds
      <4>3. ~collided[c] => Listed(c) \subseteq created[c] /\ \A h \in Ahead(c) : inserted[h] \in created[c]
        BY <3>i DEF NothingForeign
      <4>. QED
        BY <1>1, <3>1, <4>1, <4>2, <4>3 DEF NothingForeign, Unread
    <3>4. c \in hooks => OneByOne(c)'
      BY <1>1, <1>3, <3>1, <3>i DEF OneByOne, Unread
    <3>5. c \in hooks => ChildrenLast(c)'
      <4>1. \A r, j : ListedAfter(c, r, j)' = ListedAfter(c, r, j)
        BY <1>1, <3>1 DEF ListedAfter
      <4>2. \A h : Children(inserted[h], rows)' = Children(inserted[h], rows)
        BY <1>1 DEF Children
      <4>. QED
        BY <1>1, <3>1, <3>i, <4>1, <4>2 DEF ChildrenLast
    <3>. QED
      BY <1>2, <3>2, <3>3, <3>4, <3>5 DEF ListOK
  <2>. QED
    BY <2>1 DEF ListInv
<1>. QED
  BY <1>4, <1>5, <1>6, <1>7 DEF CleanInv

\* What an append does to the lists and to the goroutines ahead of them.
LEMMA RecordFacts ==
    ASSUME CleanInv, NEW g \in Goroutines, Record(g)
    PROVE  /\ Running /\ UNCHANGED <<rows, cleanVars, created, collided, crossed>>
           /\ UNCHANGED <<reporting, deferrable, phase, tests, hooks, tx, report>>
           /\ hook[g] \in Cleaners /\ hook[g] \in hooks /\ g \in Ahead(hook[g]) /\ g \in Pending
           /\ read[g] # Unread /\ read[g] \in Seq(Rows) /\ inserted[g] \in Rows
           /\ entities' = [entities EXCEPT ![hook[g]] = Append(read[g], inserted[g])]
           /\ entities'[hook[g]] = Append(read[g], inserted[g])
           /\ \A d \in Cleaners \ {hook[g]} : entities'[d] = entities[d] /\ raced'[d] = raced[d]
           /\ raced' \in [Cleaners -> BOOLEAN]
           /\ ~raced'[hook[g]] <=> ~raced[hook[g]] /\ read[g] = entities[hook[g]]
           /\ read'[g] = Unread /\ hook'[g] \in {"test", "none"}
           /\ hook'[g] = "test" <=> hook[g] = "suite" /\ "test" \in hooks
           /\ hook'[g] # "none" => inserted'[g] = inserted[g]
           /\ \A h \in Goroutines \ {g} :
                 hook'[h] = hook[h] /\ read'[h] = read[h] /\ inserted'[h] = inserted[h]
           /\ hook' \in [Goroutines -> Cleaners \cup {"none"}]
           /\ read' \in [Goroutines -> Seq(Rows) \cup {Unread}]
           /\ inserted' \in [Goroutines -> Rows \cup {NoRow}]
<1> DEFINE next == IF hook[g] = "suite" /\ "test" \in hooks THEN "test" ELSE "none"
<1>1. /\ hook[g] # "none" /\ read[g] # Unread
      /\ raced' = [raced EXCEPT ![hook[g]] = raced[hook[g]] \/ read[g] # entities[hook[g]]]
      /\ entities' = [entities EXCEPT ![hook[g]] = Append(read[g], inserted[g])]
      /\ hook' = [hook EXCEPT ![g] = next] /\ read' = [read EXCEPT ![g] = Unread]
      /\ inserted' = [inserted EXCEPT ![g] = IF next = "none" THEN NoRow ELSE inserted[g]]
      /\ UNCHANGED <<rows, cleanVars, created, collided, crossed>>
  BY DEF Record
<1>2. UNCHANGED <<reporting, deferrable, phase, tests, hooks, tx, report>>
  BY <1>1 DEF cleanVars, settings
<1>b. /\ Running /\ g \in Pending /\ inserted[g] \in Rows /\ hook[g] \in Cleaners
      /\ hook[g] \in hooks /\ g \in Ahead(hook[g])
  BY <1>1, BusyFacts
<1>t. /\ entities \in [Cleaners -> Seq(Rows)] /\ raced \in [Cleaners -> BOOLEAN]
      /\ hook \in [Goroutines -> Cleaners \cup {"none"}]
      /\ read \in [Goroutines -> Seq(Rows) \cup {Unread}]
      /\ inserted \in [Goroutines -> Rows \cup {NoRow}]
  BY DEF CleanInv, TypeOK, GhostTypes
<1>3. read[g] \in Seq(Rows)
  BY <1>1 DEF CleanInv, Phases
<1>4. next \in {"test", "none"} /\ (next = "test" <=> hook[g] = "suite" /\ "test" \in hooks)
  OBVIOUS
<1> HIDE DEF next
<1>5. /\ entities'[hook[g]] = Append(read[g], inserted[g])
      /\ \A d \in Cleaners \ {hook[g]} : entities'[d] = entities[d]
  BY <1>1, <1>b, <1>t
<1>6. /\ raced' \in [Cleaners -> BOOLEAN] /\ \A d \in Cleaners \ {hook[g]} : raced'[d] = raced[d]
      /\ ~raced'[hook[g]] <=> ~raced[hook[g]] /\ read[g] = entities[hook[g]]
  BY <1>1, <1>b, <1>t
<1>7. /\ hook' \in [Goroutines -> Cleaners \cup {"none"}] /\ hook'[g] = next
      /\ \A h \in Goroutines \ {g} : hook'[h] = hook[h]
  BY <1>1, <1>4, <1>t DEF Cleaners
<1>8. /\ read' \in [Goroutines -> Seq(Rows) \cup {Unread}] /\ read'[g] = Unread
      /\ \A h \in Goroutines \ {g} : read'[h] = read[h]
  BY <1>1, <1>t
<1>9. /\ inserted' \in [Goroutines -> Rows \cup {NoRow}] /\ (next # "none" => inserted'[g] = inserted[g])
      /\ \A h \in Goroutines \ {g} : inserted'[h] = inserted[h]
  BY <1>1, <1>b, <1>t
<1>. QED
  BY <1>1, <1>2, <1>b, <1>3, <1>4, <1>5, <1>6, <1>7, <1>8, <1>9

\* An append adds a row to what is listed, and takes its goroutine from those
\* ahead of the list, and of no other.
LEMMA RecordLists ==
    ASSUME CleanInv, NEW g \in Goroutines, Record(g), NEW c \in Cleaners, hook[g] = c
    PROVE  /\ Listed(c)' = Holds(read[g]) \cup {inserted[g]}
           /\ Ahead(c)' = Ahead(c) \ {g}
           /\ \A d \in Cleaners \ {c} : Listed(d)' = Listed(d) /\ Ahead(d)' = Ahead(d)
           /\ \A d \in Cleaners : \A h \in Ahead(d)' : inserted'[h] = inserted[h]
           /\ Pending' \subseteq Pending
<1>f. /\ hooks' = hooks /\ read[g] \in Seq(Rows) /\ inserted[g] \in Rows
      /\ entities'[c] = Append(read[g], inserted[g]) /\ \A d \in Cleaners \ {c} : entities'[d] = entities[d]
      /\ hook'[g] \in {"test", "none"} /\ (hook'[g] = "test" <=> c = "suite" /\ "test" \in hooks)
      /\ hook'[g] # "none" => inserted'[g] = inserted[g]
      /\ \A h \in Goroutines \ {g} : hook'[h] = hook[h] /\ inserted'[h] = inserted[h]
      /\ g \in Pending
  BY RecordFacts
<1>1. Listed(c)' = Holds(read[g]) \cup {inserted[g]}
  <2>1. Listed(c)' = {entities'[c][i] : i \in 1..Len(entities'[c])}
    BY DEF Listed
  <2>2. ASSUME NEW list \in Seq(Rows), NEW r \in Rows
        PROVE  {Append(list, r)[i] : i \in 1..Len(Append(list, r))} = {list[i] : i \in 1..Len(list)} \cup {r}
    <3>1. Len(list) \in Nat /\ Len(Append(list, r)) = Len(list) + 1
      OBVIOUS
    <3>2. \A i \in 1..Len(list) : Append(list, r)[i] = list[i]
      OBVIOUS
    <3>3. Append(list, r)[Len(list) + 1] = r
      OBVIOUS
    <3>. QED
      BY <3>1, <3>2, <3>3
  <2>. QED
    BY <1>f, <2>1, <2>2 DEF Holds
<1>2. Ahead(c)' = Ahead(c) \ {g}
  BY <1>f DEF Ahead, Cleaners
<1>3. ASSUME NEW d \in Cleaners \ {c} PROVE Listed(d)' = Listed(d) /\ Ahead(d)' = Ahead(d)
  BY <1>f, <1>3 DEF Ahead, Listed, Cleaners
<1>4. Pending' \subseteq Pending
  BY <1>f DEF Pending
<1>5. ASSUME NEW d \in Cleaners, NEW h \in Ahead(d)' PROVE inserted'[h] = inserted[h]
  BY <1>f, <1>5 DEF Ahead, Cleaners
<1>. QED
  BY <1>1, <1>2, <1>3, <1>4, <1>5

\* The list that is appended to keeps the invariant of the lists.
LEMMA RecordOwn ==
    ASSUME CleanInv, NEW g \in Goroutines, Record(g), NEW c \in Cleaners, hook[g] = c
    PROVE  ListOK(c)'
<1> DEFINE list == read[g]
           r == inserted[g]
<1>f. /\ UNCHANGED <<rows, created, collided, crossed>>
      /\ c \in hooks /\ g \in Ahead(c) /\ g \in Pending
      /\ list # Unread /\ list \in Seq(Rows) /\ r \in Rows
      /\ entities'[c] = Append(list, r)
      /\ ~raced'[c] <=> ~raced[c] /\ list = entities[c]
      /\ read'[g] = Unread /\ hook'[g] # c
      /\ \A h \in Goroutines \ {g} : hook'[h] = hook[h] /\ read'[h] = read[h]
  BY RecordFacts DEF Cleaners
<1>l. /\ Listed(c)' = Holds(list) \cup {r} /\ Ahead(c)' = Ahead(c) \ {g}
      /\ \A h \in Ahead(c)' : inserted'[h] = inserted[h]
      /\ Pending' \subseteq Pending
  BY <1>f, RecordLists
<1>i. NothingLost(c) /\ NothingForeign(c) /\ OneByOne(c) /\ ChildrenLast(c)
  BY <1>f DEF CleanInv, ListInv, ListOK
<1>h. list = entities[c] => Holds(list) = Listed(c)
  BY DEF Holds, Listed
<1>1. NothingLost(c)'
  BY <1>f, <1>l, <1>i, <1>h DEF NothingLost
<1>2. NothingForeign(c)'
  <2>1. ~collided[c] => Holds(list) \cup {r} \subseteq created[c]
    BY <1>f, <1>i DEF NothingForeign
  <2>2. ASSUME ~collided[c], NEW h \in Goroutines, hook'[h] = c, read'[h] # Unread
        PROVE  Holds(read[h])' \subseteq created[c]
    <3>1. h # g /\ hook[h] = c /\ read'[h] = read[h] /\ read[h] # Unread
      BY <1>f, <2>2
    <3>. QED
      BY <1>i, <2>2, <3>1 DEF NothingForeign, Holds
  <2>3. ~collided[c] => \A h \in Ahead(c)' : inserted'[h] \in created[c]
    BY <1>l, <1>i DEF NothingForeign
  <2>. QED
    BY <1>f, <1>l, <2>1, <2>2, <2>3 DEF NothingForeign, Unread
<1>3. OneByOne(c)'
  <2>1. crossed[c] = 0 => list = entities[c] /\ ~raced[c] /\ \A h, k \in Pending : h = k
    BY <1>f, <1>i DEF OneByOne, Ahead
  <2>2. crossed[c] = 0 => \A h \in Goroutines : hook'[h] # c
    <3> SUFFICES ASSUME crossed[c] = 0, NEW h \in Goroutines, hook'[h] = c PROVE FALSE
      OBVIOUS
    <3>1. h # g /\ hook[h] = c
      BY <1>f
    <3>2. h \in Pending
      BY <3>1 DEF Pending, Cleaners
    <3>. QED
      BY <1>f, <2>1, <3>1, <3>2
  <2>. QED
    BY <1>f, <1>l, <2>1, <2>2 DEF OneByOne
<1>4. ChildrenLast(c)'
  <2> SUFFICES ASSUME crossed[c] = 0, ~collided[c]
               PROVE  /\ \A q \in rows \cap Listed(c)', j \in 1..Len(entities'[c]) :
                            entities'[c][j] = Parent[q] /\ Parent[q] \notin Keyless =>
                                \E k \in 1..Len(entities'[c]) : k > j /\ entities'[c][k] = q
                      /\ Ahead(c)' = {}
    BY <1>f DEF ChildrenLast, ListedAfter
  <2>1. list = entities[c] /\ \A h, k \in Pending : h = k
    BY <1>f, <1>i DEF OneByOne, Ahead
  <2>2. Ahead(c) = {g}
    BY <1>f, <2>1 DEF Ahead, Pending, Cleaners
  <2>3. /\ Len(list) \in Nat /\ Len(entities'[c]) = Len(list) + 1
        /\ \A i \in 1..Len(list) : entities'[c][i] = list[i]
        /\ entities'[c][Len(list) + 1] = r
    BY <1>f
  <2>4. r \notin Keyless => Children(r, rows) = {}
    BY <1>i, <2>2 DEF ChildrenLast
  <2>5. ASSUME NEW q \in rows \cap Listed(c)', NEW j \in 1..Len(entities'[c]),
               entities'[c][j] = Parent[q], Parent[q] \notin Keyless
        PROVE  \E k \in 1..Len(entities'[c]) : k > j /\ entities'[c][k] = q
    <3>1. j # Len(list) + 1
      BY <2>3, <2>4, <2>5 DEF Children
    <3>2. j \in 1..Len(list) /\ list[j] = Parent[q]
      BY <2>3, <2>5, <3>1
    <3>3. CASE q = r
      BY <2>3, <3>2, <3>3
    <3>4. CASE q # r
      <4>1. q \in rows \cap Listed(c)
        BY <1>l, <1>h, <2>1, <2>5, <3>4
      <4>2. ListedAfter(c, q, j)
        BY <1>i, <2>1, <2>5, <3>2, <4>1 DEF ChildrenLast
      <4>3. PICK k \in 1..Len(list) : k > j /\ list[k] = q
        BY <2>1, <2>2, <3>4, <4>2 DEF ListedAfter
      <4>. QED
        BY <2>3, <4>3
    <3>. QED
      BY <3>3, <3>4
  <2>. QED
    BY <1>l, <2>2, <2>5
<1>. QED
  BY <1>1, <1>2, <1>3, <1>4 DEF ListOK

\* So does the other list.
LEMMA RecordOther ==
    ASSUME CleanInv, NEW g \in Goroutines, Record(g), NEW c \in Cleaners, hook[g] = c,
           NEW d \in Cleaners \ {c}
    PROVE  ListOK(d)'
<1>f. /\ UNCHANGED <<rows, hooks, created, collided, crossed>>
      /\ entities'[d] = entities[d] /\ raced'[d] = raced[d]
      /\ read'[g] = Unread
      /\ \A h \in Goroutines \ {g} : hook'[h] = hook[h] /\ read'[h] = read[h]
  BY RecordFacts
<1>l. /\ Listed(d)' = Listed(d) /\ Ahead(d)' = Ahead(d)
      /\ \A h \in Ahead(d) : inserted'[h] = inserted[h]
      /\ Pending' \subseteq Pending
  BY RecordLists
<1>i. NothingLost(d) /\ NothingForeign(d) /\ (d \in hooks => OneByOne(d) /\ ChildrenLast(d))
  BY DEF CleanInv, ListInv, ListOK
<1>1. NothingLost(d)'
  BY <1>f, <1>l, <1>i DEF NothingLost
<1>2. NothingForeign(d)'
  <2>1. ASSUME ~collided[d], NEW h \in Goroutines, hook'[h] = d, read'[h] # Unread
        PROVE  Holds(read[h])' \subseteq created[d]
    <3>1. h # g /\ hook[h] = d /\ read'[h] = read[h] /\ read[h] # Unread
      BY <1>f, <2>1
    <3>. QED
      BY <1>i, <2>1, <3>1 DEF NothingForeign, Holds
  <2>. QED
    BY <1>f, <1>l, <1>i, <2>1 DEF NothingForeign, Unread
<1>3. d \in hooks => OneByOne(d)'
  BY <1>f, <1>l, <1>i DEF OneByOne, Unread
<1>4. d \in hooks => ChildrenLast(d)'
  <2>1. \A q, j : ListedAfter(d, q, j)' = ListedAfter(d, q, j)
    BY <1>f, <1>l DEF ListedAfter
  <2>2. d \in hooks /\ crossed[d] = 0 /\ ~collided[d] =>
            \A q \in rows \cap Listed(d), j \in 1..Len(entities[d]) :
                entities[d][j] = Parent[q] /\ Parent[q] \notin Keyless => ListedAfter(d, q, j)'
    BY <1>i, <2>1 DEF ChildrenLast
  <2>3. d \in hooks /\ crossed[d] = 0 /\ ~collided[d] =>
            \A h \in Ahead(d) : inserted'[h] \notin Keyless => Children(inserted[h], rows)' = {}
    BY <1>f, <1>l, <1>i DEF ChildrenLast, Children
  <2>. QED
    BY <1>f, <1>l, <2>2, <2>3 DEF ChildrenLast
<1>. QED
  BY <1>f, <1>1, <1>2, <1>3, <1>4 DEF ListOK

\* An append to a list preserves the invariant.
LEMMA RecordStep ==
    ASSUME CleanInv, NEW g \in Goroutines, Record(g)
    PROVE  CleanInv'
<1>f. /\ Running /\ UNCHANGED <<rows, cleanVars, created, collided, crossed>>
      /\ UNCHANGED <<reporting, deferrable, phase, tests, hooks, tx, report>>
      /\ hook[g] \in Cleaners /\ hook[g] \in hooks
      /\ read[g] \in Seq(Rows) /\ inserted[g] \in Rows
      /\ entities' = [entities EXCEPT ![hook[g]] = Append(read[g], inserted[g])]
      /\ raced' \in [Cleaners -> BOOLEAN] /\ \A d \in Cleaners \ {hook[g]} : raced'[d] = raced[d]
      /\ read'[g] = Unread /\ hook'[g] \in {"test", "none"}
      /\ hook'[g] = "test" <=> hook[g] = "suite" /\ "test" \in hooks
      /\ hook'[g] # "none" => inserted'[g] = inserted[g]
      /\ \A h \in Goroutines \ {g} :
            hook'[h] = hook[h] /\ read'[h] = read[h] /\ inserted'[h] = inserted[h]
      /\ hook' \in [Goroutines -> Cleaners \cup {"none"}]
      /\ read' \in [Goroutines -> Seq(Rows) \cup {Unread}]
      /\ inserted' \in [Goroutines -> Rows \cup {NoRow}]
  BY RecordFacts
<1>1. TypeOK' /\ TxInv'
  <2>1. rows' \in SUBSET Rows /\ Consistent(rows)'
    BY <1>f DEF CleanInv, TypeOK, Consistent
  <2>2. entities' \in [Cleaners -> Seq(Rows)]
    <3>1. Append(read[g], inserted[g]) \in Seq(Rows)
      BY <1>f
    <3>. QED
      BY <1>f, <3>1 DEF CleanInv, TypeOK
  <2>. QED
    BY <1>f, <2>1, <2>2, TestFrame
<1>2. GhostTypes'
  BY <1>f DEF CleanInv, GhostTypes
<1>3. Phases'
  <2>2. phase \notin {"cleaning", "over"}
    BY <1>f DEF Running
  <2>3. ASSUME NEW h \in Goroutines
        PROVE  /\ hook'[h] = "test" => "test" \in hooks
               /\ hook'[h] = "none" => read'[h] = Unread
               /\ hook'[h] # "none" => inserted'[h] \in Rows
               /\ read'[h] # Unread => read'[h] \in Seq(Rows)
    <3>1. CASE h = g
      BY <1>f, <3>1
    <3>2. CASE h # g
      <4>1. /\ hook[h] = "test" => "test" \in hooks
            /\ hook[h] = "none" => read[h] = Unread
            /\ hook[h] # "none" => inserted[h] \in Rows
            /\ read[h] # Unread => read[h] \in Seq(Rows)
        BY DEF CleanInv, Phases
      <4>. QED
        BY <1>f, <3>2, <4>1
    <3>. QED
      BY <3>1, <3>2
  <2>4. phase = "cleaning" <=> tx.cleaner # "none"
    BY DEF CleanInv, Phases
  <2>. QED
    BY <1>f, <2>2, <2>3, <2>4 DEF Phases, Unread
<1>4. ListInv'
  <2>1. PICK c \in Cleaners : hook[g] = c
    BY <1>f
  <2>2. ListOK(c)'
    BY <2>1, RecordOwn
  <2>3. \A d \in Cleaners \ {c} : ListOK(d)'
    BY <2>1, RecordOther
  <2>. QED
    BY <2>2, <2>3 DEF ListInv
<1>. QED
  BY <1>1, <1>2, <1>3, <1>4 DEF CleanInv

\* A row can be created.
Creatable(r) == (r \in rows => r \in Keyless) /\ Parent[r] \in rows \cup {NoRow}

\* What a Create does to the lists and ghosts of a cleaner.
LEMMA CreateFacts ==
    ASSUME CleanInv, NEW g \in Goroutines, NEW r \in Rows, Create(g, r)
    PROVE  /\ Running /\ hook[g] = "none" /\ read[g] = Unread
           /\ UNCHANGED <<cleanVars, entities, read, raced>>
           /\ UNCHANGED <<reporting, deferrable, phase, tests, hooks, tx, report>>
           /\ rows' = IF Creatable(r) THEN rows \cup {r} ELSE rows
           /\ \A c \in Cleaners :
                 IF c \in hooks
                 THEN /\ created'[c] = IF Creatable(r) THEN created[c] \cup {r} ELSE created[c]
                      /\ ~collided'[c] => ~collided[c] /\ Creatable(r)
                      /\ crossed'[c] = 0 => crossed[c] = 0 /\ Quiet
                 ELSE created'[c] = created[c] /\ collided'[c] = collided[c] /\ crossed'[c] = crossed[c]
           /\ GhostTypes'
           /\ hook'[g] = "suite" /\ inserted'[g] = r
           /\ \A h \in Goroutines \ {g} : hook'[h] = hook[h] /\ inserted'[h] = inserted[h]
           /\ hook' \in [Goroutines -> Cleaners \cup {"none"}]
           /\ inserted' \in [Goroutines -> Rows \cup {NoRow}]
<1>1. /\ Running /\ hook[g] = "none"
      /\ UNCHANGED <<cleanVars, entities, read, raced>>
      /\ rows' = IF Creatable(r) THEN rows \cup {r} ELSE rows
      /\ created' = [c \in Cleaners |-> IF Creatable(r) /\ c \in hooks THEN created[c] \cup {r} ELSE created[c]]
      /\ collided' = [c \in Cleaners |-> collided[c] \/ (~Creatable(r) /\ c \in hooks)]
      /\ crossed' = [c \in Cleaners |-> IF ~Quiet /\ c \in hooks THEN crossed[c] + 1 ELSE crossed[c]]
      /\ hook' = [hook EXCEPT ![g] = "suite"] /\ inserted' = [inserted EXCEPT ![g] = r]
  BY DEF Create, Creatable
<1>2. UNCHANGED <<reporting, deferrable, phase, tests, hooks, tx, report>>
  BY <1>1 DEF cleanVars, settings
<1>3. read[g] = Unread
  BY <1>1 DEF CleanInv, Phases
<1>t. /\ hook \in [Goroutines -> Cleaners \cup {"none"}] /\ inserted \in [Goroutines -> Rows \cup {NoRow}]
      /\ created \in [Cleaners -> SUBSET Rows] /\ collided \in [Cleaners -> BOOLEAN]
      /\ raced \in [Cleaners -> BOOLEAN] /\ crossed \in [Cleaners -> Nat]
      /\ reporting \in BOOLEAN /\ deferrable \in BOOLEAN
  BY DEF CleanInv, TypeOK, GhostTypes
<1>4. ASSUME NEW c \in Cleaners
      PROVE  IF c \in hooks
             THEN /\ created'[c] = IF Creatable(r) THEN created[c] \cup {r} ELSE created[c]
                  /\ ~collided'[c] => ~collided[c] /\ Creatable(r)
                  /\ crossed'[c] = 0 => crossed[c] = 0 /\ Quiet
             ELSE created'[c] = created[c] /\ collided'[c] = collided[c] /\ crossed'[c] = crossed[c]
  <2>1. /\ created'[c] = IF Creatable(r) /\ c \in hooks THEN created[c] \cup {r} ELSE created[c]
        /\ collided'[c] = (collided[c] \/ (~Creatable(r) /\ c \in hooks))
        /\ crossed'[c] = IF ~Quiet /\ c \in hooks THEN crossed[c] + 1 ELSE crossed[c]
    BY <1>1
  <2>2. crossed[c] \in Nat /\ collided[c] \in BOOLEAN
    BY <1>t
  <2>3. CASE c \in hooks
    <3>1. crossed'[c] = 0 => crossed[c] = 0 /\ Quiet
      BY <2>1, <2>2, <2>3
    <3>2. ~collided'[c] => ~collided[c] /\ Creatable(r)
      BY <2>1, <2>3
    <3>3. created'[c] = IF Creatable(r) THEN created[c] \cup {r} ELSE created[c]
      BY <2>1, <2>3
    <3>. QED
      BY <2>3, <3>1, <3>2, <3>3
  <2>4. CASE c \notin hooks
    <3>1. created'[c] = created[c] /\ crossed'[c] = crossed[c]
      BY <2>1, <2>4
    <3>2. collided'[c] = collided[c]
      BY <2>1, <2>2, <2>4
    <3>. QED
      BY <2>4, <3>1, <3>2
  <2>. QED
    BY <2>3, <2>4
<1>5. GhostTypes'
  <2>1. created' \in [Cleaners -> SUBSET Rows]
    BY <1>1, <1>t
  <2>2. collided' \in [Cleaners -> BOOLEAN]
    BY <1>1, <1>t
  <2>3. crossed' \in [Cleaners -> Nat]
    BY <1>1, <1>t
  <2>. QED
    BY <1>1, <1>2, <1>t, <2>1, <2>2, <2>3 DEF GhostTypes
<1>6. /\ hook'[g] = "suite" /\ hook' \in [Goroutines -> Cleaners \cup {"none"}]
      /\ \A h \in Goroutines \ {g} : hook'[h] = hook[h]
  BY <1>1, <1>t DEF Cleaners
<1>7. /\ inserted'[g] = r /\ inserted' \in [Goroutines -> Rows \cup {NoRow}]
      /\ \A h \in Goroutines \ {g} : inserted'[h] = inserted[h]
  BY <1>1, <1>t
<1>. QED
  BY <1>1, <1>2, <1>3, <1>4, <1>5, <1>6, <1>7

\* The row that is created is ahead of the list of a registered cleaner;
\* nothing refers to it yet.
LEMMA CreateLists ==
    ASSUME CleanInv, NEW g \in Goroutines, NEW r \in Rows, Create(g, r), NEW c \in Cleaners, c \in hooks
    PROVE  ListOK(c)'
<1>f. /\ hook[g] = "none" /\ read[g] = Unread /\ UNCHANGED <<hooks, entities, read, raced>>
      /\ rows' = IF Creatable(r) THEN rows \cup {r} ELSE rows
      /\ created'[c] = IF Creatable(r) THEN created[c] \cup {r} ELSE created[c]
      /\ ~collided'[c] => ~collided[c] /\ Creatable(r)
      /\ crossed'[c] = 0 => crossed[c] = 0 /\ Quiet
      /\ hook'[g] = "suite" /\ inserted'[g] = r
      /\ \A h \in Goroutines \ {g} : hook'[h] = hook[h] /\ inserted'[h] = inserted[h]
  BY CreateFacts
<1>l. /\ Listed(c)' = Listed(c) /\ Ahead(c)' = Ahead(c) \cup {g} /\ g \notin Ahead(c)
      /\ Pending' = Pending \cup {g}
      /\ \A h \in Ahead(c) : inserted'[h] = inserted[h]
  BY <1>f DEF Listed, Ahead, Pending, Cleaners
<1>i. NothingLost(c) /\ NothingForeign(c) /\ OneByOne(c) /\ ChildrenLast(c)
  BY DEF CleanInv, ListInv, ListOK
<1>1. NothingLost(c)'
  BY <1>f, <1>l, <1>i DEF NothingLost
<1>2. NothingForeign(c)'
  <2>1. ASSUME ~collided'[c], NEW h \in Goroutines, hook'[h] = c, read'[h] # Unread
        PROVE  Holds(read[h])' \subseteq created'[c]
    <3>1. h # g /\ hook[h] = c /\ read'[h] = read[h] /\ read[h] # Unread /\ ~collided[c]
      BY <1>f, <2>1
    <3>2. Holds(read[h]) \subseteq created[c]
      BY <1>i, <3>1 DEF NothingForeign
    <3>. QED
      BY <1>f, <3>1, <3>2 DEF Holds
  <2>2. ~collided'[c] => Listed(c)' \subseteq created'[c] /\ \A h \in Ahead(c)' : inserted'[h] \in created'[c]
    BY <1>f, <1>l, <1>i DEF NothingForeign
  <2>. QED
    BY <2>1, <2>2 DEF NothingForeign, Unread
<1>3. OneByOne(c)'
  <2> SUFFICES ASSUME crossed'[c] = 0
               PROVE  /\ ~raced'[c] /\ \A h, k \in Pending' : h = k
                      /\ \A h \in Goroutines : read'[h] = Unread
    BY DEF OneByOne, Unread
  <2>1. Quiet /\ ~raced[c]
    BY <1>f, <1>i DEF OneByOne
  <2>2. Pending' = {g}
    BY <1>l, <2>1 DEF Quiet
  <2>. QED
    BY <1>f, <2>1, <2>2, QuietFacts
<1>4. ChildrenLast(c)'
  <2> SUFFICES ASSUME crossed'[c] = 0, ~collided'[c]
               PROVE  /\ \A q \in rows' \cap Listed(c), j \in 1..Len(entities[c]) :
                            entities[c][j] = Parent[q] /\ Parent[q] \notin Keyless => ListedAfter(c, q, j)'
                      /\ r \notin Keyless => Children(r, rows') = {}
                      /\ Ahead(c)' = {g}
    BY <1>f, <1>l DEF ChildrenLast
  <2>1. Quiet /\ crossed[c] = 0 /\ ~collided[c] /\ Creatable(r) /\ rows' = rows \cup {r} /\ Ahead(c) = {}
    BY <1>f, QuietFacts
  <2>2. ASSUME NEW q \in rows' \cap Listed(c), NEW j \in 1..Len(entities[c]),
               entities[c][j] = Parent[q], Parent[q] \notin Keyless
        PROVE  ListedAfter(c, q, j)'
    <3>1. CASE q = r
      BY <1>f, <1>l, <3>1 DEF ListedAfter
    <3>2. CASE q # r
      <4>1. ListedAfter(c, q, j)
        BY <1>i, <2>1, <2>2, <3>2 DEF ChildrenLast
      <4>. QED
        BY <1>f, <2>1, <4>1 DEF ListedAfter
    <3>. QED
      BY <3>1, <3>2
  <2>3. r \notin Keyless => Children(r, rows') = {}
    <3>1. \A q \in rows : Parent[q] \in rows \cup {NoRow}
      BY DEF CleanInv, TypeOK, Consistent
    <3>2. Parent[r] # r /\ r # NoRow
      BY DBCleanerAssumption
    <3>. QED
      BY <2>1, <3>1, <3>2 DEF Children, Creatable
  <2>. QED
    BY <1>l, <2>1, <2>2, <2>3
<1>. QED
  BY <1>1, <1>2, <1>3, <1>4 DEF ListOK

\* A cleaner whose hook is not registered has no part in it.
LEMMA CreateElsewhere ==
    ASSUME CleanInv, NEW g \in Goroutines, NEW r \in Rows, Create(g, r), NEW c \in Cleaners, c \notin hooks
    PROVE  ListOK(c)'
<1>f. /\ Running /\ hook[g] = "none" /\ read[g] = Unread /\ UNCHANGED <<hooks, phase, entities, read, raced>>
      /\ created'[c] = created[c] /\ collided'[c] = collided[c]
      /\ hook'[g] = "suite" /\ \A h \in Goroutines \ {g} : hook'[h] = hook[h] /\ inserted'[h] = inserted[h]
  BY CreateFacts
<1>1. c = "test"
  BY <1>f DEF CleanInv, TypeOK, Running, Cleaners
<1>l. /\ Listed(c)' = Listed(c) /\ Ahead(c)' = Ahead(c)
      /\ \A h \in Ahead(c) : inserted'[h] = inserted[h]
  BY <1>f, <1>1 DEF Listed, Ahead
<1>i. NothingLost(c) /\ NothingForeign(c)
  BY DEF CleanInv, ListInv, ListOK
<1>2. NothingLost(c)'
  BY <1>f, <1>l, <1>i DEF NothingLost
<1>3. NothingForeign(c)'
  <2>1. ASSUME ~collided[c], NEW h \in Goroutines, hook'[h] = c, read'[h] # Unread
        PROVE  Holds(read[h])' \subseteq created[c]
    <3>1. h # g /\ hook[h] = c /\ read'[h] = read[h] /\ read[h] # Unread
      BY <1>f, <1>1, <2>1
    <3>. QED
      BY <1>i, <2>1, <3>1 DEF NothingForeign, Holds
  <2>. QED
    BY <1>f, <1>l, <1>i, <2>1 DEF NothingForeign, Unread
<1>. QED
  BY <1>f, <1>2, <1>3 DEF ListOK

\* A Create preserves the invariant, whether it succeeds or not.
LEMMA CreateStep ==
    ASSUME CleanInv, NEW g \in Goroutines, NEW r \in Rows, Create(g, r)
    PROVE  CleanInv'
<1>f. /\ Running /\ hook[g] = "none" /\ read[g] = Unread
      /\ UNCHANGED <<cleanVars, entities, read, raced>>
      /\ UNCHANGED <<reporting, deferrable, phase, tests, hooks, tx, report>>
      /\ rows' = IF Creatable(r) THEN rows \cup {r} ELSE rows
      /\ GhostTypes'
      /\ hook'[g] = "suite" /\ inserted'[g] = r
      /\ \A h \in Goroutines \ {g} : hook'[h] = hook[h] /\ inserted'[h] = inserted[h]
      /\ hook' \in [Goroutines -> Cleaners \cup {"none"}]
      /\ inserted' \in [Goroutines -> Rows \cup {NoRow}]
  BY CreateFacts
<1>1. TypeOK' /\ TxInv'
  <2>1. rows \in SUBSET Rows /\ \A q \in rows : Parent[q] \in rows \cup {NoRow}
    BY DEF CleanInv, TypeOK, Consistent
  <2>2. rows' \in SUBSET Rows /\ Consistent(rows)'
    BY <1>f, <2>1 DEF Consistent, Creatable
  <2>3. entities' \in [Cleaners -> Seq(Rows)] /\ read' \in [Goroutines -> Seq(Rows) \cup {Unread}]
    BY <1>f DEF CleanInv, TypeOK
  <2>. QED
    BY <1>f, <2>2, <2>3, TestFrame
<1>2. Phases'
  <2>1. phase \notin {"cleaning", "over"}
    BY <1>f DEF Running
  <2>2. ASSUME NEW h \in Goroutines
        PROVE  /\ hook'[h] = "test" => "test" \in hooks
               /\ hook'[h] = "none" => read[h] = Unread
               /\ hook'[h] # "none" => inserted'[h] \in Rows
               /\ read[h] # Unread => read[h] \in Seq(Rows)
    <3>1. CASE h = g
      BY <1>f, <3>1
    <3>2. CASE h # g
      BY <1>f, <3>2 DEF CleanInv, Phases
    <3>. QED
      BY <3>1, <3>2
  <2>3. phase = "cleaning" <=> tx.cleaner # "none"
    BY DEF CleanInv, Phases
  <2>. QED
    BY <1>f, <2>1, <2>2, <2>3 DEF Phases, Unread
<1>3. ListInv'
  <2>1. \A c \in Cleaners : ListOK(c)'
    BY CreateLists, CreateElsewhere
  <2>. QED
    BY <2>1 DEF ListInv
<1>. QED
  BY <1>f, <1>1, <1>2, <1>3 DEF CleanInv

-----------------------------------------------------------------------------
(* Theorems.                                                               *)

\* Every step of a test or a cleaner preserves the invariant.
LEMMA CleanerStep ==
    CleanInv /\ [Next]_vars => CleanInv'
<1> SUFFICES ASSUME CleanInv, [Next]_vars PROVE CleanInv'
  OBVIOUS
<1>1. CASE UNCHANGED vars
  <2>1. UNCHANGED <<reporting, deferrable, rows, phase, tests, hooks, tx, report, entities, hook, read, inserted,
                    created, collided, crossed, raced>>
    BY <1>1 DEF vars, cleanVars, settings, hookVars, ghosts
  <2>2. TypeOK'
    BY <2>1 DEF CleanInv, TypeOK, Consistent, NumberOf, Unread, Cleaners
  <2>3. GhostTypes'
    BY <2>1 DEF CleanInv, GhostTypes
  <2>4. Phases'
    BY <2>1 DEF CleanInv, Phases, Quiet, Pending, Unread
  <2>5. ListInv'
    BY <2>1, ListFrame DEF CleanInv
  <2>6. TxInv'
    BY <2>1 DEF CleanInv, TxInv, Listed
  <2>. QED
    BY <2>2, <2>3, <2>4, <2>5, <2>6 DEF CleanInv
<1>2. CASE Testing
  BY <1>2, ReadStep, RecordStep, CreateStep, SQLStep, SetupStep DEF Testing
<1>. QED
  BY <1>1, <1>2, CleaningStep DEF Next

\* The invariant of cleaners holds in every state.
THEOREM Invariance == Spec => []CleanInv
<1>1. Init => CleanInv
  <2> SUFFICES ASSUME Init PROVE CleanInv
    OBVIOUS
  <2>1. /\ phase = "suite" /\ hooks = {"suite"} /\ tx = NoTx /\ tx.cleaner = "none" /\ tests = 0 /\ report = "none"
        /\ rows \in SUBSET Rows /\ Consistent(rows)
        /\ \A g \in Goroutines : hook[g] = "none" /\ read[g] = Unread
        /\ \A c \in Cleaners : entities[c] = <<>> /\ created[c] = {} /\ ~raced[c]
    BY DEF Init, NoTx
  <2>2. /\ entities \in [Cleaners -> Seq(Rows)] /\ hook \in [Goroutines -> Cleaners \cup {"none"}]
        /\ inserted \in [Goroutines -> Rows \cup {NoRow}] /\ read \in [Goroutines -> Seq(Rows) \cup {Unread}]
    BY DEF Init
  <2>3. TypeOK
    <3>1. tests \in 0..MaxTests
      BY <2>1, DBCleanerAssumption
    <3>2. tx \in [cleaner : Cleaners \cup {"none"}, view : SUBSET Rows, aborted : BOOLEAN, deferred : BOOLEAN, left : Nat]
      BY <2>1 DEF NoTx
    <3>3. /\ hooks \subseteq Cleaners /\ ("suite" \in hooks <=> phase # "over")
          /\ "test" \in hooks => phase = "test" \/ tx.cleaner = "test"
      BY <2>1 DEF Cleaners
    <3>. QED
      BY <2>1, <2>2, <3>1, <3>2, <3>3 DEF TypeOK
  <2>4. GhostTypes
    BY DEF Init, GhostTypes
  <2>5. Quiet
    BY <2>1 DEF Quiet, Pending
  <2>6. Phases
    BY <2>1, <2>5 DEF Phases
  <2>7. ListInv
    <3>1. ASSUME NEW c \in Cleaners PROVE NothingLost(c) /\ NothingForeign(c) /\ OneByOne(c) /\ ChildrenLast(c)
      <4>1. Listed(c) = {} /\ Ahead(c) = {} /\ Pending = {}
        BY <2>1, <2>5 DEF Listed, Ahead, Quiet, Cleaners
      <4>. QED
        BY <2>1, <4>1 DEF NothingLost, NothingForeign, OneByOne, ChildrenLast
    <3>. QED
      BY <3>1 DEF ListInv, ListOK
  <2>8. TxInv
    BY <2>1 DEF TxInv
  <2>. QED
    BY <2>3, <2>4, <2>6, <2>7, <2>8 DEF CleanInv
<1>. QED
  BY <1>1, CleanerStep, PTL DEF Spec

\* Reverse order is enough for constraints that cannot be deferred.
THEOREM LastInFirstOut == Spec => []CleanerInv
<1>1. CleanInv => CleanerInv
  <2> SUFFICES ASSUME CleanInv PROVE ReverseOrderSuffices
    BY DEF CleanerInv, CleanInv
  <2> SUFFICES ASSUME phase = "cleaning", tx.cleaner \in hooks, tx.left > 0, NextRow \notin Keyless, ~tx.aborted,
                      ~collided[tx.cleaner], crossed[tx.cleaner] = 0,
                      NEW q \in Children(NextRow, tx.view) \cap created[tx.cleaner]
               PROVE  q \in Keyless
    BY DEF ReverseOrderSuffices
  <2> DEFINE c == tx.cleaner
  <2>1. /\ Quiet /\ c \in Cleaners /\ tx.left \in 1..Len(entities[c])
        /\ tx.view \subseteq rows
        /\ \A i \in 1..Len(entities[c]) :
              i > tx.left /\ entities[c][i] \in tx.view => entities[c][i] \in Keyless
    BY TxFacts DEF TxInv
  <2>2. SettledList(c)
    BY <2>1, Settled
  <2>3. NextRow = entities[c][tx.left] /\ q \in tx.view /\ Parent[q] = NextRow
    BY DEF NextRow, Children
  <2>4. q \in rows \cap Listed(c)
    BY <2>1, <2>2, <2>3 DEF SettledList
  <2>5. PICK k \in 1..Len(entities[c]) : k > tx.left /\ entities[c][k] = q
    BY <2>1, <2>2, <2>3, <2>4 DEF SettledList
  <2>. QED
    BY <2>1, <2>3, <2>5
<1>. QED
  BY <1>1, Invariance, PTL

\* While a cleaner works only COMMIT changes the database.
LEMMA OnlyCommit ==
    ASSUME CleanInv, [Next]_vars, phase = "cleaning"
    PROVE  rows' = rows \/ (rows' = tx.view /\ ~tx.aborted /\ tx.left = 0)
<1>1. Quiet /\ ~Running
  BY TxFacts DEF Running
<1>2. CASE UNCHANGED vars
  BY <1>2 DEF vars
<1>3. CASE Testing
  BY <1>1, <1>3 DEF Testing, Create, Read, Record, InsertBySQL, Delete, SetupTest
<1>4. CASE Cleaning
  BY <1>4 DEF Cleaning, Clean, BeginFails, DeleteNext, SkipNext, RollbackAndReport, CommitFails, Commit,
                Committable
<1>. QED
  BY <1>2, <1>3, <1>4 DEF Next

\* Cleaning deletes all the listed rows that have keys, or nothing.
THEOREM AllOrNothing == Spec => CleansAllOrNothing
<1>1. CleanInv /\ [Next]_vars =>
        (phase = "cleaning" => rows' = rows \/ rows' \cap (Listed(tx.cleaner) \ Keyless) = {})
  <2> SUFFICES ASSUME CleanInv, [Next]_vars, phase = "cleaning", rows' # rows
               PROVE  rows' \cap (Listed(tx.cleaner) \ Keyless) = {}
    OBVIOUS
  <2>1. rows' = tx.view /\ ~tx.aborted /\ tx.left = 0
    BY OnlyCommit
  <2>2. \A i \in 1..Len(entities[tx.cleaner]) : entities[tx.cleaner][i] \in tx.view => entities[tx.cleaner][i] \in Keyless
    BY <2>1, TxFacts DEF TxInv
  <2>. QED
    BY <2>1, <2>2 DEF Listed
<1>. QED
  BY <1>1, Invariance, PTL DEF Spec, CleansAllOrNothing

\* Cleaning leaves alone what its cleaner has not seen created.
THEOREM OthersStay == Spec => LeavesOthersAlone
<1>1. CleanInv /\ [Next]_vars =>
        (phase = "cleaning" /\ ~collided[tx.cleaner] => rows \ created[tx.cleaner] \subseteq rows')
  <2> SUFFICES ASSUME CleanInv, [Next]_vars, phase = "cleaning", ~collided[tx.cleaner], rows' # rows
               PROVE  rows \ created[tx.cleaner] \subseteq rows'
    OBVIOUS
  <2>1. rows' = tx.view
    BY OnlyCommit
  <2>2. rows \ tx.view \subseteq Listed(tx.cleaner)
    BY TxFacts DEF TxInv
  <2>3. Listed(tx.cleaner) \subseteq created[tx.cleaner]
    BY TxFacts, Settled DEF SettledList
  <2>. QED
    BY <2>1, <2>2, <2>3
<1>. QED
  BY <1>1, Invariance, PTL DEF Spec, LeavesOthersAlone

\* A cleaner that reports errors and returns nil has left nothing of its time.
THEOREM NilIsClean == Spec => NilMeansClean
<1>1. CleanInv /\ [Next]_vars =>
        (reporting /\ phase = "cleaning" /\ phase' # "cleaning" /\ ~raced[tx.cleaner] /\ report' = "nil"
           => created[tx.cleaner] \cap rows' = {})
  <2> SUFFICES ASSUME CleanInv, [Next]_vars, reporting, phase = "cleaning", phase' # "cleaning",
                      ~raced[tx.cleaner], report' = "nil"
               PROVE  created[tx.cleaner] \cap rows' = {}
    OBVIOUS
  <2>1. Quiet /\ ~Running /\ tx.cleaner \in Cleaners
    BY TxFacts DEF Running
  <2>2. Commit
    <3>1. ~UNCHANGED vars
      BY DEF vars, cleanVars
    <3>2. ~Testing
      BY <2>1 DEF Testing, Create, Read, Record, InsertBySQL, Delete, SetupTest, Pending, Quiet
    <3>3. ~DeleteNext /\ ~SkipNext
      BY DEF DeleteNext, SkipNext
    <3>4. ~RollbackAndReport /\ ~CommitFails
      BY DEF RollbackAndReport, CommitFails, Finish
    <3>5. ASSUME NEW c \in Cleaners PROVE ~Clean(c) /\ ~BeginFails(c)
      BY DEF Clean, BeginFails
    <3>. QED
      BY <3>1, <3>2, <3>3, <3>4, <3>5 DEF Next, Cleaning
  <2>3. rows' = tx.view /\ ~tx.aborted /\ tx.left = 0
    BY <2>2 DEF Commit, Committable
  <2>4. \A i \in 1..Len(entities[tx.cleaner]) : entities[tx.cleaner][i] \notin tx.view
    BY <2>3, TxFacts DEF TxInv
  <2>5. created[tx.cleaner] \subseteq Listed(tx.cleaner)
    BY <2>1, Settled DEF SettledList
  <2>. QED
    BY <2>3, <2>4, <2>5 DEF Listed
<1>. QED
  BY <1>1, Invariance, PTL DEF Spec, NilMeansClean
=============================================================================
