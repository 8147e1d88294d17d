-------------------------- MODULE MigrationsProofs --------------------------
(***************************************************************************)
(* Theorems about Migrations, for any number of runs of any kind, killed   *)
(* or overlapping.                                                         *)
(***************************************************************************)
EXTENDS Migrations, TLAPS

Busy(r) == Journaled(kind[r]) /\ pc[r] \in Active
Working(r, k) == kind[r] = k /\ pc[r] \in {"check", "execute", "log"}

\* A run whose last statement is executed, and whose migration is not entered yet.
Logging(k, m) == \E r \in Runs : kind[r] = k /\ pc[r] = "log" /\ Current(r) = m

\* Where a run is fits what it does.
Course ==
  \A r \in Runs :
    /\ pc[r] = "idle" <=> kind[r] = "none"
    /\ pc[r] \in {"readJournal", "check", "log"} => Journaled(kind[r])
    /\ Journaled(kind[r]) /\ pc[r] \in {"check", "execute", "log"} => todo[r] # {}
    /\ pc[r] \in {"idle", "readJournal", "check"} => at[r] = 1
    /\ pc[r] = "execute" => at[r] <= Len(Statements(r))
    /\ pc[r] = "log" => at[r] = Len(Statements(r)) + 1
    /\ pc[r] = "log" /\ kind[r] = "undo" => Current(r) # 5

\* What no statement drops.
Lasting == Tables \cup {"schema", "author"}

Adds(statements, n) == UNION {statements[i].adds : i \in 1 .. n}

\* A run finds again what it made, and so does everybody what is in the journal.
MadeStays ==
  /\ \A r \in Runs : Working(r, "migrate") => Adds(Statements(r), at[r] - 1) \cap Lasting \subseteq objects
  /\ \A m \in journal : Adds(up[m], Len(up[m])) \cap Lasting \subseteq objects
  /\ articles => "author" \in objects

OneAtATime == ~overlapped => \A q, r \in Runs : Busy(q) /\ Busy(r) => q = r

\* Runs that do not overlap keep the journal without gaps, and work from it.
JournalInOrder ==
  ~overlapped =>
    /\ \E k \in 0 .. 5 : journal = 1 .. k
    /\ \A r \in Runs : /\ Working(r, "migrate") => todo[r] = All \ journal
                       /\ Working(r, "undo") => journal # {} /\ todo[r] = {Max(journal)}

RenamedOnce ==
  ~overlapped /\ "author" \in objects =>
    "userId" \notin objects /\ 4 \in journal /\ ~Logging("undo", 4)

\* A database that is not torn is what its journal says, but for the migration
\* about to be entered.
Synchronized ==
  ~overlapped /\ ~torn =>
    /\ (1 \in journal /\ ~Logging("undo", 1)) \/ Logging("migrate", 1) => "extension" \in objects
    /\ "userId" \in objects <=>
         \/ 4 \in journal /\ 5 \notin journal /\ ~Logging("undo", 4) /\ ~Logging("migrate", 5)
         \/ Logging("migrate", 4)
    /\ "author" \in objects => 5 \in journal \/ Logging("migrate", 5)

SuccessIsWhole ==
  (\E r \in Runs : kind[r] = "migrate" /\ pc[r] = "done") /\ ~overlapped => journal = All

IInv == /\ TypeOK /\ Course /\ MadeStays
        /\ OneAtATime /\ JournalInOrder /\ RenamedOnce /\ Synchronized
        /\ SuccessIsWhole /\ FailuresExplained

(***************************************************************************)
(* Facts about the operators.                                              *)
(***************************************************************************)
LEMMA Numbers == All = 1 .. 5
BY DEF All, up

\* The next migration of a run is the lowest, and the last one of a journal the highest.
LEMMA LowestAndHighest ==
  ASSUME NEW S \in SUBSET (1 .. 5), S # {}
  PROVE  /\ Min(S) \in S /\ \A m \in S : Min(S) <= m
         /\ Max(S) \in S /\ \A m \in S : m <= Max(S)
<1> DEFINE lowest(n)  == n \in S /\ \A m \in S : n <= m
           highest(n) == n \in S /\ \A m \in S : n >= m
<1>1. \A m \in S : m \in {1, 2, 3, 4, 5}
  OBVIOUS
<1>2. \E n \in S : lowest(n)
  <2>1. CASE 1 \in S
    BY <1>1, <2>1
  <2>2. CASE 1 \notin S /\ 2 \in S
    BY <1>1, <2>2
  <2>3. CASE 1 \notin S /\ 2 \notin S /\ 3 \in S
    BY <1>1, <2>3
  <2>4. CASE 1 \notin S /\ 2 \notin S /\ 3 \notin S /\ 4 \in S
    BY <1>1, <2>4
  <2>5. CASE 1 \notin S /\ 2 \notin S /\ 3 \notin S /\ 4 \notin S
    <3>1. PICK n \in S : n = 5
      BY <1>1, <2>5
    <3> QED
      BY <1>1, <2>5, <3>1
  <2> QED
    BY <2>1, <2>2, <2>3, <2>4, <2>5
<1>3. \E n \in S : highest(n)
  <2>1. CASE 5 \in S
    BY <1>1, <2>1
  <2>2. CASE 5 \notin S /\ 4 \in S
    BY <1>1, <2>2
  <2>3. CASE 5 \notin S /\ 4 \notin S /\ 3 \in S
    BY <1>1, <2>3
  <2>4. CASE 5 \notin S /\ 4 \notin S /\ 3 \notin S /\ 2 \in S
    BY <1>1, <2>4
  <2>5. CASE 5 \notin S /\ 4 \notin S /\ 3 \notin S /\ 2 \notin S
    <3>1. PICK n \in S : n = 1
      BY <1>1, <2>5
    <3> QED
      BY <1>1, <2>5, <3>1
  <2> QED
    BY <2>1, <2>2, <2>3, <2>4, <2>5
<1>4. lowest(Min(S))
  BY <1>2 DEF Min
<1>5. highest(Max(S))
  BY <1>3 DEF Max
<1> QED
  BY <1>4, <1>5

\* How many statements the migrations have.
LEMMA Lengths ==
  /\ Len(up[1]) = 1 /\ Len(up[2]) = 8 /\ Len(up[3]) = 3 /\ Len(up[4]) = 1 /\ Len(up[5]) = 1
  /\ Len(down[1]) = 1 /\ Len(down[2]) = 1 /\ Len(down[3]) = 3 /\ Len(down[4]) = 1 /\ Len(down[5]) = 1
  /\ Len(insertDefault) = 1 /\ Len(deleteTenants) = 1
BY DEF up, down, createUuidExtension, createDefaultTenant, refactorImageModels, userHasArticles,
       changeColumnName, dropUuidExtension, dropDefaultTenant, restoreImageModels, userHasNoArticles,
       restoreColumnName, insertDefault, deleteTenants

\* The statements that are not mere CREATE TABLEs.
LEMMA UpStatements ==
  /\ up[1][1] = Statement({}, {}, {"extension"}, {})
  /\ up[2][1] = Statement({"extension"}, {}, {"Tenant"}, {})
  /\ up[2][2] = Statement({}, {}, {"schema"}, {})
  /\ up[2][3] = createTable("User", {})
  /\ up[2][4] = createTable("Article", {})
  /\ up[2][5] = createTable("Comment", {"Article", "User"})
  /\ up[2][6] = createTable("Credentials", {"User"})
  /\ up[2][7] = createTable("Image", {"Article"})
  /\ up[2][8] = createTable("Rating", {"User", "Comment"})
  /\ up[3][1] = dropPublicTable("Image")
  /\ up[3][2] = createTable("UserImage", {"User"})
  /\ up[3][3] = createTable("ArticleImage", {"Article"})
  /\ up[4][1] = [Statement({"Article", "User"}, {"userId"}, {"userId"}, {}) EXCEPT !.onlyEmpty = TRUE]
  /\ up[5][1] = Statement({"userId"}, {"author"}, {"author"}, {"userId"})
BY DEF up, createUuidExtension, createDefaultTenant, refactorImageModels, userHasArticles,
       changeColumnName

\* The first statements of each down, and those of the seeder.
LEMMA OtherStatements ==
  /\ down[1][1] = Statement({"extension"}, {"Tenant"}, {}, {"extension"})
  /\ down[2][1] = undefinedSchema
  /\ down[3][1] = dropPublicTable("ArticleImage")
  /\ down[3][2] = dropPublicTable("UserImage")
  /\ down[3][3] = undefinedSchema
  /\ down[4][1] = Statement({"userId"}, {}, {}, {"userId"})
  /\ down[5][1] = undefinedSchema
  /\ insertDefault[1] = Statement({"Tenant"}, {"default"}, {"default"}, {})
  /\ deleteTenants[1] = Statement({"Tenant"}, {}, {}, {"default"})
BY DEF down, dropUuidExtension, dropDefaultTenant, restoreImageModels, userHasNoArticles,
       restoreColumnName, insertDefault, deleteTenants
\* A list of statements that makes only what there can be, and drops nothing that lasts.
Careful(statements) ==
  /\ Len(statements) \in 1 .. 8
  /\ \A i \in 1 .. Len(statements) : /\ statements[i].adds \subseteq Objects
                                     /\ statements[i].drops \cap Lasting = {}

\* Every migration and the seeder are lists of careful statements.
LEMMA CarefulLists ==
  /\ \A m \in 1 .. 5 : Careful(up[m]) /\ Careful(down[m])
  /\ Careful(insertDefault) /\ Careful(deleteTenants)
<1> USE Lengths DEF Careful, Statement, createTable, dropPublicTable, undefinedSchema, Objects, Tables, Lasting
<1>1. Careful(up[1]) /\ Careful(up[4]) /\ Careful(up[5])
  BY UpStatements
<1>2. Careful(up[2])
  <2>1. \A i \in 1 .. 8 : i = 1 \/ i = 2 \/ i = 3 \/ i = 4 \/ i = 5 \/ i = 6 \/ i = 7 \/ i = 8
    OBVIOUS
  <2> QED
    BY <2>1, UpStatements
<1>3. Careful(up[3])
  BY UpStatements
<1>4. Careful(down[1]) /\ Careful(down[2]) /\ Careful(down[4]) /\ Careful(down[5])
  BY OtherStatements
<1>5. Careful(down[3]) /\ Careful(insertDefault) /\ Careful(deleteTenants)
  BY OtherStatements
<1>6. \A m \in 1 .. 5 : m = 1 \/ m = 2 \/ m = 3 \/ m = 4 \/ m = 5
  OBVIOUS
<1> HIDE DEF Careful
<1> QED
  BY <1>1, <1>2, <1>3, <1>4, <1>5, <1>6

\* A run is at one of its migrations, which are numbered from 1 to 5.
LEMMA AtAMigration ==
  ASSUME TypeOK, Course, NEW r \in Runs, Journaled(kind[r]), pc[r] \in {"check", "execute", "log"}
  PROVE  /\ Current(r) \in todo[r] /\ Current(r) \in 1 .. 5 /\ \A m \in todo[r] : Current(r) <= m
         /\ Careful(Statements(r))
         /\ kind[r] = "migrate" => Statements(r) = up[Current(r)]
         /\ kind[r] = "undo" => Statements(r) = down[Current(r)]
<1>1. todo[r] \in SUBSET (1 .. 5) /\ todo[r] # {}
  BY Numbers DEF TypeOK, Course
<1>2. Current(r) \in todo[r] /\ Current(r) \in 1 .. 5 /\ \A m \in todo[r] : Current(r) <= m
  BY <1>1, LowestAndHighest DEF Current
<1>3. /\ kind[r] = "migrate" => Statements(r) = up[Current(r)]
      /\ kind[r] = "undo" => Statements(r) = down[Current(r)]
  BY DEF Statements
<1> QED
  BY <1>2, <1>3, CarefulLists DEF Journaled

\* What a run executes next is a careful statement of its list.
LEMMA ExecutesCarefully ==
  ASSUME TypeOK, Course, NEW r \in Runs, pc[r] = "execute"
  PROVE  Careful(Statements(r)) /\ at[r] \in 1 .. Len(Statements(r))
<1>1. kind[r] \in {"migrate", "undo", "seed", "unseed"}
  BY KindAssumption DEF TypeOK, Course
<1>2. Careful(Statements(r))
  <2>1. CASE Journaled(kind[r])
    BY <2>1, AtAMigration
  <2>2. CASE ~Journaled(kind[r])
    BY <1>1, <2>2, CarefulLists DEF Statements, Journaled
  <2> QED
    BY <2>1, <2>2
<1> QED
  BY <1>2 DEF TypeOK, Course, Careful

(***************************************************************************)
(* What the steps change.                                                  *)
(***************************************************************************)
Acts(r) == begin(r) \/ Step(r) \/ kill(r)

\* What may happen.
LEMMA NextCases ==
  ASSUME [Next]_vars
  PROVE  createArticle \/ (\E r \in Runs : Acts(r)) \/ UNCHANGED vars
BY DEF Next, Acts

\* A step of one run leaves the others where they are.
LEMMA OthersUndisturbed ==
  ASSUME TypeOK, NEW r \in Runs, Acts(r), NEW q \in Runs, q # r
  PROVE  /\ kind'[q] = kind[q] /\ pc'[q] = pc[q] /\ todo'[q] = todo[q] /\ at'[q] = at[q]
         /\ Current(q)' = Current(q) /\ Statements(q)' = Statements(q)
<1>1. kind'[q] = kind[q] /\ pc'[q] = pc[q] /\ todo'[q] = todo[q] /\ at'[q] = at[q]
  BY DEF Acts, begin, Step, readJournal, checkJournal, execute, logMigration, kill, Advance, Goto, TypeOK
<1> QED
  BY <1>1 DEF Current, Statements
\* What a statement does when it is accepted.
Accepted(s) == /\ s.needs \subseteq objects /\ s.forbids \cap objects = {}
               /\ s.onlyEmpty => ~articles

\* A statement is accepted, and the run goes on, or refused, and the run fails.
LEMMA Executed ==
  ASSUME TypeOK, Course, NEW r \in Runs, execute(r)
  PROVE  LET s == Statements(r)[at[r]] IN
         /\ Careful(Statements(r)) /\ at[r] \in 1 .. Len(Statements(r))
         /\ Current(r)' = Current(r) /\ Statements(r)' = Statements(r)
         /\ UNCHANGED <<articles, journal, kind, todo, torn, overlapped>>
         /\ \/ /\ Accepted(s)
               /\ objects' = (objects \ s.drops) \cup s.adds
               /\ at'[r] = at[r] + 1
               /\ pc'[r] = IF at[r] < Len(Statements(r)) THEN "execute"
                           ELSE IF Journaled(kind[r]) THEN "log" ELSE "done"
            \/ /\ ~Accepted(s)
               /\ pc'[r] = "failed" /\ UNCHANGED <<objects, at>>
<1>1. pc[r] = "execute"
  BY DEF execute
<1>2. Current(r)' = Current(r) /\ Statements(r)' = Statements(r)
  BY DEF execute, Current, Statements
<1> QED
  BY <1>1, <1>2, ExecutesCarefully DEF execute, Goto, Accepted, TypeOK

\* Every step keeps the types.
LEMMA TypeStep == ASSUME TypeOK, Course, [Next]_vars PROVE TypeOK'
<1> USE DEF TypeOK
<1>1. ASSUME createArticle PROVE TypeOK'
  BY <1>1 DEF createArticle, run
<1>2. ASSUME NEW r \in Runs, begin(r) PROVE TypeOK'
  BY <1>2 DEF begin, Goto, Active
<1>3. ASSUME NEW r \in Runs, readJournal(r) PROVE TypeOK'
  <2>1. journal # {} => Max(journal) \in journal
    BY Numbers, LowestAndHighest
  <2> QED
    BY <1>3, <2>1 DEF readJournal, Goto, Active, Ended
<1>4. ASSUME NEW r \in Runs, checkJournal(r) PROVE TypeOK'
  BY <1>4 DEF checkJournal, Advance, Goto, Active, Ended
<1>5. ASSUME NEW r \in Runs, execute(r) PROVE TypeOK'
  <2>1. objects' \subseteq Objects
    BY <1>5, Executed DEF Careful
  <2>2. at'[r] \in 1 .. 9 /\ pc'[r] \in Active \cup Ended
    BY <1>5, Executed DEF Careful, Active, Ended
  <2>3. at' \in [Runs -> 1 .. 9] /\ pc' \in [Runs -> Active \cup Ended \cup {"idle"}]
    BY <1>5, <2>2 DEF execute, Goto
  <2> QED
    BY <1>5, <2>1, <2>3, Executed
<1>6. ASSUME NEW r \in Runs, logMigration(r) PROVE TypeOK'
  <2>1. pc[r] = "log" /\ Journaled(kind[r])
    BY <1>6 DEF logMigration, Course
  <2>2. Current(r) \in All
    BY <2>1, AtAMigration, Numbers
  <2>3. CASE kind[r] = "undo"
    BY <1>6, <2>2, <2>3 DEF logMigration, Advance, Goto, Active, Ended
  <2>4. CASE kind[r] = "migrate" /\ Current(r) \notin journal
    BY <1>6, <2>2, <2>4 DEF logMigration, Advance, Goto, Active, Ended
  <2>5. CASE kind[r] = "migrate" /\ Current(r) \in journal
    BY <1>6, <2>2, <2>5 DEF logMigration, Goto, Active, Ended
  <2> QED
    BY <2>1, <2>3, <2>4, <2>5 DEF Journaled
<1>7. ASSUME NEW r \in Runs, kill(r) PROVE TypeOK'
  BY <1>7 DEF kill, Goto, Ended
<1> QED
  BY <1>1, <1>2, <1>3, <1>4, <1>5, <1>6, <1>7, NextCases DEF Acts, Step, vars, run
\* A run that advances has at least one migration to go, or is done.
LEMMA Advanced ==
  ASSUME TypeOK, Course, NEW r \in Runs, Journaled(kind[r]), pc[r] \in {"check", "execute", "log"},
         Advance(r)
  PROVE  /\ todo'[r] = todo[r] \ {Current(r)} /\ at'[r] = 1
         /\ \/ pc'[r] = "done" /\ todo[r] = {Current(r)}
            \/ pc'[r] = "check" /\ todo'[r] # {}
<1>1. Current(r) \in todo[r]
  BY AtAMigration
<1>2. todo'[r] = todo[r] \ {Current(r)} /\ at'[r] = 1
      /\ pc'[r] = IF todo[r] = {Current(r)} THEN "done" ELSE "check"
  BY DEF Advance, Goto, TypeOK
<1> QED
  BY <1>1, <1>2

\* Where a run is fits what it does.
LEMMA CourseStep == ASSUME TypeOK, Course, [Next]_vars PROVE Course'
<1> USE DEF TypeOK
<1>1. CASE createArticle \/ UNCHANGED vars
  BY <1>1 DEF createArticle, vars, run, Course, Statements, Current
<1>2. ASSUME NEW r \in Runs, Acts(r) PROVE Course'
  <2> DEFINE fits ==
        /\ pc'[r] = "idle" <=> kind'[r] = "none"
        /\ pc'[r] \in {"readJournal", "check", "log"} => Journaled(kind'[r])
        /\ Journaled(kind'[r]) /\ pc'[r] \in {"check", "execute", "log"} => todo'[r] # {}
        /\ pc'[r] \in {"idle", "readJournal", "check"} => at'[r] = 1
        /\ pc'[r] = "execute" => at'[r] <= Len(Statements(r)')
        /\ pc'[r] = "log" => at'[r] = Len(Statements(r)') + 1
        /\ pc'[r] = "log" /\ kind'[r] = "undo" => Current(r)' # 5
  <2>1. ASSUME begin(r) PROVE fits
    <3>1. PICK k \in Kinds : /\ kind'[r] = k /\ pc[r] = "idle"
                             /\ pc'[r] = IF Journaled(k) THEN "readJournal" ELSE "execute"
                             /\ at' = at
      BY <2>1 DEF begin, Goto
    <3>2. k # "none" /\ (~Journaled(k) => k \in {"seed", "unseed"})
      BY KindAssumption DEF Journaled
    <3>3. k \in {"seed", "unseed"} => Len(Statements(r)') = 1
      BY <3>1, Lengths DEF Statements
    <3>4. at'[r] = 1
      BY <3>1 DEF Course
    <3>5. CASE Journaled(k)
      BY <3>1, <3>2, <3>4, <3>5
    <3>6. CASE ~Journaled(k)
      <4>1. at'[r] <= Len(Statements(r)')
        <5>1. 1 <= 1
          OBVIOUS
        <5> QED
          BY <3>2, <3>3, <3>4, <3>6, <5>1, Zenon
      <4> QED
        BY <3>1, <3>2, <3>4, <3>6, <4>1, Zenon
    <3> QED
      BY <3>5, <3>6
  <2>2. ASSUME readJournal(r) PROVE fits
    <3>1. /\ pc[r] = "readJournal" /\ kind' = kind /\ at' = at
          /\ pc'[r] = IF todo'[r] = {} THEN "done" ELSE "check"
      BY <2>2 DEF readJournal, Goto
    <3> QED
      BY <3>1 DEF Course
  <2>3. ASSUME checkJournal(r) PROVE fits
    <3>1. pc[r] = "check" /\ kind' = kind /\ Journaled(kind[r])
      BY <2>3 DEF checkJournal, Course
    <3>2. CASE Advance(r)
      BY <3>1, <3>2, Advanced DEF Course
    <3>3. CASE Goto(r, "execute") /\ UNCHANGED <<todo, at>>
      <4>1. Statements(r)' = Statements(r)
        BY <3>1, <3>3 DEF Statements, Current
      <4>2. PICK n \in 1 .. 8 : n = Len(Statements(r))
        BY <3>1, AtAMigration DEF Careful
      <4>3. /\ pc'[r] = "execute" /\ at'[r] = 1 /\ todo'[r] # {} /\ kind'[r] = kind[r]
            /\ kind[r] # "none"
        BY <3>1, <3>3 DEF Course, Goto
      <4>4. at'[r] <= Len(Statements(r)')
        <5>1. Len(Statements(r)') = n
          BY <4>1, <4>2, Zenon
        <5> QED
          BY <4>2, <4>3, <5>1
      <4> QED
        BY <4>3, <4>4
    <3> QED
      BY <2>3, <3>2, <3>3 DEF checkJournal
  <2>4. ASSUME execute(r) PROVE fits
    <3>1. pc[r] = "execute" /\ kind' = kind /\ todo' = todo
      BY <2>4 DEF execute
    <3>2. CASE kind[r] = "undo" /\ Current(r) = 5
      <4>1. at[r] = 1 /\ Statements(r)[at[r]] = undefinedSchema
        BY <2>4, <3>2, Executed, Lengths, OtherStatements DEF Statements
      <4>2. ~Accepted(Statements(r)[at[r]])
        BY <4>1 DEF Accepted, undefinedSchema, Statement
      <4> QED
        BY <2>4, <3>1, <4>2, Executed DEF Course
    <3>3. CASE ~(kind[r] = "undo" /\ Current(r) = 5)
      <4>1. Len(Statements(r)) \in 1 .. 8 /\ at[r] \in 1 .. Len(Statements(r))
        BY <2>4, Executed DEF Careful
      <4> QED
        BY <2>4, <3>1, <3>3, <4>1, Executed DEF Course
    <3> QED
      BY <3>2, <3>3
  <2>5. ASSUME logMigration(r) PROVE fits
    <3>1. pc[r] = "log" /\ kind' = kind /\ Journaled(kind[r])
      BY <2>5 DEF logMigration, Course
    <3>2. CASE Advance(r)
      BY <3>1, <3>2, Advanced DEF Course
    <3>3. CASE Goto(r, "failed")
      BY <3>1, <3>3 DEF Course, Goto
    <3> QED
      BY <2>5, <3>1, <3>2, <3>3 DEF logMigration, Journaled
  <2>6. ASSUME kill(r) PROVE fits
    BY <2>6 DEF kill, Goto, Course, Active
  <2>7. fits
    BY <1>2, <2>1, <2>2, <2>3, <2>4, <2>5, <2>6 DEF Acts, Step
  <2>8. ASSUME NEW q \in Runs, q # r
        PROVE  /\ kind'[q] = kind[q] /\ pc'[q] = pc[q] /\ todo'[q] = todo[q] /\ at'[q] = at[q]
               /\ Current(q)' = Current(q) /\ Statements(q)' = Statements(q)
    BY <1>2, <2>8, OthersUndisturbed
  <2> QED
    BY <2>7, <2>8 DEF Course
<1> QED
  BY <1>1, <1>2, NextCases

\* What lasts is never dropped.
LEMMA LastingLasts == ASSUME TypeOK, Course, [Next]_vars PROVE objects \cap Lasting \subseteq objects'
<1>1. ASSUME NEW r \in Runs, execute(r) PROVE objects \cap Lasting \subseteq objects'
  BY <1>1, Executed DEF Careful
<1> QED
  BY <1>1, NextCases
  DEF Acts, Step, createArticle, begin, readJournal, checkJournal, logMigration, kill, vars

\* What a run made is there, and what the journal says.
LEMMA MadeStaysStep == ASSUME TypeOK, Course, MadeStays, [Next]_vars PROVE MadeStays'
<1>1. ASSUME NEW r \in Runs, Acts(r), Working(r, "migrate")'
      PROVE  (Adds(Statements(r), at[r] - 1) \cap Lasting)' \subseteq objects'
  <2>1. CASE at'[r] = 1
    BY <2>1 DEF Adds
  <2>2. CASE at'[r] # 1
    <3>1. ~begin(r) /\ ~readJournal(r) /\ ~kill(r)
      BY <1>1, <2>2 DEF begin, readJournal, kill, Goto, Working, Course, TypeOK, Ended
    <3>2. ~checkJournal(r) /\ ~logMigration(r)
      BY <1>1, <2>2, Advanced DEF checkJournal, logMigration, Goto, Working, Course, TypeOK, Journaled
    <3>3. execute(r)
      BY <1>1, <3>1, <3>2 DEF Acts, Step
    <3>4. /\ Working(r, "migrate") /\ at'[r] = at[r] + 1 /\ Statements(r)' = Statements(r)
          /\ at[r] \in 1 .. 8 /\ Statements(r)[at[r]].adds \subseteq objects'
      BY <1>1, <3>3, Executed DEF Working, execute, Careful, TypeOK
    <3>5. Adds(Statements(r), at[r]) =
            Adds(Statements(r), at[r] - 1) \cup Statements(r)[at[r]].adds
      <4>1. 1 .. at[r] = (1 .. (at[r] - 1)) \cup {at[r]}
        BY <3>4
      <4> QED
        BY <4>1 DEF Adds
    <3> QED
      BY <3>4, <3>5, LastingLasts DEF MadeStays, Adds
  <2> QED
    BY <2>1, <2>2
<1>2. ASSUME NEW r \in Runs, Working(r, "migrate")'
      PROVE  (Adds(Statements(r), at[r] - 1) \cap Lasting)' \subseteq objects'
  <2>1. CASE /\ kind'[r] = kind[r] /\ pc'[r] = pc[r] /\ at'[r] = at[r]
             /\ Statements(r)' = Statements(r)
    BY <1>2, <2>1, LastingLasts DEF MadeStays, Working, Adds
  <2> QED
    BY <1>1, <1>2, <2>1, NextCases, OthersUndisturbed DEF createArticle, vars, run, Statements, Current
<1>3. ASSUME NEW m \in journal' PROVE Adds(up[m], Len(up[m])) \cap Lasting \subseteq objects'
  <2>1. CASE m \in journal
    BY <2>1, LastingLasts DEF MadeStays
  <2>2. CASE m \notin journal
    <3>1. PICK r \in Runs : logMigration(r)
      BY <1>3, <2>2, NextCases
      DEF Acts, Step, createArticle, begin, readJournal, checkJournal, execute, kill, vars
    <3>2. /\ pc[r] = "log" /\ kind[r] = "migrate" /\ m = Current(r) /\ Journaled(kind[r])
      BY <1>3, <2>2, <3>1 DEF logMigration, Course, Journaled
    <3>3. Statements(r) = up[m] /\ at[r] - 1 = Len(up[m])
      BY <3>2, AtAMigration DEF Course, Careful
    <3> QED
      BY <3>2, <3>3, LastingLasts DEF MadeStays, Working
  <2> QED
    BY <2>1, <2>2
<1>4. articles' => "author" \in objects'
  <2>1. articles' => "author" \in objects
    BY NextCases DEF MadeStays, Acts, Step, createArticle, begin, readJournal, checkJournal,
                     execute, logMigration, kill, vars
  <2> QED
    BY <2>1, LastingLasts DEF Lasting
<1> QED
  BY <1>2, <1>3, <1>4 DEF MadeStays
(***************************************************************************)
(* Runs that do not overlap.                                               *)
(***************************************************************************)
\* Of runs that use the journal one is under way at a time.
LEMMA OneAtATimeStep == ASSUME TypeOK, OneAtATime, [Next]_vars PROVE OneAtATime'
<1>1. CASE createArticle \/ UNCHANGED vars
  BY <1>1 DEF createArticle, vars, run, OneAtATime, Busy
<1>2. ASSUME NEW r \in Runs, Acts(r), ~overlapped'
      PROVE  /\ ~overlapped
             /\ \/ Busy(r)' => Busy(r)
                \/ \A q \in Runs : ~Busy(q)
  <2>1. CASE begin(r)
    BY <1>2, <2>1 DEF begin, Goto, Busy, TypeOK, Active, Journaled
  <2>2. CASE ~begin(r)
    <3>1. Step(r) \/ kill(r)
      BY <1>2, <2>2 DEF Acts
    <3>2. kind' = kind /\ pc[r] \in Active /\ overlapped' = overlapped
      BY <3>1 DEF Step, readJournal, checkJournal, execute, logMigration, kill, Active
    <3> QED
      BY <1>2, <3>2 DEF Busy
  <2> QED
    BY <2>1, <2>2
<1>3. ASSUME NEW r \in Runs, Acts(r), NEW q \in Runs, q # r PROVE Busy(q)' = Busy(q)
  BY <1>3, OthersUndisturbed DEF Busy
<1> QED
  BY <1>1, <1>2, <1>3, NextCases DEF OneAtATime

\* The journal and what is left to do, as ranges.
LEMMA Ranges ==
  ASSUME NEW k \in 0 .. 5
  PROVE  /\ (1 .. 5) \ (1 .. k) = (k + 1) .. 5
         /\ (1 .. k) \cup {k + 1} = 1 .. (k + 1)
         /\ ((k + 1) .. 5) \ {k + 1} = (k + 2) .. 5
         /\ (1 .. k) \ {k} = 1 .. (k - 1)
OBVIOUS

\* Where a run that does not overlap is in the order of the migrations.
LEMMA Position ==
  ASSUME TypeOK, Course, JournalInOrder, ~overlapped, NEW r \in Runs
  PROVE  /\ Working(r, "migrate") =>
              \E k \in 0 .. 4 : journal = 1 .. k /\ Current(r) = k + 1 /\ todo[r] = (k + 1) .. 5
         /\ Working(r, "undo") =>
              \E k \in 1 .. 5 : journal = 1 .. k /\ Current(r) = k /\ todo[r] = {k}
<1>1. PICK k \in 0 .. 5 : journal = 1 .. k
  BY DEF JournalInOrder
<1>2. ASSUME Working(r, "migrate")
      PROVE  k \in 0 .. 4 /\ Current(r) = k + 1 /\ todo[r] = (k + 1) .. 5
  <2>1. todo[r] = (k + 1) .. 5
    BY <1>1, <1>2, Numbers, Ranges DEF JournalInOrder
  <2>2. Current(r) \in 1 .. 5 /\ Current(r) \in todo[r] /\ \A m \in todo[r] : Current(r) <= m
    BY <1>2, AtAMigration DEF Working, Journaled
  <2>3. k + 1 \in todo[r]
    BY <1>1, <2>1, <2>2
  <2> QED
    <3>1. PICK m \in 1 .. 5 : m = Current(r)
      BY <2>2
    <3>2. m = k + 1 /\ k \in 0 .. 4
      BY <1>1, <2>1, <2>2, <2>3, <3>1
    <3> QED
      BY <2>1, <3>1, <3>2
<1>3. ASSUME Working(r, "undo")
      PROVE  k \in 1 .. 5 /\ Current(r) = k /\ todo[r] = {k}
  <2>1. journal # {} /\ todo[r] = {Max(journal)} /\ journal \in SUBSET (1 .. 5)
    BY <1>3, Numbers DEF JournalInOrder, TypeOK
  <2>2. Max(journal) \in journal /\ \A m \in journal : m <= Max(journal)
    BY <2>1, LowestAndHighest
  <2>3. k \in journal
    BY <1>1, <2>1
  <2>4. Max(journal) = k
    BY <1>1, <2>2, <2>3
  <2>5. Current(r) \in todo[r]
    BY <1>3, AtAMigration DEF Working, Journaled
  <2> QED
    BY <1>1, <2>1, <2>3, <2>4, <2>5
<1> QED
  BY <1>1, <1>2, <1>3

\* It finds each of its migrations still to be run or undone.
LEMMA NeverPassedOver ==
  ASSUME TypeOK, Course, JournalInOrder, ~overlapped, NEW r \in Runs
  PROVE  /\ checkJournal(r) => pc'[r] = "execute" /\ UNCHANGED <<todo, at>>
         /\ logMigration(r) /\ kind[r] = "migrate" =>
              Advance(r) /\ journal' = journal \cup {Current(r)}
         /\ logMigration(r) /\ kind[r] = "undo" =>
              Advance(r) /\ journal' = journal \ {Current(r)}
<1>1. ASSUME checkJournal(r) PROVE pc'[r] = "execute" /\ UNCHANGED <<todo, at>>
  <2>1. (Working(r, "migrate") \/ Working(r, "undo")) /\ pc[r] = "check"
    BY <1>1 DEF checkJournal, Course, Working, Journaled
  <2>2. Working(r, "migrate") => Current(r) \notin journal
    BY Position
  <2>3. Working(r, "undo") => Current(r) \in journal
    BY Position
  <2>4. ~((Current(r) \in journal) = (kind[r] = "migrate"))
    BY <2>1, <2>2, <2>3 DEF Working
  <2> QED
    BY <1>1, <2>4 DEF checkJournal, Goto, TypeOK
<1>2. ASSUME logMigration(r), kind[r] = "migrate" PROVE Current(r) \notin journal
  <2>1. Working(r, "migrate")
    BY <1>2 DEF logMigration, Working
  <2> QED
    BY <2>1, Position
<1> QED
  BY <1>1, <1>2 DEF logMigration

\* Alone, runs keep the journal in order.
LEMMA JournalInOrderStep ==
  ASSUME TypeOK, Course, OneAtATime, JournalInOrder, [Next]_vars PROVE JournalInOrder'
<1> SUFFICES ASSUME ~overlapped'
             PROVE  /\ \E k \in 0 .. 5 : journal' = 1 .. k
                    /\ \A r \in Runs :
                         /\ Working(r, "migrate")' => todo'[r] = All \ journal'
                         /\ Working(r, "undo")' => journal' # {} /\ todo'[r] = {Max(journal')}
  BY DEF JournalInOrder
<1>1. ~overlapped
  BY NextCases DEF Acts, Step, createArticle, begin, readJournal, checkJournal, execute,
                   logMigration, kill, vars, TypeOK
<1>2. CASE createArticle \/ UNCHANGED vars
  BY <1>1, <1>2 DEF createArticle, vars, run, JournalInOrder, Working
\* Steps that leave the journal.
<1>3. ASSUME NEW r \in Runs, Acts(r), ~logMigration(r)
      PROVE  /\ journal' = journal
             /\ Working(r, "migrate")' => todo'[r] = All \ journal
             /\ Working(r, "undo")' => journal # {} /\ todo'[r] = {Max(journal)}
  <2>1. journal' = journal
    BY <1>3 DEF Acts, Step, begin, readJournal, checkJournal, execute, kill
  <2>2. CASE begin(r) \/ kill(r)
    BY <2>1, <2>2 DEF begin, kill, Goto, Working, TypeOK, Journaled
  <2>3. CASE readJournal(r)
    <3>1. kind'[r] = kind[r] /\ pc[r] = "readJournal" /\ Journaled(kind[r])
      BY <2>3 DEF readJournal, Course
    <3>2. todo'[r] = IF kind[r] = "migrate" THEN All \ journal
                     ELSE IF journal = {} THEN {} ELSE {Max(journal)}
      BY <2>3 DEF readJournal, TypeOK
    <3>3. todo'[r] = {} => pc'[r] = "done"
      BY <2>3 DEF readJournal, Goto, TypeOK
    <3> QED
      BY <2>1, <3>1, <3>2, <3>3 DEF Working
  <2>4. CASE checkJournal(r) \/ execute(r)
    <3>1. kind' = kind /\ todo' = todo /\ pc[r] \in {"check", "execute"}
      BY <1>1, <2>4, NeverPassedOver DEF checkJournal, execute
    <3> QED
      BY <1>1, <2>1, <3>1 DEF JournalInOrder, Working
  <2> QED
    BY <1>3, <2>1, <2>2, <2>3, <2>4 DEF Acts, Step
<1>4. ASSUME NEW r \in Runs, logMigration(r)
      PROVE  /\ \E k \in 0 .. 5 : journal' = 1 .. k
             /\ Working(r, "migrate")' => todo'[r] = All \ journal'
             /\ ~Working(r, "undo")'
             /\ \A q \in Runs : q # r => ~Busy(q)
  <2>1. pc[r] = "log" /\ Journaled(kind[r]) /\ kind' = kind /\ Busy(r)
    BY <1>4 DEF logMigration, Course, Busy, Active
  <2>2. CASE kind[r] = "migrate"
    <3>1. PICK k \in 0 .. 4 : journal = 1 .. k /\ Current(r) = k + 1 /\ todo[r] = (k + 1) .. 5
      BY <1>1, <2>1, <2>2, Position DEF Working
    <3>2. journal' = (1 .. k) \cup {k + 1} /\ todo'[r] = ((k + 1) .. 5) \ {k + 1}
      BY <1>1, <1>4, <2>1, <2>2, <3>1, NeverPassedOver, Advanced
    <3>3. journal' = 1 .. (k + 1) /\ todo'[r] = (1 .. 5) \ (1 .. (k + 1))
      BY <3>2, Ranges
    <3> QED
      BY <1>1, <2>1, <2>2, <3>1, <3>3, Numbers DEF OneAtATime, Working
  <2>3. CASE kind[r] = "undo"
    <3>1. PICK k \in 1 .. 5 : journal = 1 .. k /\ Current(r) = k /\ todo[r] = {k}
      BY <1>1, <2>1, <2>3, Position DEF Working
    <3>2. journal' = (1 .. k) \ {k} /\ pc'[r] = "done"
      BY <1>1, <1>4, <2>1, <2>3, <3>1, NeverPassedOver, Advanced
    <3>3. journal' = 1 .. (k - 1)
      BY <3>2, Ranges
    <3> QED
      BY <1>1, <2>1, <2>3, <3>1, <3>2, <3>3 DEF OneAtATime, Working
  <2> QED
    BY <2>1, <2>2, <2>3 DEF Journaled
<1>5. ASSUME NEW r \in Runs, Acts(r), NEW q \in Runs, q # r
      PROVE  /\ Working(q, "migrate")' = Working(q, "migrate")
             /\ Working(q, "undo")' = Working(q, "undo")
             /\ todo'[q] = todo[q]
  BY <1>5, OthersUndisturbed DEF Working
<1>6. ASSUME NEW q \in Runs, Working(q, "migrate") \/ Working(q, "undo") PROVE Busy(q)
  BY <1>6 DEF Working, Busy, Journaled, Active
<1>7. ASSUME NEW r \in Runs, Acts(r), ~logMigration(r)
      PROVE  /\ \E k \in 0 .. 5 : journal' = 1 .. k
             /\ \A q \in Runs :
                  /\ Working(q, "migrate")' => todo'[q] = All \ journal'
                  /\ Working(q, "undo")' => journal' # {} /\ todo'[q] = {Max(journal')}
  BY <1>1, <1>3, <1>5, <1>7 DEF JournalInOrder
<1>8. ASSUME NEW r \in Runs, logMigration(r)
      PROVE  \A q \in Runs : /\ Working(q, "migrate")' => todo'[q] = All \ journal'
                             /\ ~Working(q, "undo")'
  <2>1. Acts(r)
    BY <1>8 DEF Acts, Step
  <2> QED
    BY <1>4, <1>5, <1>6, <1>8, <2>1
<1> QED
  BY <1>2, <1>4, <1>7, <1>8, NextCases
\* A list of statements that leaves the extension and both columns as they are.
Plain(statements) ==
  \A i \in 1 .. Len(statements) :
    (statements[i].adds \cup statements[i].drops) \cap {"extension", "userId", "author"} = {}

\* The lists that are plain.
LEMMA PlainLists ==
  /\ Plain(up[2]) /\ Plain(up[3]) /\ Plain(down[2]) /\ Plain(down[3]) /\ Plain(down[5])
  /\ Plain(insertDefault) /\ Plain(deleteTenants)
<1> USE Lengths DEF Plain, Statement, createTable, dropPublicTable, undefinedSchema
<1>1. Plain(up[2])
  <2>1. \A i \in 1 .. 8 : i = 1 \/ i = 2 \/ i = 3 \/ i = 4 \/ i = 5 \/ i = 6 \/ i = 7 \/ i = 8
    OBVIOUS
  <2> QED
    BY <2>1, UpStatements
<1>2. Plain(up[3])
  BY UpStatements
<1>3. Plain(down[2]) /\ Plain(down[5])
  BY OtherStatements
<1>4. Plain(down[3])
  BY OtherStatements
<1>5. Plain(insertDefault) /\ Plain(deleteTenants)
  BY OtherStatements
<1> HIDE DEF Plain
<1> QED
  BY <1>1, <1>2, <1>3, <1>4, <1>5

Unchanging(o) == o \in objects' <=> o \in objects

\* Which statement changes the extension or a column.
LEMMA WhoChanges ==
  ASSUME TypeOK, Course, NEW r \in Runs, execute(r)
  PROVE  \/ /\ \/ pc'[r] # "log"
               \/ pc'[r] = "log" /\ Current(r) \in {2, 3}
            /\ Unchanging("extension") /\ Unchanging("userId") /\ Unchanging("author")
         \/ /\ pc'[r] = "log" /\ kind[r] = "migrate" /\ Current(r) = 1
            /\ "extension" \in objects'
            /\ Unchanging("userId") /\ Unchanging("author")
         \/ /\ pc'[r] = "log" /\ kind[r] = "migrate" /\ Current(r) = 4
            /\ "userId" \notin objects /\ "userId" \in objects'
            /\ Unchanging("extension") /\ Unchanging("author")
         \/ /\ pc'[r] = "log" /\ kind[r] = "migrate" /\ Current(r) = 5
            /\ "userId" \in objects /\ "userId" \notin objects'
            /\ "author" \notin objects /\ "author" \in objects'
            /\ Unchanging("extension")
         \/ /\ pc'[r] = "log" /\ kind[r] = "undo" /\ Current(r) = 1
            /\ "extension" \notin objects'
            /\ Unchanging("userId") /\ Unchanging("author")
         \/ /\ pc'[r] = "log" /\ kind[r] = "undo" /\ Current(r) = 4
            /\ "userId" \in objects /\ "userId" \notin objects'
            /\ Unchanging("extension") /\ Unchanging("author")
<1> USE DEF Unchanging
<1> DEFINE s == Statements(r)[at[r]]
<1>1. /\ Careful(Statements(r)) /\ at[r] \in 1 .. Len(Statements(r))
      /\ \/ /\ Accepted(s) /\ objects' = (objects \ s.drops) \cup s.adds
            /\ pc'[r] = IF at[r] < Len(Statements(r)) THEN "execute"
                        ELSE IF Journaled(kind[r]) THEN "log" ELSE "done"
         \/ pc'[r] = "failed" /\ objects' = objects
  BY Executed
<1>2. kind[r] \in {"migrate", "undo", "seed", "unseed"} /\ pc[r] = "execute"
  BY KindAssumption DEF execute, TypeOK, Course
<1>3. CASE pc'[r] = "failed"
  BY <1>1, <1>3
<1>4. CASE Plain(Statements(r)) /\ pc'[r] # "failed"
  <2>1. \A o \in {"extension", "userId", "author"} : o \in objects' <=> o \in objects
    BY <1>1, <1>4 DEF Plain
  <2>2. pc'[r] # "log" \/ (Journaled(kind[r]) /\ Current(r) # 1 /\ Current(r) # 4 /\ ~(kind[r] = "migrate" /\ Current(r) = 5))
    <3>1. ~Plain(up[1]) /\ ~Plain(up[4]) /\ ~Plain(up[5]) /\ ~Plain(down[1]) /\ ~Plain(down[4])
      BY Lengths, UpStatements, OtherStatements DEF Plain, Statement
    <3> QED
      BY <1>1, <1>2, <1>4, <3>1 DEF Statements, Journaled
  <2>3. pc'[r] = "log" => Current(r) # 5 /\ Current(r) \in 1 .. 5
    <3>1. [Next]_vars
      BY DEF Next, Step
    <3>2. kind'[r] = kind[r] /\ Current(r)' = Current(r)
      BY Executed DEF execute
    <3>3. pc'[r] = "log" /\ kind'[r] = "undo" => Current(r)' # 5
      BY <3>1, CourseStep DEF Course
    <3>4. Journaled(kind[r]) => Current(r) \in 1 .. 5
      BY <1>2, AtAMigration
    <3> QED
      BY <1>2, <2>2, <3>2, <3>3, <3>4 DEF Journaled
  <2> QED
    BY <1>2, <2>1, <2>2, <2>3 DEF Journaled
<1>5. CASE ~Plain(Statements(r)) /\ pc'[r] # "failed"
  <2>1. Journaled(kind[r]) /\ Current(r) \in 1 .. 5
    BY <1>2, <1>5, AtAMigration, PlainLists DEF Statements, Journaled
  <2>2. \/ kind[r] = "migrate" /\ Current(r) \in {1, 4, 5}
        \/ kind[r] = "undo" /\ Current(r) \in {1, 4}
    BY <1>2, <1>5, <2>1, PlainLists DEF Statements, Journaled
  <2>3. Len(Statements(r)) = 1 /\ at[r] = 1 /\ pc'[r] = "log"
    <3>1. Len(Statements(r)) = 1
      BY <1>2, <2>2, Lengths DEF Statements
    <3>2. at[r] = 1
      BY <1>1, <3>1
    <3>3. ~(at[r] < Len(Statements(r)))
      BY <3>1, <3>2
    <3> QED
      BY <1>1, <1>5, <2>1, <3>1, <3>2, <3>3
  <2>4. CASE kind[r] = "migrate" /\ Current(r) = 1
    BY <1>1, <1>5, <2>3, <2>4, UpStatements DEF Statements, Statement, Accepted
  <2>5. CASE kind[r] = "migrate" /\ Current(r) = 4
    BY <1>1, <1>5, <2>3, <2>5, UpStatements DEF Statements, Statement, Accepted
  <2>6. CASE kind[r] = "migrate" /\ Current(r) = 5
    <3>1. s = Statement({"userId"}, {"author"}, {"author"}, {"userId"})
      BY <2>3, <2>6, UpStatements DEF Statements
    <3>2. /\ "userId" \in objects /\ "author" \notin objects
          /\ objects' = (objects \ {"userId"}) \cup {"author"}
      BY <1>1, <1>5, <3>1 DEF Statement, Accepted
    <3> QED
      BY <2>3, <2>6, <3>2
  <2>7. CASE kind[r] = "undo" /\ Current(r) = 1
    BY <1>1, <1>5, <2>3, <2>7, OtherStatements DEF Statements, Statement, Accepted
  <2>8. CASE kind[r] = "undo" /\ Current(r) = 4
    BY <1>1, <1>5, <2>3, <2>8, OtherStatements DEF Statements, Statement, Accepted
  <2> QED
    BY <2>2, <2>4, <2>5, <2>6, <2>7, <2>8
<1> QED
  BY <1>3, <1>4, <1>5
\* What history has noted stays noted.
LEMMA HistoryKept ==
  ASSUME TypeOK, [Next]_vars PROVE (overlapped => overlapped') /\ (torn => torn')
BY NextCases DEF Acts, Step, createArticle, begin, readJournal, checkJournal, execute,
                 logMigration, kill, vars, TypeOK

\* Only the execution of its last statement takes a run to its entry in the journal.
LEMMA WhoLogs ==
  ASSUME TypeOK, Course, NEW r \in Runs, Acts(r), NEW k, NEW m
  PROVE  /\ Logging(k, m)' => \/ Logging(k, m)
                              \/ execute(r) /\ pc'[r] = "log" /\ kind[r] = k /\ Current(r) = m
         /\ pc[r] # "log" /\ Logging(k, m) => Logging(k, m)'
<1>1. ASSUME NEW q \in Runs, q # r
      PROVE  kind'[q] = kind[q] /\ pc'[q] = pc[q] /\ Current(q)' = Current(q)
  BY <1>1, OthersUndisturbed
<1>2. pc'[r] = "log" => execute(r)
  <2>1. Journaled(kind[r]) /\ pc[r] \in {"check", "log"} /\ Advance(r) => pc'[r] # "log"
    BY Advanced
  <2>2. checkJournal(r) => pc'[r] # "log"
    BY <2>1 DEF checkJournal, Goto, Course, TypeOK
  <2>3. logMigration(r) => pc'[r] # "log"
    BY <2>1 DEF logMigration, Goto, Course, TypeOK
  <2> QED
    BY <2>2, <2>3 DEF Acts, Step, begin, readJournal, kill, Goto, TypeOK
<1>3. execute(r) => kind'[r] = kind[r] /\ Current(r)' = Current(r)
  BY Executed DEF execute
<1> QED
  BY <1>1, <1>2, <1>3 DEF Logging

\* Alone, a run that is under way is the only one that may be logging.
LEMMA AloneAtLog ==
  ASSUME Course, OneAtATime, ~overlapped, NEW r \in Runs, Busy(r), NEW k, NEW m, Logging(k, m)
  PROVE  pc[r] = "log" /\ kind[r] = k /\ Current(r) = m
BY DEF Logging, OneAtATime, Busy, Course, Active

\* Alone, author replaces userId.
LEMMA RenamedOnceStep ==
  ASSUME TypeOK, Course, OneAtATime, JournalInOrder, RenamedOnce, [Next]_vars PROVE RenamedOnce'
<1> SUFFICES ASSUME ~overlapped', "author" \in objects'
             PROVE  "userId" \notin objects' /\ 4 \in journal' /\ ~Logging("undo", 4)'
  BY DEF RenamedOnce
<1>1. ~overlapped
  BY HistoryKept
<1>2. CASE createArticle \/ UNCHANGED vars
  BY <1>1, <1>2 DEF createArticle, vars, run, RenamedOnce, Logging, Current
<1>3. ASSUME NEW r \in Runs, begin(r) \/ readJournal(r) \/ checkJournal(r) \/ kill(r)
      PROVE  "userId" \notin objects' /\ 4 \in journal' /\ ~Logging("undo", 4)'
  <2>1. Acts(r) /\ ~execute(r) /\ objects' = objects /\ journal' = journal
    BY <1>3 DEF Acts, Step, begin, readJournal, checkJournal, kill, execute, Goto, TypeOK
  <2> QED
    BY <1>1, <2>1, WhoLogs DEF RenamedOnce
<1>4. ASSUME NEW r \in Runs, execute(r)
      PROVE  "userId" \notin objects' /\ 4 \in journal' /\ ~Logging("undo", 4)'
  <2>1. Acts(r) /\ pc[r] = "execute" /\ journal' = journal
    BY <1>4 DEF Acts, Step, execute
  <2>2. CASE kind[r] = "migrate" /\ Current(r) = 4 /\ pc'[r] = "log"
    <3>1. 4 \notin journal
      BY <1>1, <2>1, <2>2, Position DEF Working
    <3> QED
      BY <1>1, <1>4, <2>2, <3>1, WhoChanges DEF RenamedOnce, Unchanging
  <2>3. CASE kind[r] = "migrate" /\ Current(r) = 5 /\ pc'[r] = "log"
    <3>1. 4 \in journal
      BY <1>1, <2>1, <2>3, Position DEF Working
    <3>2. ~Logging("undo", 4)
      BY <1>1, <2>1, <2>3, AloneAtLog DEF Busy, Journaled, Active
    <3>3. "userId" \notin objects'
      BY <1>4, <2>3, WhoChanges
    <3> QED
      BY <2>1, <2>3, <3>1, <3>2, <3>3, WhoLogs
  <2>4. CASE kind[r] = "undo" /\ Current(r) = 4 /\ pc'[r] = "log"
    <3>1. "userId" \in objects /\ "author" \in objects
      BY <1>4, <2>4, WhoChanges DEF Unchanging
    <3> QED
      BY <1>1, <3>1 DEF RenamedOnce
  <2>5. CASE ~ \/ kind[r] = "migrate" /\ Current(r) \in {4, 5} /\ pc'[r] = "log"
               \/ kind[r] = "undo" /\ Current(r) = 4 /\ pc'[r] = "log"
    <3>1. Unchanging("userId") /\ Unchanging("author")
      BY <1>4, <2>5, WhoChanges
    <3> QED
      BY <1>1, <2>1, <2>5, <3>1, WhoLogs DEF RenamedOnce, Unchanging
  <2> QED
    BY <2>2, <2>3, <2>4, <2>5
<1>5. ASSUME NEW r \in Runs, logMigration(r)
      PROVE  "userId" \notin objects' /\ 4 \in journal' /\ ~Logging("undo", 4)'
  <2>1. Acts(r) /\ ~execute(r) /\ objects' = objects /\ pc[r] = "log" /\ Journaled(kind[r])
    BY <1>5 DEF Acts, Step, logMigration, execute, Course
  <2>2. ~(kind[r] = "undo" /\ Current(r) = 4)
    BY <1>1, <2>1 DEF RenamedOnce, Logging
  <2>3. 4 \in journal'
    BY <1>1, <1>5, <2>1, <2>2, NeverPassedOver DEF RenamedOnce, Journaled
  <2> QED
    BY <1>1, <2>1, <2>3, WhoLogs DEF RenamedOnce
<1> QED
  BY <1>2, <1>3, <1>4, <1>5, NextCases DEF Acts, Step

\* Alone and not torn, the database follows the journal.
LEMMA SynchronizedStep ==
  ASSUME TypeOK, Course, OneAtATime, JournalInOrder, RenamedOnce, Synchronized, [Next]_vars
  PROVE  Synchronized'
<1> DEFINE synced ==
      /\ (1 \in journal' /\ ~Logging("undo", 1)') \/ Logging("migrate", 1)' => "extension" \in objects'
      /\ "userId" \in objects' <=>
           \/ 4 \in journal' /\ 5 \notin journal' /\ ~Logging("undo", 4)' /\ ~Logging("migrate", 5)'
           \/ Logging("migrate", 4)'
      /\ "author" \in objects' => 5 \in journal' \/ Logging("migrate", 5)'
<1> SUFFICES ASSUME ~overlapped', ~torn' PROVE synced
  BY DEF Synchronized
<1>1. ~overlapped /\ ~torn
  BY HistoryKept
<1>2. CASE createArticle \/ UNCHANGED vars
  BY <1>1, <1>2 DEF createArticle, vars, run, Synchronized, Logging, Current
\* Steps that nobody makes from the end of its statements.
<1>3. ASSUME NEW r \in Runs, Acts(r), ~execute(r), pc[r] # "log" PROVE synced
  <2>1. objects' = objects /\ journal' = journal
    BY <1>3 DEF Acts, Step, begin, readJournal, checkJournal, logMigration, kill
  <2>2. ASSUME NEW k, NEW m PROVE Logging(k, m)' <=> Logging(k, m)
    BY <1>3, WhoLogs
  <2> QED
    BY <1>1, <2>1, <2>2 DEF Synchronized
<1>4. ASSUME NEW r \in Runs, kill(r), pc[r] = "log" PROVE synced
  <2>1. /\ Acts(r) /\ ~execute(r) /\ objects' = objects /\ journal' = journal
        /\ kind[r] # "undo" /\ Current(r) \notin {4, 5} /\ Busy(r)
    BY <1>4 DEF Acts, kill, execute, Course, Busy, Active
  <2>2. \A k, m : Logging(k, m)' => Logging(k, m)
    BY <2>1, WhoLogs
  <2>3. ~Logging("undo", 1) /\ ~Logging("undo", 4) /\ ~Logging("migrate", 4) /\ ~Logging("migrate", 5)
    BY <1>1, <2>1, AloneAtLog
  <2> QED
    BY <1>1, <2>1, <2>2, <2>3 DEF Synchronized
<1>5. ASSUME NEW r \in Runs, execute(r), ~Journaled(kind[r]) PROVE synced
  <2>1. Acts(r) /\ pc[r] = "execute" /\ journal' = journal
    BY <1>5 DEF Acts, Step, execute
  <2>2. pc'[r] # "log"
    BY <1>5, Executed
  <2>3. ASSUME NEW k, NEW m PROVE Logging(k, m)' <=> Logging(k, m)
    BY <2>1, <2>2, WhoLogs
  <2>4. Unchanging("extension") /\ Unchanging("userId") /\ Unchanging("author")
    BY <1>5, <2>2, WhoChanges
  <2> QED
    BY <1>1, <2>1, <2>3, <2>4 DEF Synchronized, Unchanging
<1>6. ASSUME NEW r \in Runs, execute(r), Journaled(kind[r]) PROVE synced
  <2>1. Acts(r) /\ pc[r] = "execute" /\ journal' = journal /\ Busy(r)
    BY <1>6 DEF Acts, Step, execute, Busy, Active
  <2>2. \A k, m : ~Logging(k, m)
    BY <1>1, <2>1, AloneAtLog
  <2>3. \A k, m : Logging(k, m)' <=> pc'[r] = "log" /\ kind[r] = k /\ Current(r) = m
    <3>1. \A k, m : Logging(k, m)' => pc'[r] = "log" /\ kind[r] = k /\ Current(r) = m
      BY <2>1, <2>2, WhoLogs
    <3>2. kind'[r] = kind[r] /\ Current(r)' = Current(r)
      BY <1>6, Executed DEF execute
    <3> QED
      BY <3>1, <3>2 DEF Logging
  <2>4. /\ kind[r] = "migrate" => Current(r) \notin journal /\ (Current(r) = 5 => 4 \in journal)
        /\ kind[r] = "undo" => Current(r) \in journal
    BY <1>1, <2>1, Position DEF Working
  <2> QED
    BY <1>1, <1>6, <2>1, <2>2, <2>3, <2>4, WhoChanges DEF Synchronized, Unchanging
<1>7. ASSUME NEW r \in Runs, logMigration(r) PROVE synced
  <2>1. Acts(r) /\ pc[r] = "log" /\ ~execute(r) /\ objects' = objects /\ Busy(r) /\ Journaled(kind[r])
    BY <1>7 DEF Acts, Step, execute, logMigration, Busy, Active, Course
  <2>2. \A k, m : Logging(k, m) <=> kind[r] = k /\ Current(r) = m
    BY <1>1, <2>1, AloneAtLog DEF Logging
  <2>3. \A k, m : ~Logging(k, m)'
    <3>1. pc'[r] # "log"
      BY <1>1, <1>7, <2>1, NeverPassedOver, Advanced DEF Journaled
    <3>2. ASSUME NEW q \in Runs, pc'[q] = "log" PROVE FALSE
      <4>1. q # r /\ pc[q] = "log"
        BY <2>1, <3>1, <3>2, OthersUndisturbed
      <4> QED
        BY <1>1, <2>1, <4>1 DEF OneAtATime, Busy, Course, Active
    <3> QED
      BY <3>2 DEF Logging
  <2>4. CASE kind[r] = "migrate"
    <3>1. PICK k \in 0 .. 4 : journal = 1 .. k /\ Current(r) = k + 1
      BY <1>1, <2>1, <2>4, Position DEF Working
    <3>2. journal' = (1 .. k) \cup {k + 1}
      BY <1>1, <1>7, <2>4, <3>1, NeverPassedOver
    <3> QED
      BY <1>1, <2>1, <2>2, <2>3, <2>4, <3>1, <3>2 DEF Synchronized
  <2>5. CASE kind[r] = "undo"
    <3>1. PICK k \in 1 .. 5 : journal = 1 .. k /\ Current(r) = k
      BY <1>1, <2>1, <2>5, Position DEF Working
    <3>2. journal' = (1 .. k) \ {k} /\ k # 5
      BY <1>1, <1>7, <2>1, <2>5, <3>1, NeverPassedOver DEF Course
    <3> QED
      BY <1>1, <2>1, <2>2, <2>3, <2>5, <3>1, <3>2 DEF Synchronized
  <2> QED
    BY <2>1, <2>4, <2>5 DEF Journaled
<1>8. ASSUME NEW r \in Runs, Acts(r) PROVE synced
  BY <1>3, <1>4, <1>5, <1>6, <1>7, <1>8 DEF Acts, Step, begin, readJournal, checkJournal
<1> QED
  BY <1>2, <1>8, NextCases

\* Where nothing overlapped, a migrate succeeds with the last migration, whose undo
\* fails, and so takes nothing out of the journal.
LEMMA SuccessIsWholeStep ==
  ASSUME TypeOK, Course, JournalInOrder, SuccessIsWhole, [Next]_vars PROVE SuccessIsWhole'
<1> SUFFICES ASSUME NEW q \in Runs, kind'[q] = "migrate", pc'[q] = "done", ~overlapped'
             PROVE  journal' = All
  BY DEF SuccessIsWhole
<1>1. ~overlapped
  BY HistoryKept
<1>2. CASE kind[q] = "migrate" /\ pc[q] = "done"
  <2>1. journal = All
    BY <1>1, <1>2 DEF SuccessIsWhole
  <2>2. ASSUME NEW r \in Runs, logMigration(r) PROVE journal' = All
    <3>1. pc[r] = "log" /\ Journaled(kind[r])
      BY <2>2 DEF logMigration, Course
    <3>2. CASE kind[r] = "migrate"
      BY <1>1, <2>1, <2>2, <3>1, <3>2, Position, NeverPassedOver, Numbers DEF Working
    <3>3. kind[r] # "undo"
      <4> SUFFICES ASSUME kind[r] = "undo" PROVE FALSE
        OBVIOUS
      <4>1. todo[r] = {Max(All)} /\ Current(r) # 5
        BY <1>1, <2>1, <3>1 DEF JournalInOrder, Working, Course
      <4>2. Max(All) = 5 /\ Min({5}) = 5
        BY Numbers, LowestAndHighest
      <4> QED
        BY <4>1, <4>2 DEF Current
    <3> QED
      BY <3>1, <3>2, <3>3 DEF Journaled
  <2> QED
    BY <2>1, <2>2, NextCases
    DEF Acts, Step, createArticle, begin, readJournal, checkJournal, execute, kill, vars
<1>3. CASE ~(kind[q] = "migrate" /\ pc[q] = "done")
  <2>1. Acts(q)
    BY <1>3, NextCases, OthersUndisturbed DEF createArticle, vars, run
  <2>2. CASE readJournal(q)
    <3>1. kind[q] = "migrate" /\ journal' = journal /\ All \ journal = {}
      BY <2>2 DEF readJournal, Goto, TypeOK
    <3> QED
      BY <3>1 DEF TypeOK
  <2>3. CASE logMigration(q)
    <3>1. Working(q, "migrate")
      BY <2>3 DEF logMigration, Working
    <3>2. /\ journal' = journal \cup {Current(q)} /\ todo[q] = {Current(q)}
      BY <1>1, <2>3, <3>1, NeverPassedOver, Advanced DEF Working, Journaled
    <3>3. todo[q] = All \ journal /\ journal \subseteq All
      BY <1>1, <3>1 DEF JournalInOrder, TypeOK
    <3> QED
      BY <3>2, <3>3
  <2>4. ~begin(q) /\ ~kill(q) /\ ~checkJournal(q)
    BY <1>1, NeverPassedOver DEF begin, kill, Goto, TypeOK
  <2>5. ~execute(q)
    BY Executed DEF execute, Journaled
  <2> QED
    BY <2>1, <2>2, <2>3, <2>4, <2>5 DEF Acts, Step
<1> QED
  BY <1>2, <1>3

\* Alone on a database that is not torn, every statement of a migrate is accepted.
LEMMA MigrateAccepted ==
  ASSUME TypeOK, Course, MadeStays, OneAtATime, JournalInOrder, RenamedOnce, Synchronized,
         ~overlapped, ~torn, NEW r \in Runs, kind[r] = "migrate", pc[r] = "execute"
  PROVE  Accepted(Statements(r)[at[r]])
<1>1. /\ Working(r, "migrate") /\ Busy(r) /\ Statements(r) = up[Current(r)]
  BY AtAMigration DEF Working, Busy, Journaled, Active
<1>2. PICK k \in 0 .. 4 : journal = 1 .. k /\ Current(r) = k + 1
  BY <1>1, Position
<1>3. \A j, m : ~Logging(j, m)
  BY <1>1, AloneAtLog
<1>4. PICK n \in 1 .. 8 : n = Len(Statements(r)) /\ at[r] \in 1 .. n
  BY ExecutesCarefully DEF Careful
<1>5. \A i \in 1 .. (at[r] - 1) : Statements(r)[i].adds \cap Lasting \subseteq objects
  BY <1>1 DEF MadeStays, Adds
<1>6. \A m \in 1 .. k : \A i \in 1 .. Len(up[m]) : up[m][i].adds \cap Lasting \subseteq objects
  BY <1>2 DEF MadeStays, Adds
<1>7. k >= 2 => {"schema", "User", "Article"} \subseteq objects
  <2> SUFFICES ASSUME k >= 2 PROVE {"schema", "User", "Article"} \subseteq objects
    OBVIOUS
  <2>1. \A i \in 1 .. 8 : up[2][i].adds \cap Lasting \subseteq objects
    BY <1>2, <1>6, Lengths
  <2> QED
    BY <2>1, UpStatements DEF Statement, createTable, Lasting, Tables
<1> USE DEF Accepted, Statement
<1>8. CASE k = 0
  <2>1. Statements(r) = up[1]
    BY <1>1, <1>2, <1>8
  <2>2. n = 1
    BY <1>4, <2>1, Lengths
  <2> QED
    BY <1>4, <2>1, <2>2, UpStatements
<1>9. CASE k = 1
  <2>1. "extension" \in objects
    BY <1>2, <1>3, <1>9 DEF Synchronized
  <2>2. Statements(r) = up[2] /\ at[r] \in 1 .. 8
    <3>1. Statements(r) = up[2]
      BY <1>1, <1>2, <1>9
    <3>2. n = 8
      BY <1>4, <3>1, Lengths
    <3> QED
      BY <1>4, <3>1, <3>2
  <2>3. \A i \in 1 .. 8 : i < at[r] => up[2][i].adds \cap Lasting \subseteq objects
    BY <1>5, <1>9, <2>2
  <2> USE DEF createTable, Lasting, Tables
  <2>4. at[r] > 2 => "schema" \in objects
    BY <2>2, <2>3, UpStatements
  <2>5. at[r] > 3 => "User" \in objects
    BY <2>2, <2>3, UpStatements
  <2>6. at[r] > 4 => "Article" \in objects
    BY <2>2, <2>3, UpStatements
  <2>7. at[r] > 5 => "Comment" \in objects
    BY <2>2, <2>3, UpStatements
  <2>8. CASE at[r] = 1
    BY <2>1, <2>2, <2>8, UpStatements
  <2>9. CASE at[r] = 2
    BY <2>2, <2>9, UpStatements
  <2>10. CASE at[r] = 3
    BY <2>2, <2>4, <2>10, UpStatements
  <2>11. CASE at[r] = 4
    BY <2>2, <2>4, <2>11, UpStatements
  <2>12. CASE at[r] = 5
    BY <2>2, <2>4, <2>5, <2>6, <2>12, UpStatements
  <2>13. CASE at[r] = 6
    BY <2>2, <2>4, <2>5, <2>13, UpStatements
  <2>14. CASE at[r] = 7
    BY <2>2, <2>4, <2>6, <2>14, UpStatements
  <2>15. CASE at[r] = 8
    BY <2>2, <2>4, <2>5, <2>7, <2>15, UpStatements
  <2> QED
    BY <2>2, <2>8, <2>9, <2>10, <2>11, <2>12, <2>13, <2>14, <2>15
<1>10. CASE k = 2
  <2>1. Statements(r) = up[3]
    BY <1>1, <1>2, <1>10
  <2>2. n = 3
    BY <1>4, <2>1, Lengths
  <2>3. at[r] = 1 \/ at[r] = 2 \/ at[r] = 3
    BY <1>4, <2>2
  <2> QED
    BY <1>7, <1>10, <2>1, <2>3, UpStatements DEF createTable, dropPublicTable
<1>11. CASE k = 3
  <2>1. at[r] = 1 /\ Statements(r) = up[4]
    <3>1. Statements(r) = up[4]
      BY <1>1, <1>2, <1>11
    <3>2. n = 1
      BY <1>4, <3>1, Lengths
    <3>3. at[r] = 1
      BY <1>4, <3>2
    <3> QED
      BY <3>1, <3>3
  <2>2. "userId" \notin objects /\ "author" \notin objects
    BY <1>2, <1>3, <1>11 DEF Synchronized, RenamedOnce
  <2>3. ~articles
    BY <2>2 DEF MadeStays
  <2> QED
    BY <1>7, <1>11, <2>1, <2>2, <2>3, UpStatements
<1>12. CASE k = 4
  <2>1. at[r] = 1 /\ Statements(r) = up[5]
    <3>1. Statements(r) = up[5]
      BY <1>1, <1>2, <1>12
    <3>2. n = 1
      BY <1>4, <3>1, Lengths
    <3>3. at[r] = 1
      BY <1>4, <3>2
    <3> QED
      BY <3>1, <3>3
  <2>2. "userId" \in objects /\ "author" \notin objects
    BY <1>2, <1>3, <1>12 DEF Synchronized
  <2> QED
    BY <2>1, <2>2, UpStatements
<1> QED
  BY <1>8, <1>9, <1>10, <1>11, <1>12

\* What fails a migrate is an overlap, or a database that is torn.
LEMMA FailuresExplainedStep ==
  ASSUME TypeOK, Course, MadeStays, OneAtATime, JournalInOrder, RenamedOnce, Synchronized,
         FailuresExplained, [Next]_vars
  PROVE  FailuresExplained'
<1> SUFFICES ASSUME NEW q \in Runs, kind'[q] = "migrate", pc'[q] = "failed", ~torn', ~overlapped'
             PROVE  FALSE
  BY DEF FailuresExplained
<1>1. ~overlapped /\ ~torn
  BY HistoryKept
<1>2. ~(kind[q] = "migrate" /\ pc[q] = "failed")
  BY <1>1 DEF FailuresExplained
<1>3. Acts(q)
  BY <1>2, NextCases, OthersUndisturbed DEF createArticle, vars, run
<1>4. CASE execute(q)
  <2>1. kind[q] = "migrate" /\ pc[q] = "execute"
    BY <1>4 DEF execute
  <2> QED
    BY <1>1, <1>4, <2>1, MigrateAccepted, Executed
<1>5. CASE logMigration(q)
  <2>1. kind[q] = "migrate" /\ pc[q] = "log"
    BY <1>5 DEF logMigration
  <2> QED
    BY <1>1, <1>5, <2>1, NeverPassedOver, Advanced DEF Journaled
<1>6. ~begin(q) /\ ~kill(q) /\ ~readJournal(q) /\ ~checkJournal(q)
  BY <1>1, NeverPassedOver DEF begin, kill, readJournal, Goto, TypeOK
<1> QED
  BY <1>3, <1>4, <1>5, <1>6 DEF Acts, Step

(***************************************************************************)
(* The inductive invariant, and what follows from it.                      *)
(***************************************************************************)
\* A database without migrations is in the invariant.
LEMMA IInvInit == Init => IInv
<1> SUFFICES ASSUME Init PROVE IInv
  OBVIOUS
<1> USE DEF Init
<1>1. TypeOK
  <2>1. objects \subseteq Objects /\ journal \subseteq All
    OBVIOUS
  <2>2. kind \in [Runs -> Kinds \cup {"none"}] /\ pc \in [Runs -> Active \cup Ended \cup {"idle"}]
    OBVIOUS
  <2>3. todo \in [Runs -> SUBSET All] /\ at \in [Runs -> 1 .. 9]
    OBVIOUS
  <2> QED
    BY <2>1, <2>2, <2>3 DEF TypeOK
<1>2. Course /\ MadeStays /\ OneAtATime /\ SuccessIsWhole /\ FailuresExplained
  BY DEF Course, MadeStays, OneAtATime, SuccessIsWhole, FailuresExplained, Working, Busy, Journaled
<1>3. 1 .. 0 = {}
  OBVIOUS
<1>4. JournalInOrder /\ RenamedOnce
  BY <1>3 DEF JournalInOrder, RenamedOnce, Working
<1>5. Synchronized
  BY DEF Synchronized, Logging
<1> QED
  BY <1>1, <1>2, <1>4, <1>5 DEF IInv

\* The conjuncts of IInv support one another, and each step keeps them.
LEMMA IInvStep == IInv /\ [Next]_vars => IInv'
BY TypeStep, CourseStep, MadeStaysStep, OneAtATimeStep, JournalInOrderStep, RenamedOnceStep,
   SynchronizedStep, SuccessIsWholeStep, FailuresExplainedStep
DEF IInv

\* IInv holds in every reachable state.
THEOREM Invariance == Spec => []IInv
BY IInvInit, IInvStep, PTL DEF Spec

\* Every variable keeps its type.
THEOREM TypeCorrect == Spec => []TypeOK
<1>1. IInv => TypeOK
  BY DEF IInv
<1> QED
  BY <1>1, Invariance, PTL

\* A migrate fails only on a database that is torn, or because runs overlapped:
\* however many runs were killed elsewhere, undone or seeded before it.
THEOREM FailuresHaveCauses == Spec => []FailuresExplained
<1>1. IInv => FailuresExplained
  BY DEF IInv
<1> QED
  BY <1>1, Invariance, PTL

\* The table Article has both columns only after runs overlapped.
THEOREM BothColumnsOverlapped == Spec => []BothColumnsNeedOverlap
<1>1. IInv => BothColumnsNeedOverlap
  BY DEF IInv, RenamedOnce, BothColumnsNeedOverlap
<1> QED
  BY <1>1, Invariance, PTL

\* A migrate that succeeds leaves a schema the services can use, also when it
\* takes up what killed runs have left or undos have taken back, and no run that
\* comes after it, alone, takes that away again.
THEOREM SuccessServes == Spec => []InstalledServes
<1>1. IInv => InstalledServes
  <2> SUFFICES ASSUME IInv, journal = All, ~overlapped PROVE Servable
    BY DEF IInv, SuccessIsWhole, InstalledServes
  <2>1. \A m \in 1 .. 5 : \A i \in 1 .. Len(up[m]) : up[m][i].adds \cap Lasting \subseteq objects
    BY Numbers DEF IInv, MadeStays, Adds
  <2>2. \A i \in 1 .. 8 : up[2][i].adds \cap Lasting \subseteq objects
    BY <2>1, Lengths
  <2>3. \A i \in 1 .. 3 : up[3][i].adds \cap Lasting \subseteq objects
    BY <2>1, Lengths
  <2>4. up[5][1].adds \cap Lasting \subseteq objects
    BY <2>1, Lengths
  <2> USE DEF Statement, createTable, Lasting, Tables
  <2>5. "Tenant" \in objects /\ "schema" \in objects /\ "User" \in objects /\ "Article" \in objects
    BY <2>2, UpStatements
  <2>6. "Comment" \in objects /\ "Credentials" \in objects /\ "Rating" \in objects
    BY <2>2, UpStatements
  <2>7. "UserImage" \in objects /\ "ArticleImage" \in objects
    BY <2>3, UpStatements
  <2>8. "author" \in objects
    BY <2>4, UpStatements
  <2>9. "userId" \notin objects
    BY <2>8 DEF IInv, RenamedOnce
  <2> QED
    BY <2>5, <2>6, <2>7, <2>8, <2>9 DEF Servable
<1> QED
  BY <1>1, Invariance, PTL
=============================================================================
