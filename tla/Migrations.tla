------------------------------ MODULE Migrations ------------------------------
(***************************************************************************)
(* The five migrations and the seeder under libs/common/src/database, run  *)
(* by sequelize-cli against a database that services may already use.      *)
(*                                                                         *)
(* A run reads the journal (the table SequelizeMeta), looks at it again    *)
(* before each pending migration, executes the statements of the migration *)
(* one by one without a transaction, and then enters it in the journal.    *)
(* So a run that is killed, or another run at the same time, may leave the *)
(* database between two statements, or ahead of its journal.               *)
(***************************************************************************)
EXTENDS Naturals, Sequences, FiniteSetsExt

CONSTANTS
  Runs,      \* invocations of the command line
  Kinds,     \* what they may be, from {"migrate", "undo", "seed", "unseed"}
  Happens    \* from {"kill", "article"}

ASSUME KindAssumption ==
  /\ Kinds \subseteq {"migrate", "undo", "seed", "unseed"}
  /\ Happens \subseteq {"kill", "article"}

(***************************************************************************)
(* What the statements make: the extension, the schema of the default      *)
(* tenant, tables (Tenant in public, all others in the schema), two        *)
(* columns of Article, and the row of the default tenant.                  *)
(***************************************************************************)
Tables == {"Tenant", "User", "Article", "Comment", "Credentials", "Image", "Rating",
           "UserImage", "ArticleImage"}
Objects == Tables \cup {"extension", "schema", "userId", "author", "default"}

\* A statement fails unless all it needs is there, nothing it forbids is there,
\* and the table Article is empty if it has to be.
Statement(needs, forbids, adds, drops) ==
  [needs |-> needs, forbids |-> forbids, adds |-> adds, drops |-> drops, onlyEmpty |-> FALSE]

\* Mutant: CREATE TABLE without IF NOT EXISTS.
createTableOnce(t, references) ==
  Statement({"schema"} \cup references, {t}, {t}, {})

\* CREATE TABLE IF NOT EXISTS
createTable(t, references) ==
  Statement({"schema"} \cup references, {}, {t}, {})

\* DROP TABLE IF EXISTS without a schema looks for the table in public, where it
\* never was.
dropPublicTable(t) == Statement({}, {}, {}, {})

\* The variable schema does not exist in a down: a ReferenceError.
undefinedSchema == Statement({"schema"}, {"schema"}, {}, {})

createUuidExtension == << Statement({}, {}, {"extension"}, {}) >>
dropUuidExtension == << Statement({"extension"}, {"Tenant"}, {}, {"extension"}) >>

createDefaultTenant ==
  << Statement({"extension"}, {}, {"Tenant"}, {}),
     Statement({}, {}, {"schema"}, {}),
     createTable("User", {}),
     createTable("Article", {}),
     createTable("Comment", {"Article", "User"}),
     createTable("Credentials", {"User"}),
     createTable("Image", {"Article"}),
     createTable("Rating", {"User", "Comment"}) >>
dropDefaultTenant == << undefinedSchema >>

\* Mutant: the new tables are made where Image is dropped.
refactorImageModelsInPublic == << dropPublicTable("Image") >>

\* Mutant: the name of the table in the down, Images.
refactorImageModelsNamed ==
  << dropPublicTable("Image"),
     createTable("UserImage", {"User"}),
     createTable("ArticleImages", {"Article"}) >>

refactorImageModels ==
  << dropPublicTable("Image"),
     createTable("UserImage", {"User"}),
     createTable("ArticleImage", {"Article"}) >>

restoreImageModels == << dropPublicTable("ArticleImage"), dropPublicTable("UserImage"), undefinedSchema >>

\* ADD COLUMN ... NOT NULL has no value for rows that exist.
userHasArticles ==
  << [Statement({"Article", "User"}, {"userId"}, {"userId"}, {}) EXCEPT !.onlyEmpty = TRUE] >>
userHasNoArticles == << Statement({"userId"}, {}, {}, {"userId"}) >>

\* Mutant: the column author is added, and userId left.
addAuthor == << Statement({"Article"}, {"author"}, {"author"}, {}) >>

changeColumnName == << Statement({"userId"}, {"author"}, {"author"}, {"userId"}) >>
\* The name of the schema has a letter too many.
restoreColumnName == << undefinedSchema >>

up == << createUuidExtension, createDefaultTenant, refactorImageModels, userHasArticles,
         changeColumnName >>
down == << dropUuidExtension, dropDefaultTenant, restoreImageModels, userHasNoArticles,
           restoreColumnName >>
All == DOMAIN up

insertDefault == << Statement({"Tenant"}, {"default"}, {"default"}, {}) >>
deleteTenants == << Statement({"Tenant"}, {}, {}, {"default"}) >>

VARIABLES
  objects,     \* what is there
  articles,    \* whether the table Article has rows
  journal,     \* the migrations entered in SequelizeMeta
  kind, pc,    \* what a run does, and where it is
  todo,        \* the migrations it has yet to run, the lowest next
  at,          \* the statement it executes next
  torn,        \* history: a run was killed between an ALTER or DROP and its entry
  overlapped   \* history: two runs that migrate or undo were under way at once

run == <<kind, pc, todo, at>>
vars == <<objects, articles, journal, run, torn, overlapped>>

Active == {"readJournal", "check", "execute", "log"}
Ended == {"done", "failed", "killed"}

Init ==
  /\ objects = {} /\ articles = FALSE /\ journal = {}
  /\ kind = [r \in Runs |-> "none"]
  /\ pc = [r \in Runs |-> "idle"]
  /\ todo = [r \in Runs |-> {}]
  /\ at = [r \in Runs |-> 1]
  /\ torn = FALSE /\ overlapped = FALSE

Journaled(k) == k \in {"migrate", "undo"}
Current(r) == Min(todo[r])
Statements(r) ==
  CASE kind[r] = "migrate" -> up[Current(r)]
    [] kind[r] = "undo"    -> down[Current(r)]
    [] kind[r] = "seed"    -> insertDefault
    [] kind[r] = "unseed"  -> deleteTenants

Goto(r, step) == pc' = [pc EXCEPT ![r] = step]

begin(r) ==
  /\ pc[r] = "idle"
  /\ \E k \in Kinds :
       /\ kind' = [kind EXCEPT ![r] = k]
       /\ Goto(r, IF Journaled(k) THEN "readJournal" ELSE "execute")
       /\ overlapped' = (overlapped \/ (Journaled(k) /\ \E q \in Runs :
                                          Journaled(kind[q]) /\ pc[q] \in Active))
  /\ UNCHANGED <<objects, articles, journal, todo, at, torn>>

\* All pending migrations, or the last one that was executed.
readJournal(r) ==
  /\ pc[r] = "readJournal"
  /\ LET found == IF kind[r] = "migrate" THEN All \ journal
                  ELSE IF journal = {} THEN {} ELSE {Max(journal)} IN
       /\ todo' = [todo EXCEPT ![r] = found]
       /\ Goto(r, IF found = {} THEN "done" ELSE "check")
  /\ UNCHANGED <<objects, articles, journal, kind, at, torn, overlapped>>

\* Mutant: only the first migration is run.
AdvanceOnce(r) ==
  /\ todo' = [todo EXCEPT ![r] = @ \ {Current(r)}]
  /\ at' = [at EXCEPT ![r] = 1]
  /\ Goto(r, "done")

Advance(r) ==
  /\ todo' = [todo EXCEPT ![r] = @ \ {Current(r)}]
  /\ at' = [at EXCEPT ![r] = 1]
  /\ Goto(r, IF todo[r] = {Current(r)} THEN "done" ELSE "check")

\* A migration that another run has entered, or taken back, is passed over.
checkJournal(r) ==
  /\ pc[r] = "check"
  /\ IF (Current(r) \in journal) = (kind[r] = "migrate")
     THEN Advance(r)
     ELSE Goto(r, "execute") /\ UNCHANGED <<todo, at>>
  /\ UNCHANGED <<objects, articles, journal, kind, torn, overlapped>>

execute(r) ==
  /\ pc[r] = "execute"
  /\ LET s == Statements(r)[at[r]] IN
       IF /\ s.needs \subseteq objects /\ s.forbids \cap objects = {}
          /\ s.onlyEmpty => ~articles
       THEN /\ objects' = (objects \ s.drops) \cup s.adds
            /\ at' = [at EXCEPT ![r] = @ + 1]
            /\ Goto(r, IF at[r] < Len(Statements(r)) THEN "execute"
                       ELSE IF Journaled(kind[r]) THEN "log" ELSE "done")
       ELSE Goto(r, "failed") /\ UNCHANGED <<objects, at>>
  /\ UNCHANGED <<articles, journal, kind, todo, torn, overlapped>>

\* The name is the primary key of SequelizeMeta; an entry may be deleted twice.
logMigration(r) ==
  /\ pc[r] = "log"
  /\ LET m == Current(r) IN
       CASE kind[r] = "undo" ->
              /\ journal' = journal \ {m}
              /\ Advance(r)
         [] kind[r] = "migrate" /\ m \notin journal ->
              /\ journal' = journal \cup {m}
              /\ Advance(r)
         [] OTHER -> Goto(r, "failed") /\ UNCHANGED <<journal, todo, at>>
  /\ UNCHANGED <<objects, articles, kind, torn, overlapped>>

(***************************************************************************)
(* What happens meanwhile.                                                 *)
(***************************************************************************)
\* A statement that was sent is executed or not, and then nothing follows it.
kill(r) ==
  /\ "kill" \in Happens
  /\ pc[r] \in Active
  /\ torn' = (torn \/ (pc[r] = "log" /\ (kind[r] = "undo" \/ Current(r) \in {4, 5})))
  /\ Goto(r, "killed")
  /\ UNCHANGED <<objects, articles, journal, kind, todo, at, overlapped>>

\* The blog service saves an article: its model has author, and no userId.
createArticle ==
  /\ "article" \in Happens
  /\ ~articles
  /\ {"Article", "author"} \subseteq objects /\ "userId" \notin objects
  /\ articles' = TRUE
  /\ UNCHANGED <<objects, journal, run, torn, overlapped>>

Step(r) == readJournal(r) \/ checkJournal(r) \/ execute(r) \/ logMigration(r)

Next == createArticle \/ \E r \in Runs : begin(r) \/ Step(r) \/ kill(r)

Fairness == \A r \in Runs : WF_vars(Step(r))
Spec == Init /\ [][Next]_vars
FairSpec == Spec /\ Fairness

(***************************************************************************)
(* Properties.                                                             *)
(***************************************************************************)
\* Every variable holds a value of its kind.
TypeOK ==
  /\ objects \subseteq Objects /\ journal \subseteq All
  /\ kind \in [Runs -> Kinds \cup {"none"}]
  /\ pc \in [Runs -> Active \cup Ended \cup {"idle"}]
  /\ todo \in [Runs -> SUBSET All] /\ at \in [Runs -> 1 .. 9]
  /\ articles \in BOOLEAN /\ torn \in BOOLEAN /\ overlapped \in BOOLEAN

\* What the calls of the services need.  None of them touches Image, nor the table
\* of blacklisted-token.model.ts, which no migration makes: its two handlers
\* (users.controller.ts 61-69, 122-130) are sent nothing.
Servable ==
  /\ {"schema", "author"} \cup (Tables \ {"Image"}) \subseteq objects
  /\ "userId" \notin objects

\* The installation of README.md 47-56: from the first migrate that is answered with
\* success on, the schema of the default tenant is one the services can use, whatever
\* runs were killed half-way, undone or seeded before it or come after it, unless
\* runs overlapped.
InstalledServes ==
  (\E r \in Runs : kind[r] = "migrate" /\ pc[r] = "done") /\ ~overlapped =>
    journal = All /\ Servable

\* A migrate fails only when an earlier run was killed between an ALTER or DROP
\* and its journal entry, or runs overlapped: where a run was cut off elsewhere,
\* IF NOT EXISTS lets the next one pass over what is there.  The column that may
\* not be null (user-has-articles.js 8-16) is never added to a table with rows.
FailuresExplained ==
  \A r \in Runs : kind[r] = "migrate" /\ pc[r] = "failed" => torn \/ overlapped

\* Article has both userId and author, so that every INSERT of an article fails,
\* only if a run added userId after an overlapping one had renamed it.
BothColumnsNeedOverlap == {"userId", "author"} \subseteq objects => overlapped

\* What an earlier run left is repaired by the next: a migrate that begins while
\* the database is not torn and runs alone completes, unless it is killed too.
RerunRepairs ==
  \A r \in Runs :
    (kind[r] = "migrate" /\ pc[r] = "readJournal" /\ ~torn /\ ~overlapped)
      ~> (journal = All \/ pc[r] = "killed" \/ overlapped)
=============================================================================
