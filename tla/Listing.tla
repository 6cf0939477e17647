------------------------------- MODULE Listing ------------------------------
(***************************************************************************)
(* Projects and tasks: rows of an owner that are created, replaced and     *)
(* deleted by single statements, and listed page by page (modules/project, *)
(* modules/task, pagination).  A behaviour has one of the two tables: they *)
(* do not meet.  Pages are ordered by created_at and id, newest first, and *)
(* a reader walks them by offset while others write.                       *)
(*                                                                         *)
(* Identifiers are random, so the order of ids says nothing about age; and *)
(* created_at is when the statement began, so a row may appear behind rows *)
(* that were already visible.  Titles, descriptions and updated_at are     *)
(* left out: no statement depends on them.  A refused call (ErrInvalid,    *)
(* ErrNotFound, ErrConflict, a failing database) changes nothing.          *)
(***************************************************************************)
EXTENDS Naturals, FiniteSets

CONSTANTS
    Owners,
    Ids,         \* identifiers, in the order the database sorts them
    Names,       \* names of projects
    Status,      \* what the status of a task may be
    MaxLimit,    \* pagination.MaxLimit
    MaxOffset,   \* pagination.MaxOffset
    MaxTime,     \* bound on the clock
    MaxRemoved   \* bound on the rows that leave a list while it is walked

ASSUME ListingConstants ==
    /\ Ids \subseteq Nat /\ IsFiniteSet(Ids)
    /\ MaxLimit \in Nat \ {0} /\ MaxOffset \in Nat /\ MaxTime \in Nat /\ MaxRemoved \in Nat

VARIABLES
    table,  \* "projects" or "tasks"
    now,    \* clock of the database
    rows,   \* the table, by id
    walk    \* the reader: whose list, which filter and page it asks for next;
            \* history: the rows that it has seen, the rows that were in the list
            \* at the first page and ever since, and how many left it

vars == <<table, now, rows, walk>>

----------------------------------------------------------------------------
NoRow == [owner |-> "none", created |-> 0, name |-> "none", status |-> "none"]

IdleWalk == [at |-> "idle", owner |-> "none", filter |-> "", limit |-> 0, offset |-> 0,
             seen |-> {}, kept |-> {}, removed |-> 0]

Init ==
  /\ table \in {"projects", "tasks"}
  /\ now = 0
  /\ rows = [i \in Ids |-> NoRow]
  /\ walk = IdleWalk

\* What WHERE id = $1 AND owner_id = $2 finds
Owns(o, i) == rows[i] # NoRow /\ rows[i].owner = o

\* The unique constraint projects_owner_name_key
NameFree(o, i, n) == \A j \in Ids \ {i} : Owns(o, j) => rows[j].name # n

\* The rows that INSERT writes
ProjectRow(o, n, began) == [owner |-> o, created |-> began, name |-> n, status |-> "none"]
TaskRow(o, s, began) == [owner |-> o, created |-> began, name |-> "none", status |-> s]

\* WHERE of ListProjects and ListTasks; the empty filter matches every status.
Listed(o, filter, contents) ==
  {i \in Ids : contents[i] # NoRow /\ contents[i].owner = o /\ filter \in {"", contents[i].status}}

\* ORDER BY created_at DESC, id DESC
Before(i, j) ==
  \/ rows[i].created > rows[j].created
  \/ rows[i].created = rows[j].created /\ i > j

\* OFFSET and LIMIT
Fetch(o, filter, limit, offset) ==
  LET list == Listed(o, filter, rows)
      Place(i) == Cardinality({j \in list : Before(j, i)})
  IN {i \in list : offset <= Place(i) /\ Place(i) < offset + limit}

Valid(limit, offset) == limit \in 1..MaxLimit /\ offset \in 0..MaxOffset

\* The history of the walk after the table becomes new.
Observe(new) ==
  IF walk.at # "reading" THEN UNCHANGED walk
  ELSE LET gone == Listed(walk.owner, walk.filter, rows) \ Listed(walk.owner, walk.filter, new)
       IN /\ walk.removed + Cardinality(gone) <= MaxRemoved
          /\ walk' = [walk EXCEPT !.kept = walk.kept \ gone,
                                  !.removed = walk.removed + Cardinality(gone)]

----------------------------------------------------------------------------
\* A writer replaces the row i.
Write(i, row) ==
  /\ rows' = [rows EXCEPT ![i] = row]
  /\ Observe(rows')
  /\ UNCHANGED <<table, now>>

CreateProject(o, i) ==
  /\ table = "projects" /\ rows[i] = NoRow
  /\ \E n \in Names, began \in 0..now : NameFree(o, i, n) /\ Write(i, ProjectRow(o, n, began))

UpdateProject(o, i) ==
  /\ table = "projects" /\ Owns(o, i)
  /\ \E n \in Names : NameFree(o, i, n) /\ Write(i, [rows[i] EXCEPT !.name = n])

DeleteProject(o, i) == table = "projects" /\ Owns(o, i) /\ Write(i, NoRow)

CreateTask(o, i) ==
  /\ table = "tasks" /\ rows[i] = NoRow
  /\ \E s \in Status, began \in 0..now : Write(i, TaskRow(o, s, began))

UpdateTask(o, i) ==
  /\ table = "tasks" /\ Owns(o, i)
  /\ \E s \in Status : Write(i, [rows[i] EXCEPT !.status = s])

DeleteTask(o, i) == table = "tasks" /\ Owns(o, i) /\ Write(i, NoRow)

\* A reader sets out to walk a list with pages of some size.
StartWalk(o) ==
  /\ walk.at = "idle"
  /\ \E filter \in {""} \union (IF table = "tasks" THEN Status ELSE {}), limit \in 0..(MaxLimit + 1) :
       walk' = [IdleWalk EXCEPT !.at = "reading", !.owner = o, !.filter = filter, !.limit = limit,
                                !.kept = Listed(o, filter, rows)]
  /\ UNCHANGED <<table, now, rows>>

\* Faulty variant: as many rows are fetched as shown, so that there never seem
\* to be more.
FetchLimitExact(limit) == limit

\* One row more is fetched than shown, to know whether there are more.
FetchLimit(limit) == limit + 1

\* Build: the reader goes on at the next offset as long as there is more.
List ==
  LET fetched == Fetch(walk.owner, walk.filter, FetchLimit(walk.limit), walk.offset)
      items == Fetch(walk.owner, walk.filter, walk.limit, walk.offset)
  IN /\ walk.at = "reading" /\ Valid(walk.limit, walk.offset)
     /\ walk' = [walk EXCEPT
          !.at = IF Cardinality(fetched) > walk.limit THEN "reading" ELSE "done",
          !.seen = walk.seen \union items,
          !.offset = walk.offset + walk.limit]
     /\ UNCHANGED <<table, now, rows>>

\* List refuses the page with ErrInvalid, or the reader starts over.
EndWalk ==
  /\ \/ walk.at = "reading" /\ ~Valid(walk.limit, walk.offset)
     \/ walk.at = "done"
  /\ walk' = IdleWalk
  /\ UNCHANGED <<table, now, rows>>

Tick ==
  /\ now < MaxTime
  /\ now' = now + 1
  /\ UNCHANGED <<table, rows, walk>>

Next ==
  \/ \E o \in Owners :
       \/ StartWalk(o)
       \/ \E i \in Ids : \/ CreateProject(o, i) \/ UpdateProject(o, i) \/ DeleteProject(o, i)
                         \/ CreateTask(o, i) \/ UpdateTask(o, i) \/ DeleteTask(o, i)
  \/ List \/ EndWalk \/ Tick

Spec == Init /\ [][Next]_vars

----------------------------------------------------------------------------
\* Properties

\* A walk to the last page misses at most as many of the rows that were there all
\* along as rows left the list meanwhile, deleted or moved to another status.
\* Rows that are added, wherever they sort, cost nothing (List, Build).
MissedBounded ==
  walk.at = "done" => Cardinality(walk.kept \ walk.seen) <= walk.removed
=============================================================================
