------------------------------- MODULE Tables -------------------------------
(***************************************************************************)
(* The two tables of the server's database, "projects" and "tasks", and    *)
(* the statements the two stores (project/project_store.go and             *)
(* task/task_store.go) run on them, each as a function from a table or a   *)
(* row to the table or row the statement leaves behind.                    *)
(*                                                                         *)
(* A table is a total function on the ids the SERIAL column can hand out;  *)
(* an id without a row is mapped to NoRow.  The text[] column "users" is   *)
(* kept as the number of times each user-ID occurs in the array: nothing   *)
(* in the server depends on the order of the array, but it does depend on  *)
(* duplicates (ARRAY_LENGTH).                                              *)
(***************************************************************************)
EXTENDS Integers, Sequences

CONSTANTS
    User,          \* OSM user-IDs
    NoUser,        \* the empty string in column assigned_user
    NoRow,         \* there is no row with this id
    MaxProject,    \* bound: project ids are 1 .. MaxProject
    MaxTask        \* bound: task ids are 1 .. MaxTask

ProjectId == 1 .. MaxProject
TaskId == 1 .. MaxTask

\* What the code tells apart of a name or a description: nothing at all, only
\* white space, one line, several lines, an empty first line followed by
\* others, more than MaxDescriptionLength characters.
Text == {"empty", "blank", "line", "lines", "newline_first", "long"}

\* strings.Split(text, "\n")[0]
FirstLine(text) ==
    CASE text = "lines" -> "line"
      [] text = "newline_first" -> "empty"
      [] OTHER -> text

\* len(strings.TrimSpace(text)) == 0
IsBlank(text) == text \in {"empty", "blank"}

\* len(text) > config.Conf.MaxDescriptionLength
TooLong(text) == text = "long"

Users == [User -> Nat]

ProjectRow == [owner : User, users : Users, name : Text, description : Text]

TaskRow == [project : ProjectId, assigned : User \cup {NoUser},
            points : Int, max : Nat \ {0}]

\* A task of a draft or of an export; "polygon" says whether its geometry is a
\* GeoJson feature with a polygon or a multi-polygon.
TaskDraft == [points : Int, max : Int, polygon : BOOLEAN]

\* The owner of a draft may be the empty string.
ProjectDraft == [owner : User \cup {NoUser}, users : Users, name : Text, description : Text,
                 tasks : Seq(TaskDraft)]

Projects == [ProjectId -> ProjectRow \cup {NoRow}]
Tasks == [TaskId -> TaskRow \cup {NoRow}]

ASSUME NoUserAssumption == NoUser \notin User
ASSUME NoRowAssumption == NoRow \notin ProjectRow /\ NoRow \notin TaskRow
ASSUME BoundsAssumption == MaxProject \in Nat \ {0} /\ MaxTask \in Nat

-----------------------------------------------------------------------------
(* Reading.                                                                *)

\* users, as a set of members; and whether the array has exactly one entry.
Members(users) == {u \in User : users[u] > 0}

OneEntry(users) ==
    \E u \in User : users[u] = 1 /\ \A v \in User \ {u} : users[v] = 0

\* The ids of the tasks GetTasks(projectId) returns.
GetTasks(T, p) == {t \in TaskId : T[t] # NoRow /\ T[t].project = p}

-----------------------------------------------------------------------------
(* Writing project rows.                                                   *)

addProject(draft) ==
    [owner |-> draft.owner, users |-> draft.users,
     name |-> draft.name, description |-> draft.description]

addUser(users, u) == [users EXCEPT ![u] = @ + 1]

removeUser(users, u) == [users EXCEPT ![u] = 0]

updateUsers(row, users) == [row EXCEPT !.users = users]

updateName(row, name) == [row EXCEPT !.name = name]

updateDescription(row, text) == [row EXCEPT !.description = text]

\* DELETE FROM projects; the foreign key of tasks.project_id cascades.
delete(P, p) == [P EXCEPT ![p] = NoRow]

\* Mutant: the foreign key does not cascade.
cascade_Not(T, p) == T

cascade(T, p) == [t \in TaskId |-> IF t \in GetTasks(T, p) THEN NoRow ELSE T[t]]

-----------------------------------------------------------------------------
(* Writing task rows.                                                      *)

addTask(draft, p) ==
    [project |-> p, assigned |-> NoUser, points |-> draft.points, max |-> draft.max]

\* The rows of all drafts, with the consecutive ids the sequence hands out
\* from "first" on.
addTasks(T, drafts, p, first) ==
    [t \in TaskId |-> IF t \in first .. first + Len(drafts) - 1
                      THEN addTask(drafts[t - first + 1], p)
                      ELSE T[t]]

assignUser(row, u) == [row EXCEPT !.assigned = u]

unassignUser(row) == [row EXCEPT !.assigned = NoUser]

setProcessPoints(row, points) == [row EXCEPT !.points = points]
=============================================================================
