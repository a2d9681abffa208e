---------------------------- MODULE OpenCodePool ----------------------------
(***************************************************************************)
(* Which file the server reads OpenCode's history from                     *)
(* (apps/server/src/state/history.rs and its users in history/opencode.rs).*)
(*                                                                         *)
(* The path of OpenCode's database depends on the installed version, and   *)
(* OpenCode replaces the file whenever it likes.  The server keeps a pool  *)
(* for one file: it knows the file by its inode, and keeps the inode from  *)
(* being used again by an open descriptor.  Every user of the pool holds   *)
(* the reconciliation lock, so one task at a time works with it, and goes  *)
(* away at any of its awaits; the files change at any time.                *)
(***************************************************************************)
EXTENDS Naturals

CONSTANTS
    Paths, Inodes,
    DatabaseLimit,      \* bound: databases that are ever created
    GenerationLimit,    \* bound: how often the pool is exchanged
    None

VARIABLES
    file,               \* the inode at each path, or None
    holds,              \* the database in each inode: a number of its own
    born,               \* databases so far
    path, generation,   \* OpenCodeHistoryPool: the bound path
    pool,               \* its PoolState, or None
    task,               \* who holds the lock, and what it has
    changed             \* did a file change since this attempt began?

vars == <<file, holds, born, path, generation, pool, task, changed>>

Nobody == [kind |-> None, at |-> "idle", tries |-> 0, handle |-> None, read |-> 0]

Init ==
    /\ file \in [Paths -> Inodes \cup {None}]
    /\ \A p, q \in Paths : p # q /\ file[p] # None => file[p] # file[q]
    /\ holds = [i \in Inodes |-> IF \E p \in Paths : file[p] = i THEN 1 ELSE 0]
    /\ born = 1
    /\ path \in Paths /\ generation = 0 /\ pool = None
    /\ task = Nobody
    /\ changed = FALSE

-----------------------------------------------------------------------------
(* The files *)

\* (Mutation: the descriptor is not kept.)
Unanchored(i) == task.at = "opened" /\ task.handle.inode = i

\* The descriptors of the pool and of a handle keep an inode in use.
Anchored(i) ==
    \/ pool # None /\ pool.inode = i
    \/ task.handle # None /\ task.handle.inode = i

Replace(p, i) ==
    /\ born < DatabaseLimit
    /\ \A q \in Paths : file[q] # i
    /\ ~Anchored(i)
    /\ born' = born + 1
    /\ file' = [file EXCEPT ![p] = i] /\ holds' = [holds EXCEPT ![i] = born']
    /\ changed' = TRUE
    /\ UNCHANGED <<path, generation, pool, task>>

Unlink(p) ==
    /\ file[p] # None
    /\ file' = [file EXCEPT ![p] = None]
    /\ changed' = TRUE
    /\ UNCHANGED <<holds, born, path, generation, pool, task>>

-----------------------------------------------------------------------------
(* The pool *)

Files == <<file, holds, born>>
Goto(at) == task' = [task EXCEPT !.at = at]
Have(h, at) == task' = [task EXCEPT !.handle = h, !.at = at]
Move(from, to) == task.at = from /\ Goto(to)

\* file_is_current, and handle_is_current.
FileIsCurrent(h) == file[h.path] = h.inode
IsCurrent(h) == generation = h.generation /\ path = h.path /\ FileIsCurrent(h)

\* The lock is taken; a list or a deletion finds out the path first.
Begin(kind) ==
    /\ task.kind = None
    /\ task' = [Nobody EXCEPT !.kind = kind, !.at = "bind"]
    /\ changed' = FALSE
    /\ UNCHANGED <<Files, path, generation, pool>>

\* rebind stores another path, and then takes the pool away.
Rebind(p) ==
    /\ task.at = "bind"
    /\ IF p = path THEN Goto("get") /\ UNCHANGED <<path, generation>>
       ELSE /\ generation < GenerationLimit
            /\ path' = p /\ generation' = generation + 1
            /\ Goto("unbind")
    /\ UNCHANGED <<Files, pool, changed>>

TakePool ==
    /\ Move("unbind", "get")
    /\ pool' = None
    /\ UNCHANGED <<Files, path, generation, changed>>

\* get: the pool, when it is the one for the file at the path.
GetPool ==
    /\ task.at = "get" /\ file[path] # None
    /\ pool # None /\ pool.path = path /\ pool.inode = file[path]
    /\ Have(pool, "reconcile")
    /\ UNCHANGED <<Files, path, generation, pool, changed>>

\* Otherwise the file is opened, and then a pool is connected to the path.
Anchor ==
    /\ task.at = "get" /\ file[path] # None
    /\ ~(pool # None /\ pool.path = path /\ pool.inode = file[path])
    /\ Have([path |-> path, inode |-> file[path], generation |-> 0], "opened")
    /\ UNCHANGED <<Files, path, generation, pool, changed>>

Connect ==
    /\ task.at = "opened" /\ FileIsCurrent(task.handle)
    /\ generation < GenerationLimit
    /\ generation' = generation + 1
    /\ Have([task.handle EXCEPT !.generation = generation'], "connected")
    /\ UNCHANGED <<Files, path, pool, changed>>

StorePool ==
    /\ Move("connected", "reconcile")
    /\ pool' = task.handle
    /\ UNCHANGED <<Files, path, generation, changed>>

\* There is no file, it was replaced, or it cannot be opened.
GetFails ==
    /\ task.at \in {"get", "opened"}
    /\ task' = Nobody
    /\ UNCHANGED <<Files, path, generation, pool, changed>>

\* invalidate takes the pool of the handle away, not one that replaced it.
Invalidate ==
    IF pool # None /\ pool.generation = task.handle.generation
    THEN pool' = None /\ generation' = generation + 1 ELSE UNCHANGED <<pool, generation>>

-----------------------------------------------------------------------------
(* Its users *)

\* list tries once more; the others give up, a deletion without invalidating.
Stale ==
    /\ IF task.kind = "delete" THEN UNCHANGED <<pool, generation>> ELSE Invalidate
    /\ IF task.kind = "list" /\ task.tries = 0
       THEN task' = [Nobody EXCEPT !.kind = "list", !.tries = 1, !.at = "get"] /\ changed' = FALSE
       ELSE task' = [task EXCEPT !.at = "stale"] /\ UNCHANGED changed

\* reconcile_lineage, whose failure a list ignores; then the handle is tested.
Reconcile ==
    /\ task.at = "reconcile" /\ task.kind # "init"
    /\ \/ IsCurrent(task.handle) /\ Goto("query") /\ UNCHANGED <<generation, pool, changed>>
       \/ ~IsCurrent(task.handle) /\ Stale
    /\ UNCHANGED <<Files, path>>

\* initialize_lineage_locked wants no more than that.
Initialized ==
    /\ task.at = "reconcile" /\ task.kind = "init" /\ FileIsCurrent(task.handle)
    /\ task' = Nobody
    /\ UNCHANGED <<Files, path, generation, pool, changed>>

\* The failure ends every task but a list; a deletion does not invalidate.
ReconcileFails ==
    /\ task.at = "reconcile" /\ task.kind # "list"
    /\ IF task.kind = "delete" THEN UNCHANGED <<pool, generation>> ELSE Invalidate
    /\ task' = Nobody
    /\ UNCHANGED <<Files, path, changed>>

\* No connection is kept: each is opened at the path, and must be the file.
Query ==
    /\ task.at = "query" /\ FileIsCurrent(task.handle)
    /\ task' = [task EXCEPT !.read = holds[task.handle.inode], !.at = "test"]
    /\ UNCHANGED <<Files, path, generation, pool, changed>>

QueryFails ==
    /\ task.at = "query"
    /\ IF task.kind = "delete" THEN UNCHANGED <<pool, generation>> ELSE Invalidate
    /\ task' = Nobody
    /\ UNCHANGED <<Files, path, changed>>

\* The handle is tested again: a list and a preparation have their answer.
Test ==
    /\ task.at = "test"
    /\ \/ IsCurrent(task.handle) /\ UNCHANGED <<generation, pool, changed>>
          /\ Goto(IF task.kind = "delete" THEN "planned" ELSE "answered")
       \/ ~IsCurrent(task.handle) /\ Stale
    /\ UNCHANGED <<Files, path>>

\* delete_generations_at opens the path, and looks at the file that it got.
OpenForDeletion ==
    /\ task.at = "planned"
    /\ IF FileIsCurrent(task.handle) THEN Goto("exclusive") ELSE task' = Nobody
    /\ UNCHANGED <<Files, path, generation, pool, changed>>

\* In the transaction the file is compared once more, then it commits.
Commit ==
    /\ task.at = "exclusive"
    /\ IF FileIsCurrent(task.handle) THEN Goto("deleted") ELSE task' = Nobody
    /\ UNCHANGED <<Files, path, generation, pool, changed>>

\* A deletion that succeeded invalidates the pool.
End ==
    /\ task.at \in {"answered", "stale", "deleted"}
    /\ IF task.at = "deleted" THEN Invalidate ELSE UNCHANGED <<pool, generation>>
    /\ task' = Nobody
    /\ UNCHANGED <<Files, path, changed>>

\* The request goes away at one of its awaits.
Drop ==
    /\ task.kind # None
    /\ task' = Nobody
    /\ UNCHANGED <<Files, path, generation, pool, changed>>

Next ==
    \/ \E p \in Paths, i \in Inodes : Replace(p, i)
    \/ \E p \in Paths : Unlink(p) \/ Rebind(p)
    \/ \E kind \in {"list", "prepare", "delete", "init"} : Begin(kind)
    \/ TakePool \/ GetPool \/ Anchor \/ Connect \/ StorePool \/ GetFails
    \/ Reconcile \/ Initialized \/ ReconcileFails \/ Query \/ QueryFails \/ Test
    \/ OpenForDeletion \/ Commit \/ End \/ Drop

Spec == Init /\ [][Next]_vars

-----------------------------------------------------------------------------
\* What is answered was read from the database that is at the bound path.
AnswersAreCurrent ==
    [][task'.at = "answered" /\ task.at # "answered" => task.read = holds[file[path]]]_vars

\* A deletion changes the database that its plan was read from.
DeletionsMeetTheirPlan ==
    [][task'.at = "deleted" /\ task.at # "deleted" => task.read = holds[file[task.handle.path]]]_vars

\* A list is given up only when a file changed during its second attempt.
SecondAttemptsSucceed == [](task.kind = "list" /\ task.at = "stale" => changed)

HistoryIsOfTheFile == AnswersAreCurrent /\ DeletionsMeetTheirPlan /\ SecondAttemptsSucceed
=============================================================================
