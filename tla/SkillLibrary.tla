---------------------------- MODULE SkillLibrary ----------------------------
(***************************************************************************)
(* The skill library (crates/skillink): a database and the directories its *)
(* rows lead to.                                                           *)
(*                                                                         *)
(* A repository is cloned and its skills become rows; a sync brings the    *)
(* rows to a new commit, whose files are published next to the old ones.   *)
(* Custom skills are directories of their own.  A profile enables skills,  *)
(* and applying it makes links to their directories for the agents.  Every *)
(* operation is a task: a sequence of database calls and file operations,  *)
(* which may be dropped or end with its process at every await.  The tasks *)
(* on repositories exclude each other in a server (SkillRepositoryOperation*)
(* shows how); a command line next to it does not take part in that.       *)
(*                                                                         *)
(* One repository URL and one profile are modelled; a skill is the pair of *)
(* its repository's id, or 0 for a custom skill, and its path or name.     *)
(***************************************************************************)
EXTENDS Integers, FiniteSets, SequencesExt

CONSTANTS
    Tasks,
    Commits,
    Paths,          \* a sequence: rows are written in the order of their paths
    Slugs,
    MaxRepositories,\* bound on the ids that are given out
    MaxSyncs,       \* bound on sync_version
    MaxCustom,      \* bound on custom skills
    None

LibraryConstants ==
    /\ MaxRepositories \in Nat /\ MaxSyncs \in Nat /\ MaxCustom \in Nat
    /\ IsInjective(Paths)
    /\ None \notin [id : Nat, commit : Commits, version : Nat]

ASSUME LibraryAssumption == LibraryConstants

VARIABLES
    exclusive,      \* whether all tasks belong to one server, for ever
    tree,           \* what a commit contains: a slug for some of the paths
    head,           \* the remote branch
    repository,     \* the row, or None
    skills,         \* the rows: which skill, its slug and its directory
    enabled,        \* the skills of the profile
    directories,    \* <<repository, commit>> or <<0, custom skill>>
    applied,        \* the links of the current generation
    task,
    ids, customs    \* given out so far

libraryVars == <<exclusive, tree, head, repository, skills, enabled, directories, applied, task, ids, customs>>

PathSet == ToSet(Paths)

\* discover_repository refuses a tree in which a slug occurs twice.
Trees == {t \in [PathSet -> Slugs \cup {None}] :
            \A p, q \in PathSet : t[p] = t[q] /\ t[p] # None => p = q}

IdleTask == [op |-> "idle", at |-> "idle", id |-> 0, commit |-> None, version |-> 0,
             target |-> None, known |-> {}, remove |-> {}, published |-> FALSE, links |-> {}]

LibraryInit ==
    /\ exclusive \in BOOLEAN
    /\ tree \in [Commits -> Trees]
    /\ head \in Commits
    /\ repository = None /\ skills = {} /\ enabled = {} /\ directories = {} /\ applied = {}
    /\ task = [t \in Tasks |-> IdleTask]
    /\ ids = 0 /\ customs = 0

At(t, op, at) == task[t].op = op /\ task[t].at = at
Set(t, i) == task' = [task EXCEPT ![t] = i]
End(t) == Set(t, IdleTask)

Coordinated == {"add", "sync"}
MayBegin(op) ==
    exclusive => \A u \in Tasks : /\ op \in Coordinated => task[u].op \notin Coordinated \cup {"delete"}
                                  /\ op = "delete" => task[u].op \notin Coordinated

Rows(id) == {s \in skills : s.skill[1] = id}
SlugFree(slug, rows) == \A s \in rows : s.slug # slug

\* The rows of the skills in a commit.
Discovered(id, commit) ==
    {[skill |-> <<id, p>>, slug |-> tree[commit][p], dir |-> <<id, commit>>] :
        p \in {q \in PathSet : tree[commit][q] # None}}

-----------------------------------------------------------------------------
(* Adding a repository *)

\* clone_repository: the commit at the head of the branch.
Cloned == head

\* add_repository: the clone of the branch, published under a new id.
AddPublish(t) ==
    /\ task[t].op = "idle" /\ MayBegin("add") /\ ids < MaxRepositories
    /\ ids' = ids + 1
    /\ directories' = directories \cup {<<ids', Cloned>>}
    /\ Set(t, [IdleTask EXCEPT !.op = "add", !.at = "insert", !.id = ids', !.target = Cloned])
    /\ UNCHANGED <<tree, head, repository, skills, enabled, applied, customs>>

\* insert_repository in one transaction, or the directory is removed again.
AddInsert(t) ==
    LET i == task[t]
        new == Discovered(i.id, i.target)
    IN  /\ At(t, "add", "insert")
        /\ \/ /\ repository = None /\ \A s \in new : SlugFree(s.slug, skills)
              /\ repository' = [id |-> i.id, commit |-> i.target, version |-> 0]
              /\ skills' = skills \cup new
              /\ UNCHANGED directories
           \/ /\ directories' = {d \in directories : d[1] # i.id}
              /\ UNCHANGED <<repository, skills>>
        /\ End(t)
        /\ UNCHANGED <<tree, head, enabled, applied, ids, customs>>

-----------------------------------------------------------------------------
(* Synchronising it *)

\* get_repository, then repository_skills.
SyncRead(t) ==
    /\ task[t].op = "idle" /\ MayBegin("sync") /\ repository # None
    /\ repository.version < MaxSyncs
    /\ Set(t, [IdleTask EXCEPT !.op = "sync", !.at = "plan", !.id = repository.id,
                               !.commit = repository.commit, !.version = repository.version,
                               !.known = Rows(repository.id)])
    /\ UNCHANGED <<tree, head, repository, skills, enabled, directories, applied, ids, customs>>

\* build_plan, of the rows that were read before the clone: what is to be removed,
\* and whether there is nothing to do.
Removed(rows, t) == {s.skill : s \in {r \in rows : t[r.skill[2]] = None}}
Unchanged(rows, t, id) ==
    {<<s.skill, s.slug>> : s \in rows} = {<<<<id, p>>, t[p]>> : p \in {q \in PathSet : t[q] # None}}

SyncPlan(t) ==
    LET i == task[t]
        new == tree[Cloned]
    IN  /\ At(t, "sync", "plan")
        /\ Set(t, IF i.commit = Cloned /\ Unchanged(i.known, new, i.id) THEN IdleTask
                  ELSE [i EXCEPT !.at = "publish", !.target = Cloned, !.known = {},
                                 !.remove = Removed(i.known, new)])
        /\ UNCHANGED <<tree, head, repository, skills, enabled, directories, applied, ids, customs>>

\* publish_revision: a revision that is there is used.
SyncPublish(t) ==
    LET i == task[t]
    IN  /\ At(t, "sync", "publish")
        /\ Set(t, [i EXCEPT !.at = "reconcile", !.published = <<i.id, i.target>> \notin directories])
        /\ directories' = directories \cup {<<i.id, i.target>>}
        /\ UNCHANGED <<tree, head, repository, skills, enabled, applied, ids, customs>>

\* The rows that the plan does not remove.
Kept(i) == {s \in skills : s.skill \notin i.remove}

\* The new rows are written one by one in the order of their paths, a row of the
\* same path is overwritten, and the slug must be free when it is written: a row
\* that is kept has its old slug until its turn comes.  No two new rows have one
\* slug (Trees).
Before(p, q) == \E m, n \in DOMAIN Paths : m < n /\ Paths[m] = p /\ Paths[n] = q

Overwritten(s, rows) == \E r \in rows : r.skill = s.skill

Taken(i, row) ==
    LET earlier == {r \in Discovered(i.id, i.target) : Before(r.skill[2], row.skill[2])}
    IN  ~SlugFree(row.slug, {s \in Kept(i) : s.skill # row.skill /\ ~Overwritten(s, earlier)})

\* (Mutation: a row that is there keeps the revision it has.)
ReconciledOfOldRevision(i) ==
    LET new == Discovered(i.id, i.target)
    IN  {s \in Kept(i) : ~Overwritten(s, new)}
          \cup {r \in new : ~Overwritten(r, Kept(i))}
          \cup {[s EXCEPT !.slug = tree[i.target][s.skill[2]]] : s \in {k \in Kept(i) : Overwritten(k, new)}}

Reconciled(i) ==
    LET new == Discovered(i.id, i.target)
    IN  {s \in Kept(i) : ~Overwritten(s, new)} \cup new

\* (Mutation: the snapshot is not compared.)
NeverStale(i) == repository = None \/ repository.id # i.id

Stale(i) ==
    repository = None \/ <<repository.id, repository.commit, repository.version>> # <<i.id, i.commit, i.version>>

\* reconcile_repository is one transaction; the database may be busy.
SyncReconcile(t) ==
    LET i == task[t]
    IN  /\ At(t, "sync", "reconcile")
        /\ \/ /\ ~Stale(i) /\ i.remove \cap enabled = {}
              /\ \A row \in Discovered(i.id, i.target) : ~Taken(i, row)
              /\ repository' = [id |-> i.id, commit |-> i.target, version |-> repository.version + 1]
              /\ skills' = Reconciled(i)
              /\ End(t)
           \/ /\ Set(t, IF i.published /\ ~Stale(i) THEN [i EXCEPT !.at = "referenced"] ELSE IdleTask)
              /\ UNCHANGED <<repository, skills>>
        /\ UNCHANGED <<tree, head, enabled, directories, applied, ids, customs>>

\* A revision that was published in vain is removed if no row leads to it.
SyncReferenced(t) ==
    LET i == task[t]
    IN  /\ At(t, "sync", "referenced")
        /\ Set(t, IF repository # None /\ <<repository.id, repository.commit>> = <<i.id, i.target>>
                  THEN IdleTask ELSE [i EXCEPT !.at = "unpublish"])
        /\ UNCHANGED <<tree, head, repository, skills, enabled, directories, applied, ids, customs>>

SyncUnpublish(t) ==
    /\ At(t, "sync", "unpublish")
    /\ directories' = directories \ {<<task[t].id, task[t].target>>}
    /\ End(t)
    /\ UNCHANGED <<tree, head, repository, skills, enabled, applied, ids, customs>>

-----------------------------------------------------------------------------
(* Removing *)

\* remove_repository: the foreign keys refuse it while a skill is enabled; the
\* directory goes after the rows, or stays when the task ends in between.
RemoveBegin(t) ==
    /\ task[t].op = "idle" /\ MayBegin("delete") /\ repository # None
    /\ \A s \in Rows(repository.id) : s.skill \notin enabled
    /\ Set(t, [IdleTask EXCEPT !.op = "delete", !.at = "rows", !.id = repository.id])
    /\ UNCHANGED <<tree, head, repository, skills, enabled, directories, applied, ids, customs>>

RemoveRows(t) ==
    LET id == task[t].id
    IN  /\ At(t, "delete", "rows")
        /\ IF \A s \in Rows(id) : s.skill \notin enabled
           THEN /\ skills' = skills \ Rows(id)
                /\ repository' = IF repository # None /\ repository.id = id THEN None ELSE repository
                /\ Set(t, [task[t] EXCEPT !.at = "files"])
           ELSE End(t) /\ UNCHANGED <<skills, repository>>
        /\ UNCHANGED <<tree, head, enabled, directories, applied, ids, customs>>

RemoveFiles(t) ==
    /\ At(t, "delete", "files")
    /\ directories' = {d \in directories : d[1] # task[t].id}
    /\ End(t)
    /\ UNCHANGED <<tree, head, repository, skills, enabled, applied, ids, customs>>

\* remove_skill of a repository's skill removes the row; the foreign key refuses
\* it while the skill is enabled.
RemoveSkill(s) ==
    /\ s.skill[1] # 0 /\ MayBegin("delete")
    /\ s.skill \notin enabled
    /\ skills' = skills \ {s}
    /\ UNCHANGED <<tree, head, repository, enabled, directories, applied, task, ids, customs>>

\* Of a custom skill the directory goes after the row.
RemoveCustom(t, s) ==
    /\ task[t].op = "idle" /\ s.skill[1] = 0
    /\ s.skill \notin enabled
    /\ skills' = skills \ {s}
    /\ Set(t, [IdleTask EXCEPT !.op = "remove", !.at = "files", !.target = s.skill[2]])
    /\ UNCHANGED <<tree, head, repository, enabled, directories, applied, ids, customs>>

RemoveCustomFiles(t) ==
    /\ At(t, "remove", "files")
    /\ directories' = directories \ {<<0, task[t].target>>}
    /\ End(t)
    /\ UNCHANGED <<tree, head, repository, skills, enabled, applied, ids, customs>>

\* create_skill and import_skill: the directory under a new name, then the row or,
\* when the row is refused, no directory; the slug matters to the row alone.
CreatePublish(t) ==
    /\ exclusive    \* bound: the other process changes repositories only
    /\ task[t].op = "idle" /\ customs < MaxCustom
    /\ customs' = customs + 1
    /\ directories' = directories \cup {<<0, customs'>>}
    /\ Set(t, [IdleTask EXCEPT !.op = "create", !.at = "insert", !.target = customs'])
    /\ UNCHANGED <<tree, head, repository, skills, enabled, applied, ids>>

CreateInsert(t, slug) ==
    LET dir == <<0, task[t].target>>
    IN  /\ At(t, "create", "insert")
        /\ \/ /\ SlugFree(slug, skills)
              /\ skills' = skills \cup {[skill |-> dir, slug |-> slug, dir |-> dir]}
              /\ UNCHANGED directories
           \/ /\ directories' = directories \ {dir}
              /\ UNCHANGED skills
        /\ End(t)
        /\ UNCHANGED <<tree, head, repository, enabled, applied, ids, customs>>

-----------------------------------------------------------------------------
(* The profile *)

\* enable_skill, disable_skill, replace_profile_skills.
ReplaceSkills(chosen) ==
    /\ enabled' = {s.skill : s \in chosen}
    /\ enabled' # enabled
    /\ UNCHANGED <<tree, head, repository, skills, directories, applied, task, ids, customs>>

\* apply_profile: the rows are read, then linked if their directories exist.
ApplyRead(t) ==
    /\ task[t].op = "idle"
    /\ Set(t, [IdleTask EXCEPT !.op = "apply", !.at = "link", !.links = {s \in skills : s.skill \in enabled}])
    /\ UNCHANGED <<tree, head, repository, skills, enabled, directories, applied, ids, customs>>

ApplyLink(t) ==
    /\ At(t, "apply", "link")
    /\ applied' = IF \A s \in task[t].links : s.dir \in directories THEN task[t].links ELSE applied
    /\ End(t)
    /\ UNCHANGED <<tree, head, repository, skills, enabled, directories, ids, customs>>

-----------------------------------------------------------------------------
\* A task is dropped, fails early, or its process ends.
Drop(t) ==
    /\ task[t].op # "idle"
    /\ End(t)
    /\ UNCHANGED <<tree, head, repository, skills, enabled, directories, applied, ids, customs>>

Push(c) ==
    /\ head' = c /\ c # head
    /\ UNCHANGED <<tree, repository, skills, enabled, directories, applied, task, ids, customs>>

Step ==
    \/ \E t \in Tasks :
          \/ AddPublish(t) \/ AddInsert(t)
          \/ SyncRead(t) \/ SyncPlan(t) \/ SyncPublish(t) \/ SyncReconcile(t)
          \/ SyncReferenced(t) \/ SyncUnpublish(t)
          \/ RemoveBegin(t) \/ RemoveRows(t) \/ RemoveFiles(t)
          \/ RemoveCustomFiles(t) \/ CreatePublish(t)
          \/ ApplyRead(t) \/ ApplyLink(t) \/ Drop(t)
    \/ \E s \in skills : RemoveSkill(s)
    \/ \E t \in Tasks, s \in skills : RemoveCustom(t, s)
    \/ \E t \in Tasks, slug \in Slugs : CreateInsert(t, slug)
    \/ \E chosen \in SUBSET skills : ReplaceSkills(chosen)
    \/ \E c \in Commits : Push(c)

LibraryNext == Step /\ UNCHANGED exclusive

LibrarySpec == LibraryInit /\ [][LibraryNext]_libraryVars

-----------------------------------------------------------------------------
\* Every row leads to a directory that is there.
RowsHaveContent == \A s \in skills : s.dir \in directories

\* The rows of the repository are at its commit, and belong to it.
RowsFollowRepository ==
    \A s \in skills : s.skill[1] # 0 =>
        repository # None /\ s.dir = <<repository.id, repository.commit>> /\ s.skill[1] = repository.id

\* What was applied for a skill that is still enabled is still there, whatever
\* was synchronised since.
AppliedSkillsStay == \A s \in applied : s.skill \in enabled => s.dir \in directories

\* No two skills have one name.
SlugsAreUnique == \A r, s \in skills : r.slug = s.slug => r = s

\* Names are unique whoever is at work; the rest holds while all tasks belong
\* to one server, and RowsHaveContent fails beside a command line.
LibraryIsConsistent ==
    /\ SlugsAreUnique
    /\ exclusive => RowsHaveContent /\ RowsFollowRepository /\ AppliedSkillsStay

\* A sync that changes the commit leaves exactly the skills of that commit.
SyncIsExact ==
    [][(repository # None /\ repository' # None /\ repository'.version # repository.version)
          => Unchanged({s \in skills' : s.skill[1] = repository'.id}, tree[repository'.commit], repository'.id)]_libraryVars
=============================================================================
