------------------------------ MODULE Packages ------------------------------
(***************************************************************************)
(* The package manager, package.rs: what install and update make of the    *)
(* dependencies of a project, the cache of packages that all projects of a *)
(* user share, the lock file of each project, and what publish makes of a  *)
(* package's version.                                                      *)
(*                                                                         *)
(* A package is its name.  Its repository has a sequence of commits, 1 to  *)
(* head; a dependency takes it from there ("git") or from the author's     *)
(* directory ("path", and so a .auz file).  One package manager at a time  *)
(* works in a project, and any may crash.                                  *)
(*                                                                         *)
(* Left aside: the constraint of a dependency, which nothing looks at when *)
(* a version is chosen; a run in offline mode, in which the version of     *)
(* every git dependency is an error, as without a network.                 *)
(***************************************************************************)
EXTENDS Integers, SequencesExt

CONSTANTS
    Project,
    Package,
    Requests,       \* the lists of dependencies install is called with
    Manifest,       \* the dependencies in a project's aura.toml
    MaxCommits,     \* bound: commits to a repository
    MaxCalls        \* bound: calls of install and update

Dependency == [name : Package, source : {"git", "path"}]

ASSUME PackagesAssumption ==
    /\ Package # {}
    /\ Requests \subseteq Seq(Dependency) /\ Manifest \in Seq(Dependency)
    /\ MaxCommits \in Nat \ {0} /\ MaxCalls \in Nat

VARIABLES
    head,           \* head[n]: the last commit of package n
    version,        \* version[n]: what its aura.toml says there
    tags,           \* tags[n]: the tags made, each with its version and commit
    latest,         \* latest[n]: the cached tag of n's repository, or 0
    dirs,           \* dirs[n, v]: what is in the directory of version v
    installed,      \* the directories with an `installed` file
    lock,           \* lock[p]: the entries of aura.lock, none without a file
    torn,           \* the projects whose aura.lock was truncated and not written
    command, stage,         \* what p's package manager does, and where it is
    todo,           \* the dependencies it has still to resolve
    built,          \* the entries of the lock file it makes
    found,          \* the entry of the dependency in hand
    installs,       \* the number of calls made
    cleared,        \* history: the cache was cleared
    undone          \* history: directories whose mark went with a failed clone

author == <<head, version, tags>>
cache == <<latest, dirs, installed, cleared, undone>>
files == <<lock, torn>>
manager == <<command, stage, todo, built, found>>
packageVars == <<author, cache, files, manager, installs>>

Version == 1 .. MaxCommits

\* A directory holds a clone of a commit, or it is not there, or holds a clone
\* that was not finished or nothing but the `installed` file.
NoDir == 0
Begun == -1
Plain == -2

Entry == [name : Package, source : {"git", "path"}, version : {0} \cup Version,
          rev : {0} \cup 1 .. MaxCommits]

NoEntry == [name |-> CHOOSE n \in Package : TRUE, source |-> "git", version |-> 0, rev |-> 0]

PackagesInit ==
    /\ head = [n \in Package |-> 1] /\ version = [n \in Package |-> 1]
    /\ tags = [n \in Package |-> {}]
    /\ latest = [n \in Package |-> 0]
    /\ dirs = [d \in Package \X Version |-> NoDir]
    /\ installed = {} /\ cleared = FALSE /\ undone = {}
    /\ lock = [p \in Project |-> <<>>] /\ torn = {}
    /\ command = [p \in Project |-> "none"] /\ stage = [p \in Project |-> "idle"]
    /\ todo = [p \in Project |-> <<>>] /\ built = [p \in Project |-> <<>>]
    /\ found = [p \in Project |-> NoEntry]
    /\ installs = 0

-----------------------------------------------------------------------------
\* The author of package n commits, with a new version or not.
Commit(n) ==
    /\ head[n] < MaxCommits
    /\ head' = [head EXCEPT ![n] = @ + 1]
    /\ \E v \in {version[n], version[n] + 1} : version' = [version EXCEPT ![n] = v]
    /\ UNCHANGED <<tags, cache, files, manager, installs>>

\* git tag fails if there is such a tag; git push may fail when the tag is made.
Publish(n) ==
    /\ \A t \in tags[n] : t.version # version[n]
    /\ \E pushed \in BOOLEAN :
          tags' = [tags EXCEPT ![n] =
                      @ \cup {[version |-> version[n], commit |-> head[n], pushed |-> pushed]}]
    /\ UNCHANGED <<head, version, cache, files, manager, installs>>

-----------------------------------------------------------------------------
\* Where p's package manager is:
\*   "next"     between two dependencies
\*   "describe" no tag is cached: git looks for one
\*   "tag"      it is written to the cache
\*   "fetch"    the version is chosen
\*   "clone"    there is no such clone: git clone is called
\*   "cloning"  git fills the directory
\*   "mark"     the package is there
\*   "write"    aura.lock is truncated
PkgGoto(p, where) == stage' = [stage EXCEPT ![p] = where]

\* The call returns, with the lock file written or an error, or crashes.
CallEnds(p) ==
    /\ command' = [command EXCEPT ![p] = "none"] /\ PkgGoto(p, "idle")
    /\ todo' = [todo EXCEPT ![p] = <<>>] /\ built' = [built EXCEPT ![p] = <<>>]
    /\ found' = [found EXCEPT ![p] = NoEntry]

\* Without the lock file: what is on the disk stays there.
Abandon(p) == CallEnds(p) /\ UNCHANGED <<author, files, installs>>

\* LockFile.find: the first entry of the name.
Locked(entries, name) == \E i \in DOMAIN entries : entries[i].name = name
LockFind(entries, name) == SelectInSeq(entries, LAMBDA e : e.name = name)
Find(entries, name) == entries[LockFind(entries, name)]

\* install adds to the entries it reads; update makes new ones.  A file that
\* cannot be read is an error.
StartWith(p, what, deps, entries) ==
    /\ stage[p] = "idle" /\ p \notin torn
    /\ installs < MaxCalls /\ installs' = installs + 1
    /\ command' = [command EXCEPT ![p] = what]
    /\ todo' = [todo EXCEPT ![p] = deps]
    /\ built' = [built EXCEPT ![p] = entries]
    /\ PkgGoto(p, "next")
    /\ UNCHANGED <<author, cache, files, found>>

Install(p) == \E deps \in Requests : StartWith(p, "install", deps, lock[p])
Update(p) == \E what \in {"update", "updateAll"} : StartWith(p, what, Manifest, <<>>)

\* Slip: the new entry goes to the front.
PushFront(entries, e) == <<e>> \o entries

PushEntry(entries, e) == Append(entries, e)

\* The dependency in hand is done.
Done(p, e) ==
    /\ built' = [built EXCEPT ![p] = PushEntry(@, e)]
    /\ todo' = [todo EXCEPT ![p] = Tail(@)]

\* The dependency in hand.
Wanted(p) == Head(todo[p])

IsKept(p, dep) == command[p] = "update" /\ Locked(lock[p], dep.name)

\* update without all keeps the entry the lock file has.
KeepLocked(p) ==
    /\ stage[p] = "next" /\ todo[p] # <<>>
    /\ IsKept(p, Wanted(p))
    /\ Done(p, Find(lock[p], Wanted(p).name))
    /\ UNCHANGED <<author, cache, files, command, stage, found, installs>>

\* git describe in a clone of depth one sees the tags of its only commit.
HeadTags(n) == {t.version : t \in {u \in tags[n] : u.pushed /\ u.commit = head[n]}}

\* It is to be fetched in this version.
Chosen(p, v) ==
    found' = [found EXCEPT ![p] = [name |-> Wanted(p).name, source |-> Wanted(p).source,
                                   version |-> v, rev |-> 0]]

\* resolve_version, with git_latest_tag up to its look at the cached tag.
Resolve(p) ==
    LET dep == Wanted(p)
    IN  /\ stage[p] = "next" /\ todo[p] # <<>> /\ ~IsKept(p, dep)
        /\ \/ dep.source = "path" /\ Chosen(p, version[dep.name]) /\ PkgGoto(p, "fetch")
           \/ /\ dep.source = "git" /\ latest[dep.name] # 0
              /\ Chosen(p, latest[dep.name]) /\ PkgGoto(p, "fetch")
           \/ /\ dep.source = "git" /\ latest[dep.name] = 0
              /\ PkgGoto(p, "describe") /\ UNCHANGED found
        /\ UNCHANGED <<author, cache, files, command, todo, built, installs>>

\* A clone that is thrown away again tells the repository's tag.
Describe(p) ==
    /\ stage[p] = "describe"
    /\ \E v \in HeadTags(Wanted(p).name) : Chosen(p, v)
    /\ PkgGoto(p, "tag")
    /\ UNCHANGED <<author, cache, files, command, todo, built, installs>>

\* There is no network or no tag, or no such directory.
ResolveFails(p) ==
    /\ \/ stage[p] = "describe"
       \/ /\ stage[p] = "next" /\ todo[p] # <<>> /\ ~IsKept(p, Wanted(p))
          /\ Wanted(p).source = "path"
    /\ Abandon(p) /\ UNCHANGED cache

\* The file of the tag is emptied, then filled; what fails is not looked at.
KeepTag(p) ==
    LET n == found[p].name
    IN  /\ stage[p] = "tag"
        /\ \/ latest' = [latest EXCEPT ![n] = 0] /\ UNCHANGED stage
           \/ latest' \in {latest, [latest EXCEPT ![n] = found[p].version]} /\ PkgGoto(p, "fetch")
        /\ UNCHANGED <<author, dirs, installed, cleared, undone, files, command, todo, built,
                       found, installs>>

Dir(p) == <<found[p].name, found[p].version>>

GotRev(p, rev) == found' = [found EXCEPT ![p].rev = rev] /\ PkgGoto(p, "mark")

\* Slip: a clone that is there is brought up to the last commit.
PullClone(p) ==
    /\ dirs[Dir(p)] > 0
    /\ dirs' = [dirs EXCEPT ![Dir(p)] = head[found[p].name]]
    /\ GotRev(p, head[found[p].name])

\* A clone that is there is taken as it is.
TakeClone(p) == dirs[Dir(p)] > 0 /\ GotRev(p, dirs[Dir(p)]) /\ UNCHANGED dirs

\* resolve_dependency, for a path and for a git dependency that is there or
\* is not: git finds no commit in a clone that was only begun, nor where there
\* is nothing but a mark.
Fetch(p) ==
    /\ stage[p] = "fetch"
    /\ \/ found[p].source = "path" /\ GotRev(p, head[found[p].name]) /\ UNCHANGED dirs
       \/ found[p].source = "git" /\ TakeClone(p)
       \/ /\ found[p].source = "git" /\ dirs[Dir(p)] \in {NoDir, Begun, Plain}
          /\ PkgGoto(p, "clone") /\ UNCHANGED <<dirs, found>>
    /\ UNCHANGED <<author, latest, installed, cleared, undone, files, command, todo, built,
                   installs>>

\* git clone refuses a directory that has something in it by now.
CloneRefused(p) ==
    /\ stage[p] = "clone" /\ dirs[Dir(p)] # NoDir
    /\ Abandon(p) /\ UNCHANGED cache

CloneBegins(p) ==
    /\ stage[p] = "clone" /\ dirs[Dir(p)] = NoDir
    /\ dirs' = [dirs EXCEPT ![Dir(p)] = Begun]
    /\ PkgGoto(p, "cloning")
    /\ UNCHANGED <<author, latest, installed, cleared, undone, files, command, todo, built,
                   found, installs>>

\* The clone is of the repository's last commit, whatever the version.
CloneEnds(p) ==
    /\ stage[p] = "cloning"
    /\ dirs' = [dirs EXCEPT ![Dir(p)] = head[found[p].name]]
    /\ GotRev(p, head[found[p].name])
    /\ UNCHANGED <<author, latest, installed, cleared, undone, files, command, todo, built,
                   installs>>

\* git removes the directory it has made and all that is in it by now, the
\* mark of another project's path dependency too.
CloneFails(p) ==
    /\ stage[p] = "cloning"
    /\ dirs' = [dirs EXCEPT ![Dir(p)] = NoDir] /\ installed' = installed \ {Dir(p)}
    /\ undone' = undone \cup (installed \cap {Dir(p)})
    /\ Abandon(p) /\ UNCHANGED <<latest, cleared>>

\* mark_installed, and the new entry.
MarkInstalled(p) ==
    /\ stage[p] = "mark"
    /\ installed' = installed \cup {Dir(p)} /\ undone' = undone \ {Dir(p)}
    /\ dirs' = [dirs EXCEPT ![Dir(p)] = IF @ = NoDir THEN Plain ELSE @]
    /\ Done(p, found[p]) /\ PkgGoto(p, "next")
    /\ UNCHANGED <<author, latest, cleared, files, command, found, installs>>

\* write_to_file empties the file and then fills it.
TruncateLock(p) ==
    /\ stage[p] = "next" /\ todo[p] = <<>>
    /\ torn' = torn \cup {p}
    /\ PkgGoto(p, "write")
    /\ UNCHANGED <<author, cache, lock, command, todo, built, found, installs>>

WriteLock(p) ==
    /\ stage[p] = "write"
    /\ lock' = [lock EXCEPT ![p] = built[p]] /\ torn' = torn \ {p}
    /\ CallEnds(p)
    /\ UNCHANGED <<author, cache, installs>>

Crash(p) == stage[p] # "idle" /\ Abandon(p) /\ UNCHANGED cache

-----------------------------------------------------------------------------
\* The user removes a lock file that cannot be read.
RemoveLock(p) ==
    /\ stage[p] = "idle" /\ p \in torn
    /\ lock' = [lock EXCEPT ![p] = <<>>] /\ torn' = torn \ {p}
    /\ UNCHANGED <<author, cache, manager, installs>>

\* PackageCache.clear removes the packages, not the tags; not during a clone.
Clear ==
    /\ ~cleared /\ cleared' = TRUE
    /\ \A p \in Project : stage[p] # "cloning"
    /\ dirs' = [d \in DOMAIN dirs |-> NoDir] /\ installed' = {}
    /\ UNCHANGED <<author, latest, undone, files, manager, installs>>

Manage(p) ==
    \/ Install(p) \/ Update(p) \/ KeepLocked(p) \/ Resolve(p) \/ Describe(p)
    \/ ResolveFails(p) \/ KeepTag(p) \/ Fetch(p) \/ CloneRefused(p) \/ CloneBegins(p)
    \/ CloneEnds(p) \/ CloneFails(p)
    \/ MarkInstalled(p) \/ TruncateLock(p) \/ WriteLock(p) \/ Crash(p) \/ RemoveLock(p)

PackagesNext ==
    \/ \E n \in Package : Commit(n) \/ Publish(n)
    \/ \E p \in Project : Manage(p)
    \/ Clear

PackagesSpec == PackagesInit /\ [][PackagesNext]_packageVars

PackagesTypeOK ==
    /\ head \in [Package -> 1 .. MaxCommits] /\ version \in [Package -> Version]
    /\ \A n \in Package :
          tags[n] \subseteq [version : Version, commit : 1 .. MaxCommits, pushed : BOOLEAN]
    /\ latest \in [Package -> {0} \cup Version]
    /\ dirs \in [Package \X Version -> {NoDir, Begun, Plain} \cup 1 .. MaxCommits]
    /\ installed \cup undone \subseteq Package \X Version
    /\ torn \subseteq Project
    /\ \A p \in Project :
          /\ Range(lock[p]) \cup Range(built[p]) \cup {found[p]} \subseteq Entry
          /\ Range(todo[p]) \subseteq Dependency
          /\ command[p] \in {"none", "install", "update", "updateAll"}
          /\ stage[p] \in {"idle", "next", "describe", "tag", "fetch", "clone", "cloning",
                          "mark", "write"}
    /\ installs \in 0 .. MaxCalls /\ cleared \in BOOLEAN

-----------------------------------------------------------------------------
\* Until the cache is cleared, a package that any project has locked from a
\* repository is installed, at the very commit that was locked: all projects
\* have one commit for a version, whatever the author did since, and whichever
\* package manager crashed or failed on the way.  One that was locked from a
\* path is installed unless a clone of its version failed and took the mark.
LockedIsCached ==
    ~cleared =>
        \A p \in Project : \A e \in Range(lock[p]) :
            LET d == <<e.name, e.version>> IN
            /\ e.source = "git" => d \in installed /\ dirs[d] = e.rev
            /\ e.source = "path" => d \in installed \cup undone

\* What find gives for a package that is locked stays what it is until an
\* update of everything: an install of it again, of another version even, and
\* an update of what is new leave it.
LockKept ==
    [][\A p \in Project :
         command[p] \in {"install", "update"} =>
             \A n \in Package :
                 Locked(lock[p], n) /\ Locked(lock'[p], n) =>
                     Find(lock'[p], n) = Find(lock[p], n)]_packageVars
=============================================================================
