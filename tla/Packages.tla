------------------------------ MODULE Packages ------------------------------
(***************************************************************************)
(* The package commands of eskiuc (pkg.cpp): add, build and fetch resolve  *)
(* the dependencies of eskiu.toml, check git packages out of a mirror into *)
(* $ESKIU_HOME and pin them in eskiu.lock. Commands run one at a time; the *)
(* disk may refuse what they write, noticed or not, and each of their      *)
(* steps on the disk may be the last one before a crash.                   *)
(*                                                                         *)
(* A dependency is [name, url, rev], a path dependency the same with the   *)
(* url "path" and the directory as its rev. A commit stands for its files. *)
(***************************************************************************)
EXTENDS Integers, Sequences, FiniteSets, SequencesExt, Functions

CONSTANTS
  Root,        \* the name of the package
  Names,       \* the packages it may depend on
  Rank,        \* Rank[n]: the place of the name n in the order of names
  Commits, Urls,
  DepsOf,      \* DepsOf[c]: the dependencies in the manifest of a commit or directory
  Upstreams,   \* the states of the remotes in time: a sequence of [Urls -> [revs -> Commits]]
  Adds,        \* the dependencies a user adds
  MaxCommands,
  MaxFaults    \* crashes and writes that the disk refuses

\* The dependencies that a manifest may have, and the sources that may bring more.
Known == Adds \cup UNION {{DepsOf[c][i] : i \in DOMAIN DepsOf[c]} : c \in DOMAIN DepsOf}
Sources == DOMAIN DepsOf
IsGit(d) == d.url # "path"

\* A commit cut short in the lock: nothing of it, or too few digits for git to know it. (With
\* more digits git still finds the commit; that its directory then has a name of its own, and
\* that it conflicts with the whole name, is left out.)
Stubs == {"empty", "short"}

\* The remotes name commits that have a manifest; a dependency is the root, a git package
\* at one of the URLs, or a directory with a manifest.
WellFormed ==
  /\ Root \notin Names
  /\ Len(Upstreams) \in Nat \ {0} /\ DOMAIN Upstreams = 1 .. Len(Upstreams)
  /\ \A i \in DOMAIN Upstreams : /\ DOMAIN Upstreams[i] = Urls
                                 /\ \A u \in Urls : /\ Range(Upstreams[i][u]) \subseteq Sources
                                                    /\ Stubs \cap DOMAIN Upstreams[i][u] = {}
  /\ \A c \in Sources : c \notin Stubs /\ DepsOf[c] \in Seq(Known)
  /\ \A d \in Known : Rank[d.name] \in Nat
  /\ \A d \in Known : \/ d.name = Root
                      \/ IF IsGit(d) THEN d.name \in Names /\ d.url \in Urls ELSE d.rev \in Sources

\* What CrashesHeal takes for granted: the remotes never forget a commit and always know the
\* revs that manifests name, and a URL is known by one name only.
Lasting ==
  /\ \A s, t \in DOMAIN Upstreams : s <= t =>
       \A u \in Urls : Range(Upstreams[s][u]) \subseteq Range(Upstreams[t][u])
  /\ \A d \in Known : (IsGit(d) /\ d.name # Root) =>
       \A t \in DOMAIN Upstreams : d.rev \in DOMAIN Upstreams[t][d.url] \cup Range(Upstreams[t][d.url])
  /\ \A d, e \in Known : (IsGit(d) /\ IsGit(e) /\ d.url = e.url) => d.name = e.name

VARIABLES
  time,      \* the present state of the remotes, an index of Upstreams
  manifest,  \* the [deps] of eskiu.toml in order, or Torn
  lock,      \* the entries of eskiu.lock, or TornLock
  mirror,    \* per package, the bare mirror: [url, head, revs, has], or None or Removed
  tmp,       \* the COMMIT.tmp directories: [name, commit, files]
  cache,     \* the COMMIT directories: [name, commit, files]
  proc,      \* the command that runs
  last,      \* how the last command ended
  commands, faults

vars == <<time, manifest, lock, mirror, tmp, cache, proc, last, commands, faults>>
disk == <<manifest, lock, mirror, tmp, cache>>
world == <<time, commands>>

\* Files cut short in a way their readers report.
TornDep == [name |-> "torn", url |-> "", rev |-> ""]
Torn == <<TornDep>>
TornLock == {[name |-> "torn", url |-> "", rev |-> "", commit |-> ""]}
None == [url |-> "none", head |-> "unborn", revs |-> <<>>, has |-> {}]
Removed == [None EXCEPT !.url = "removed"]      \* the package's directory without a mirror
NoFile == {}
Idle == [at |-> "idle"]

Init ==
  /\ time = 1 /\ manifest = <<>> /\ lock = NoFile
  /\ mirror = [n \in Names |-> None] /\ tmp = {} /\ cache = {}
  /\ proc = Idle /\ last = "ok" /\ commands = 0 /\ faults = 0

Entry(d, c) == [name |-> d.name, url |-> d.url, rev |-> d.rev, commit |-> c]
Dirs(S, n, c) == {x \in S : x.name = n /\ x.commit = c}
Ended(how) == proc' = Idle /\ last' = how
Fault == faults < MaxFaults /\ faults' = faults + 1

-----------------------------------------------------------------------------
\* Starting a command. build and add read the lock, fetch ignores it.

Begin(cmd, deps, before) ==
  [at |-> "resolve", cmd |-> cmd, queue |-> [i \in DOMAIN deps |-> [dep |-> deps[i], by |-> Root]],
   lock |-> IF cmd = "fetch" THEN {} ELSE lock, done |-> {}, fresh |-> {}, revs |-> {},
   old |-> manifest, before |-> before, want |-> ""]

Reads(cmd) == manifest # Torn /\ (cmd = "fetch" \/ lock # TornLock)

Start(cmd) ==
  /\ proc = Idle /\ commands < MaxCommands
  /\ commands' = commands + 1
  /\ IF Reads(cmd) THEN proc' = Begin(cmd, manifest, lock) /\ last' = "running"
                   ELSE proc' = Idle /\ last' = "unreadable"
  /\ UNCHANGED <<disk, time, faults>>

\* A dependency that is there already is replaced where it stands.
Edited(d) ==
  IF \E i \in DOMAIN manifest : manifest[i].name = d.name
  THEN [i \in DOMAIN manifest |-> IF manifest[i].name = d.name THEN d ELSE manifest[i]]
  ELSE Append(manifest, d)

\* add opens the manifest for writing, which empties it if the disk lets it, ...
StartAdd ==
  \E d \in Adds :
    /\ proc = Idle /\ commands < MaxCommands /\ manifest # Torn
    /\ commands' = commands + 1
    /\ \/ /\ manifest' = Torn /\ last' = "running"
          /\ proc' = [Begin("add", Edited(d), lock) EXCEPT !.at = "edit"] /\ UNCHANGED faults
       \/ last' = "unwritten" /\ Fault /\ UNCHANGED <<manifest, proc>>
    /\ UNCHANGED <<lock, mirror, tmp, cache, time>>

\* What a write that the disk refuses half way leaves of a manifest: its first dependencies,
\* all of them at the most, or a text that does not read.
Cut(deps) == {Torn} \cup {SubSeq(deps, 1, n) : n \in 0 .. Len(deps)}

\* Mutant of Restored: a failed add keeps the new manifest.
notRestored(text) == text

Restored(text) == IF proc.cmd = "add" THEN proc.old ELSE text

\* What fails once add has written the manifest, now `text', puts the old one back; that this
\* write succeeds is not looked at. (A crash during it leaves what its failure leaves.)
GivesBack(text, why) == manifest' = Restored(text) /\ Ended(why)
Unrestored(text) == proc.cmd = "add" /\ manifest' \in {text} \cup Cut(proc.old) /\ Ended("unrestored")

FailsWith(text, why) ==
  \/ GivesBack(text, why) /\ UNCHANGED faults
  \/ Unrestored(text) /\ Fault

Fails(why) == FailsWith(manifest, why)

\* ... writes the text, which fails with an error or is cut short unnoticed, for writeText
\* looks at the stream before it is flushed; reads it back, and goes on as build does.
WriteManifest ==
  /\ proc.at = "edit"
  /\ LET deps == [i \in DOMAIN proc.queue |-> proc.queue[i].dep]
         goesOn(text) ==
           /\ text # Torn /\ lock # TornLock
           /\ manifest' = text /\ UNCHANGED last
           /\ proc' = [proc EXCEPT !.at = "resolve", !.queue = SubSeq(@, 1, Len(text))]
     IN \/ goesOn(deps) /\ UNCHANGED faults
        \/ lock = TornLock /\ FailsWith(deps, "unreadable")
        \/ \E text \in Cut(deps) :
             /\ Fault
             /\ \/ manifest' = text /\ Ended("unwritten")
                \/ goesOn(text)
                \/ text = Torn /\ (GivesBack(text, "unreadable") \/ Unrestored(text))
  /\ UNCHANGED <<lock, mirror, tmp, cache, world>>

-----------------------------------------------------------------------------
\* The mirror of a package: ensureMirror, lookup and refresh of Fetcher.

Remote(url) == Upstreams[time][url]

\* A mirror's HEAD names the branch `head'. That is the remote's default branch, called HEAD,
\* once the clone has set it; until then it is the branch that git init names on this
\* machine, which the remote may have too, or not.
Seen(url, head) ==
  LET R == Remote(url)
      of(r) == IF r = "HEAD" THEN head ELSE r
  IN [r \in {x \in DOMAIN R \cup {"HEAD"} : of(x) \in DOMAIN R} |-> R[of(r)]]

Cloned(url) == [url |-> url, head |-> "HEAD", revs |-> Remote(url), has |-> Range(Remote(url))]

\* The fetch renews the branches and the tags, and lets HEAD name what it names.
Fetched(m) ==
  LET new == Seen(m.url, m.head)
  IN [m EXCEPT !.revs = [r \in DOMAIN m.revs \cup DOMAIN new |-> IF r \in DOMAIN new THEN new[r] ELSE m.revs[r]],
               !.has = @ \cup Range(Remote(m.url))]

\* A clone cut short before its refs, or before its HEAD, was written.
Broken(url, head) == [url |-> url, head |-> head, revs |-> <<>>, has |-> {}]
CutClones(url) ==
  UNION {{Broken(url, h), Fetched(Broken(url, h))} : h \in DOMAIN Remote(url) \cup {"unborn"}}

lookup(m, rev) == IF rev \in DOMAIN m.revs THEN {m.revs[rev]} ELSE {rev} \cap m.has

\* The mirror is cloned if it is missing or of another URL, and fetched at most once a
\* command, for fetch or when the rev is not in it.
Asks(d, rev) ==
  LET m == mirror[d.name]
  IN m.url # d.url \/ (d.name \notin proc.fresh /\ (proc.cmd = "fetch" \/ lookup(m, rev) = {}))

\* Mutant of Usable: a mirror without the rev is not fetched again.
asItIs(d, rev) == IF mirror[d.name].url = d.url THEN mirror[d.name] ELSE Cloned(d.url)

Usable(d, rev) ==
  LET m == mirror[d.name]
  IN IF m.url # d.url THEN Cloned(d.url) ELSE IF Asks(d, rev) THEN Fetched(m) ELSE m

UseMirror(d, rev, Then(_)) ==
  LET m == Usable(d, rev)
      found == lookup(m, rev)
  IN \/ /\ mirror' = [mirror EXCEPT ![d.name] = m]
        /\ IF found = {} THEN Fails("no such rev")
           ELSE /\ proc' = [Then(CHOOSE c \in found : TRUE) EXCEPT
                              !.fresh = IF Asks(d, rev) THEN @ \cup {d.name} ELSE @]
                /\ UNCHANGED <<manifest, last, faults>>
     \/ /\ Asks(d, rev)                              \* the clone or the fetch fails
        /\ Fails("network")
        /\ mirror' = IF m.url = mirror[d.name].url THEN mirror ELSE [mirror EXCEPT ![d.name] = Removed]

-----------------------------------------------------------------------------
\* resolveAndLock: one dependency of the queue at a time.

item == Head(proc.queue)
Locked(d) == {e \in proc.lock : e.name = d.name /\ e.url = d.url /\ e.rev = d.rev}

\* Mutant of Commit: a commit is always resolved again.
resolvesAgain(d) == {r.commit : r \in {x \in proc.revs : x.url = d.url /\ x.rev = d.rev}}

\* The commit known for a dependency without git: the locked one, or one resolved before.
Commit(d) ==
  IF Locked(d) # {} THEN {e.commit : e \in Locked(d)}
  ELSE {r.commit : r \in {x \in proc.revs : x.url = d.url /\ x.rev = d.rev}}

\* Mutant of Requires: only git packages bring their dependencies.
gitRequires(e) == IF IsGit(e) /\ e.commit \notin Stubs THEN DepsOf[e.commit] ELSE <<>>

\* The manifest of a package in its directory; there is none for a commit cut short.
Requires(e) == IF e.commit \in Stubs THEN <<>> ELSE DepsOf[e.commit]

\* The item is done: a second requirer must agree with the first.
Accept(e) ==
  LET rest == Tail(proc.queue)
      prev == {x \in proc.done : x.name = e.name}
  IN IF prev = {}
     THEN /\ proc' = [proc EXCEPT !.at = "resolve", !.done = @ \cup {e},
                        !.queue = rest \o [i \in DOMAIN Requires(e) |-> [dep |-> Requires(e)[i], by |-> e.name]]]
          /\ UNCHANGED <<manifest, last, faults>>
     ELSE IF \A x \in prev : IsGit(x) = IsGit(e) /\ x.commit = e.commit
     THEN proc' = [proc EXCEPT !.at = "resolve", !.queue = rest] /\ UNCHANGED <<manifest, last, faults>>
     ELSE Fails("conflict")

\* The mirror's answer becomes the commit to check out.
AskMirror(d) ==
  UseMirror(d, d.rev, LAMBDA c : [proc EXCEPT !.at = "checkout", !.want = c,
                                    !.revs = @ \cup {[url |-> d.url, rev |-> d.rev, commit |-> c]}])

Resolve ==
  /\ proc.at = "resolve" /\ proc.queue # <<>>
  /\ LET d == item.dep
     IN IF d.name = Root
        THEN proc' = [proc EXCEPT !.queue = Tail(@)] /\ UNCHANGED <<manifest, mirror, last, faults>>
        ELSE IF ~IsGit(d) THEN Accept(Entry(d, d.rev)) /\ UNCHANGED mirror
        ELSE IF Commit(d) # {}
        THEN /\ proc' = [proc EXCEPT !.at = "checkout", !.want = CHOOSE c \in Commit(d) : TRUE]
             /\ UNCHANGED <<manifest, mirror, last, faults>>
        ELSE AskMirror(d)
  /\ UNCHANGED <<lock, tmp, cache, world>>

\* checkout: nothing to do for a directory that is there, else the mirror must have the commit.
\* The directory of an empty commit is the package's own.
Present(d) ==
  \/ Dirs(cache, d.name, proc.want) # {}
  \/ proc.want = "empty" /\ mirror[d.name] # None

HasCommit(d) == UseMirror(d, proc.want, LAMBDA c : [proc EXCEPT !.at = "clone"])

Checkout ==
  /\ proc.at = "checkout"
  /\ LET d == item.dep
     IN IF Present(d)
        THEN Accept(Entry(d, proc.want)) /\ UNCHANGED mirror
        ELSE HasCommit(d)
  /\ UNCHANGED <<lock, tmp, cache, world>>

Dir(files) == [name |-> item.dep.name, commit |-> proc.want, files |-> files]

\* Mutant of Cleared: what a crash left is not removed.
uncleared == tmp

Cleared == tmp \ Dirs(tmp, item.dep.name, proc.want)

\* Each of the next three steps may fail, and then COMMIT.tmp is removed.
FailsCheckout == Fails("no checkout") /\ tmp' = Cleared

\* git clone --no-checkout into COMMIT.tmp, after what was there is removed.
Clone ==
  /\ proc.at = "clone"
  /\ \/ IF Dirs(Cleared, item.dep.name, proc.want) # {}
        THEN Fails("leftover") /\ UNCHANGED tmp
        ELSE /\ tmp' = Cleared \cup {Dir("cloned")}
             /\ proc' = [proc EXCEPT !.at = "files"] /\ UNCHANGED <<manifest, last, faults>>
     \/ FailsCheckout
  /\ UNCHANGED <<lock, mirror, cache, world>>

\* Mutant of Publish: the directory is renamed before its files are checked out.
publishFirst == proc.at = "files" /\ cache' = cache \cup Dirs(tmp, item.dep.name, proc.want)

Publish == proc.at = "rename" /\ cache' = cache \cup Dirs(tmp, item.dep.name, proc.want)

\* git checkout fills it, and the rename makes it the directory of the commit.
FillFiles ==
  /\ proc.at = "files"
  /\ \/ /\ tmp' = Cleared \cup {Dir("whole")}
        /\ proc' = [proc EXCEPT !.at = "rename"] /\ UNCHANGED <<manifest, last, faults>>
     \/ FailsCheckout
  /\ UNCHANGED <<lock, mirror, cache, world>>

Rename ==
  /\ \/ /\ Publish
        /\ tmp' = tmp \ Dirs(tmp, item.dep.name, proc.want)
        /\ proc' = [proc EXCEPT !.at = "checkout"] /\ UNCHANGED <<manifest, last, faults>>
     \/ proc.at = "rename" /\ FailsCheckout /\ UNCHANGED cache
  /\ UNCHANGED <<lock, mirror, world>>

\* What is left of a lock that was not written to its end: its first entries, by name, and then
\* nothing, a line that does not read, or an entry whose commit is cut short, which reads.
Before(L, e) == {x \in L : Rank[x.name] < Rank[e.name]}
CutLocks(L) ==
  {L, TornLock} \cup {Before(L, e) : e \in L}
    \cup {Before(L, e) \cup {[e EXCEPT !.commit = c]} : e \in {x \in L : IsGit(x)}, c \in Stubs}

\* writeLock: a lock with the same text is left alone; else it is emptied, then written.
OpenLock ==
  /\ proc.at = "resolve" /\ proc.queue = <<>> /\ proc.done # lock
  /\ \/ lock' = TornLock /\ proc' = [proc EXCEPT !.at = "lock"] /\ UNCHANGED <<manifest, last, faults>>
     \/ UNCHANGED lock /\ Fault /\ (GivesBack(manifest, "unwritten") \/ Unrestored(manifest))
  /\ UNCHANGED <<mirror, tmp, cache, world>>

\* A lock cut short is an error, or is not noticed (writeText) and the command goes on.
Done ==
  /\ \/ /\ proc.at = "lock" \/ (proc.at = "resolve" /\ proc.queue = <<>> /\ proc.done = lock)
        /\ lock' = proc.done /\ Ended("ok") /\ UNCHANGED <<manifest, faults>>
     \/ /\ proc.at = "lock" /\ lock' \in CutLocks(proc.done) /\ Fault
        /\ \/ GivesBack(manifest, "unwritten") \/ Unrestored(manifest)
           \/ Ended("lost") /\ UNCHANGED manifest
  /\ UNCHANGED <<mirror, tmp, cache, world>>

-----------------------------------------------------------------------------
\* A crash. What was being written is cut short: the manifest, the lock, a mirror or a
\* checkout directory stays half made.
Clones ==
  LET d == item.dep
  IN /\ proc.at \in {"resolve", "checkout"} /\ proc.queue # <<>>
     /\ IsGit(d) /\ d.name # Root /\ mirror[d.name].url # d.url
     /\ IF proc.at = "resolve" THEN Commit(d) = {} ELSE ~Present(d)

Crash ==
  /\ proc # Idle /\ Fault /\ Ended("crashed")
  /\ manifest' \in IF proc.at = "edit" THEN Cut([i \in DOMAIN proc.queue |-> proc.queue[i].dep]) ELSE {manifest}
  /\ lock' \in IF proc.at = "lock" THEN CutLocks(proc.done) ELSE {lock}
  /\ mirror' \in {mirror} \cup
       (IF Clones THEN {[mirror EXCEPT ![item.dep.name] = m] : m \in {Removed} \cup CutClones(item.dep.url)} ELSE {})
  /\ tmp' \in {tmp} \cup (IF proc.at \in {"clone", "files"} THEN {Cleared \cup {Dir("part")}} ELSE {})
  /\ UNCHANGED <<cache, time, commands>>

\* The user writes the manifest again, or the remotes move on.
RepairManifest ==
  /\ proc = Idle /\ manifest = Torn
  /\ manifest' = <<>> /\ UNCHANGED <<lock, mirror, tmp, cache, proc, last, faults, world>>

\* The package, with its lock, is taken to a machine that has no checkouts yet.
NewMachine ==
  /\ proc = Idle /\ cache # {}
  /\ mirror' = [n \in Names |-> None] /\ tmp' = {} /\ cache' = {}
  /\ last' = "new machine"
  /\ UNCHANGED <<manifest, lock, proc, faults, world>>

Push ==
  /\ time < Len(Upstreams)
  /\ time' = time + 1 /\ UNCHANGED <<disk, proc, last, commands, faults>>

Next ==
  \/ Start("build") \/ Start("fetch") \/ StartAdd \/ WriteManifest
  \/ Resolve \/ Checkout \/ Clone \/ FillFiles \/ Rename \/ OpenLock \/ Done
  \/ Crash \/ RepairManifest \/ NewMachine \/ Push

Spec == Init /\ [][Next]_vars

-----------------------------------------------------------------------------
Ends == proc # Idle /\ proc' = Idle

(* A COMMIT directory is the whole commit at every moment, whatever crashed: the *)
(* compilers and every later command use it as soon as it exists. (checkout,     *)
(* pkg.cpp)                                                                      *)
CacheComplete == \A d \in cache : d.files = "whole"

LockNames(L) == {e.name : e \in L} \cup {Root}
Closed(L) ==
  /\ \A i \in DOMAIN manifest : manifest[i].name \in LockNames(L)
  /\ \A e \in L : e.commit \notin Stubs =>
       \A i \in DOMAIN DepsOf[e.commit] : DepsOf[e.commit][i].name \in LockNames(L)

(* A command that succeeds leaves a closed lock: every dependency of the manifest *)
(* and of the packages it names has its entry, and each package it pins to a      *)
(* whole commit is checked out. Success is that of the lock's last write, too: a  *)
(* command that did not notice its failure ends "lost". (resolveAndLock, pkg.cpp) *)
LockCloses ==
  (proc = Idle /\ last = "ok" /\ commands > 0) =>
    /\ Closed(lock)
    /\ \A e \in lock : (IsGit(e) /\ e.commit \notin Stubs) => Dirs(cache, e.name, e.commit) # {}

(* A command other than fetch never moves a pinned dependency to another commit, *)
(* not even one whose lock is cut short. (the lock test of resolveAndLock,       *)
(* pkg.cpp; getting-started.md: "Later builds use the locked commits")           *)
KeepsPins ==
  (Ends /\ last' = "ok" /\ proc.cmd # "fetch") =>
    \A e \in proc.before : \A x \in lock' :
      (x.name = e.name /\ x.url = e.url /\ x.rev = e.rev) => x.commit = e.commit

LockPins == [][KeepsPins]_vars

(* A build of a package whose lock pins all it needs does not depend on where the *)
(* remotes have moved to since. (getting-started.md:1309, of resolveAndLock)      *)
BuildsPinned ==
  (Ends /\ proc.cmd = "build" /\ proc.before # TornLock /\ Closed(proc.before)) => last' # "conflict"

PinnedBuilds == [][BuildsPinned]_vars

(* A command that reports an error leaves the manifest and the lock as it found  *)
(* them, but for the file that the disk refuses: the lock once its writing has   *)
(* begun, and then the manifest is still put back; the manifest when its own     *)
(* writing, or its putting back, fails. (the catch of cmdAdd, and writeLock as   *)
(* the last step, pkg.cpp)                                                       *)
FailsCleanly ==
  (Ends /\ last' \notin {"ok", "lost", "crashed"}) =>
    /\ manifest' = proc.old \/ last' = "unrestored" \/ (last' = "unwritten" /\ proc.at = "edit")
    /\ lock' = proc.before \/ proc.at = "lock"

FailureChangesNothing == [][FailsCleanly]_vars

(* What crashes and refused writes leave behind makes no later command fail: a   *)
(* half made checkout is removed and a half made mirror is fetched again. Two    *)
(* things heal only by hand, and are all that may be missing: the HEAD of a      *)
(* mirror whose clone was cut short before it was set, which no fetch renews,    *)
(* and a commit that is cut short in the lock, which stays until eskiuc fetch.   *)
(* (checkout, ensureMirror, refresh and resolveRev, pkg.cpp)                     *)
Heals ==
  Ends => /\ last' # "leftover"
          /\ last' = "no such rev" =>
               \/ item.dep.rev = "HEAD" /\ mirror'[item.dep.name].head # "HEAD"
               \/ proc.at = "checkout" /\ proc.cmd # "fetch" /\ proc.want \in Stubs

CrashesHeal == [][Heals]_vars
=============================================================================
