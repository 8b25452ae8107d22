--------------------------- MODULE PackagesProofs ---------------------------
(***************************************************************************)
(* Proofs about Packages.tla, for any packages, remotes, manifests and     *)
(* numbers of commands and faults that are WellFormed.  IInv is the        *)
(* inductive invariant: Shape types the disk and the command in progress;  *)
(* Control says what each step may rely on; Kept says what a failure       *)
(* leaves alone; Pins and Closing relate the entries that are done and the *)
(* queue to the lock and to the manifests.  Healing, which needs remotes   *)
(* that keep what they have (Lasting), says what the mirrors hold.         *)
(***************************************************************************)
EXTENDS Packages, SequenceTheorems, TLAPS

Pinnable == Sources \cup Stubs
Entries == {Entry(d, c) : d \in Known, c \in Pinnable}
Items == [dep : Known, by : {Root} \cup {d.name : d \in Known}]
Revs == {"HEAD"} \cup UNION {DOMAIN Upstreams[i][u] : i \in DOMAIN Upstreams, u \in Urls}
Refs ==
  {<<>>} \cup {Upstreams[i][u] : i \in DOMAIN Upstreams, u \in Urls} \cup UNION {[D -> Sources] : D \in SUBSET Revs}
Mirrors ==
  [url : Urls \cup {"none", "removed"}, head : Revs \cup {"unborn"}, revs : Refs, has : SUBSET Sources]
Locks == (SUBSET Entries) \cup {TornLock}
Revisions == [url : Urls, rev : {d.rev : d \in Known}, commit : Sources]
Fetching == {"checkout", "clone", "files", "rename"}
Command ==
  [at : {"edit", "resolve", "lock"} \cup Fetching, cmd : {"build", "fetch", "add"}, queue : Seq(Items),
   lock : Locks, done : SUBSET Entries, fresh : SUBSET Names, revs : SUBSET Revisions,
   old : Seq(Known), before : Locks, want : Pinnable \cup {""}]

Shape ==
  /\ time \in DOMAIN Upstreams
  /\ manifest \in Seq(Known) \cup {Torn}
  /\ lock \in Locks
  /\ mirror \in [Names -> Mirrors]
  /\ proc \in Command \cup {Idle}

(* What a command has made sure of before a step.                           *)
Control ==
  /\ proc.at = "edit" => proc.cmd = "add" /\ proc.done = {} /\ proc.lock = lock
  /\ proc.at \notin {"idle", "edit"} => proc.lock # TornLock /\ manifest \in Seq(Known)
  /\ proc.at \in Fetching =>
       /\ proc.queue # <<>> /\ proc.want \in Pinnable
       /\ IsGit(item.dep) /\ item.dep.name \in Names
  /\ proc.at = "rename" => \A x \in Dirs(tmp, item.dep.name, proc.want) : x.files = "whole"
  /\ proc.at = "lock" => proc.queue = <<>>

(* What a command that fails will leave as it was.                          *)
Kept ==
  /\ proc.at \notin {"idle", "lock"} => lock = proc.before
  /\ proc # Idle /\ proc.cmd # "add" => manifest = proc.old

(* A lock has one entry per package, and a directory is its own commit.     *)
Regular(L) ==
  /\ \A x, y \in L : x.name = y.name => x = y
  /\ \A x \in L : ~IsGit(x) => x.commit = x.rev

Pins ==
  /\ Regular(lock)
  /\ proc # Idle =>
       /\ Regular(proc.before) /\ Regular(proc.lock) /\ Regular(proc.done)
       /\ proc.lock = IF proc.cmd = "fetch" THEN {} ELSE proc.before
       /\ \A x \in proc.done, e \in proc.lock :
            (x.name = e.name /\ x.url = e.url /\ x.rev = e.rev) => x.commit = e.commit
  /\ proc.at \in Fetching => \A e \in Locked(item.dep) : e.commit = proc.want

(* Every dependency known so far is done or queued, and what is done is     *)
(* checked out.                                                             *)
Reached == LockNames(proc.done) \cup {proc.queue[i].dep.name : i \in DOMAIN proc.queue}
CheckedOut(L) == \A e \in L : (IsGit(e) /\ e.commit \notin Stubs) => Dirs(cache, e.name, e.commit) # {}
Closing ==
  proc # Idle =>
    /\ proc.at # "edit" => \A i \in DOMAIN manifest : manifest[i].name \in Reached
    /\ \A e \in proc.done : \A i \in DOMAIN Requires(e) : Requires(e)[i].name \in Reached
    /\ CheckedOut(proc.done)

IInv == Shape /\ Control /\ CacheComplete /\ Kept /\ Pins /\ Closing /\ LockCloses

-----------------------------------------------------------------------------
(* What a fetch sees of a remote: all of it, but for the HEAD of a mirror   *)
(* that names another branch.                                               *)
LEMMA SeenFacts ==
  ASSUME WellFormed, Shape, NEW url \in Urls, NEW head
  PROVE  LET R == Remote(url)
             new == Seen(url, head)
         IN /\ DOMAIN new \subseteq Revs
            /\ \A r \in DOMAIN new : new[r] \in Range(R)
            /\ \A r \in DOMAIN R : r \in DOMAIN new \/ (r = "HEAD" /\ head # "HEAD")
            /\ Range(R) \subseteq Sources
<1> DEFINE R == Remote(url)
           of(r) == IF r = "HEAD" THEN head ELSE r
           D == {x \in DOMAIN R \cup {"HEAD"} : of(x) \in DOMAIN R}
<1>1. Seen(url, head) = [r \in D |-> R[of(r)]]
  BY Zenon DEF Seen
<1>2. DOMAIN R \subseteq Revs /\ Range(R) \subseteq Sources
  BY DEF WellFormed, Shape, Remote, Revs
<1>3. \A r \in D : R[of(r)] \in Range(R)
  BY DEF Range
<1>4. D \subseteq Revs
  BY <1>2 DEF Revs
<1>5. \A r \in DOMAIN R : r \in D \/ (r = "HEAD" /\ head # "HEAD")
  OBVIOUS
<1> QED
  BY <1>1, <1>2, <1>3, <1>4, <1>5

(* A fetch adds what it sees to the mirror.                                 *)
LEMMA FetchedFacts ==
  ASSUME WellFormed, Shape, NEW m \in Mirrors, m.url \in Urls
  PROVE  LET R == Remote(m.url)
             f == Fetched(m)
         IN /\ f \in Mirrors /\ f.url = m.url /\ f.head = m.head /\ f.has = m.has \cup Range(R)
            /\ Range(f.revs) \subseteq Range(m.revs) \cup Range(R)
            /\ \A r \in DOMAIN R : r \in DOMAIN f.revs \/ (r = "HEAD" /\ f.head # "HEAD")
<1> DEFINE R == Remote(m.url)
           new == Seen(m.url, m.head)
           D == DOMAIN m.revs \cup DOMAIN new
           revs == [r \in D |-> IF r \in DOMAIN new THEN new[r] ELSE m.revs[r]]
           f == Fetched(m)
<1>1. f = [m EXCEPT !.revs = revs, !.has = m.has \cup Range(R)]
  BY Zenon DEF Fetched
<1>2. /\ DOMAIN new \subseteq Revs /\ Range(R) \subseteq Sources
      /\ \A r \in DOMAIN new : new[r] \in Range(R)
      /\ \A r \in DOMAIN R : r \in DOMAIN new \/ (r = "HEAD" /\ m.head # "HEAD")
  BY SeenFacts, Zenon
<1>3. m.revs \in Refs /\ m.has \subseteq Sources
  BY DEF Mirrors
<1>4. DOMAIN m.revs \subseteq Revs /\ \A r \in DOMAIN m.revs : m.revs[r] \in Sources
  BY <1>3 DEF Refs, Revs, WellFormed, Range
<1> HIDE DEF new
<1>5. revs \in [D -> Sources] /\ D \in SUBSET Revs
  BY <1>2, <1>4
<1>6. Range(revs) \subseteq Range(m.revs) \cup Range(R) /\ DOMAIN new \subseteq DOMAIN revs
  BY <1>2 DEF Range
<1> HIDE DEF revs, D, R, f
<1>7. revs \in Refs /\ m.has \cup Range(R) \in SUBSET Sources
  BY <1>2, <1>3, <1>5 DEF Refs
<1>8. /\ f \in Mirrors /\ f.url = m.url /\ f.head = m.head /\ f.has = m.has \cup Range(R)
      /\ f.revs = revs
  BY <1>1, <1>7 DEF Mirrors
<1> QED
  BY <1>2, <1>6, <1>8 DEF R, f

(* A clone cut short knows some of the remote, or nothing.                  *)
LEMMA CutCloneFacts ==
  ASSUME WellFormed, Shape, NEW url \in Urls, NEW m \in CutClones(url)
  PROVE  m \in Mirrors /\ m.url = url /\ Range(m.revs) \subseteq m.has /\ m.has \subseteq Range(Remote(url))
<1>1. PICK h \in DOMAIN Remote(url) \cup {"unborn"} : m = Broken(url, h) \/ m = Fetched(Broken(url, h))
  BY DEF CutClones
<1> DEFINE b == Broken(url, h)
<1>2. DOMAIN Remote(url) \subseteq Revs
  BY DEF WellFormed, Shape, Remote, Revs
<1>3. b \in Mirrors /\ b.url = url /\ b.revs = <<>> /\ b.has = {} /\ Range(<<>>) = {}
  BY <1>1, <1>2 DEF Broken, Mirrors, Refs, Range
<1> HIDE DEF b
<1>4. m = b \/ m = Fetched(b)
  BY <1>1 DEF b
<1>5. LET f == Fetched(b)
      IN /\ f \in Mirrors /\ f.url = url /\ f.has = b.has \cup Range(Remote(url))
         /\ Range(f.revs) \subseteq Range(b.revs) \cup Range(Remote(url))
  BY <1>3, FetchedFacts
<1> QED
  BY <1>3, <1>4, <1>5

(* The mirrors that are not there.                                          *)
LEMMA NoMirror ==
  /\ None \in Mirrors /\ None.url = "none" /\ None.revs = <<>> /\ None.has = {}
  /\ Removed \in Mirrors /\ Removed.url = "removed" /\ Removed.revs = <<>> /\ Removed.has = {}
BY DEF None, Removed, Mirrors, Refs

(* What a mirror gives.                                                     *)
LEMMA MirrorFacts ==
  ASSUME WellFormed, Shape, NEW d \in Known, IsGit(d), d.name # Root, NEW rev
  PROVE  /\ Usable(d, rev) \in Mirrors
         /\ lookup(Usable(d, rev), rev) \subseteq Sources
<1>1. d.name \in Names /\ d.url \in Urls
  BY DEF WellFormed
<1>2. Remote(d.url) \in Refs /\ Range(Remote(d.url)) \subseteq Sources
  BY <1>1 DEF WellFormed, Shape, Remote, Refs
<1>3. mirror[d.name] \in Mirrors
  BY <1>1 DEF Shape
<1>4. Cloned(d.url) \in Mirrors
  BY <1>1, <1>2 DEF Cloned, Mirrors, Revs
<1>5. mirror[d.name].url = d.url => Fetched(mirror[d.name]) \in Mirrors
  BY <1>1, <1>3, FetchedFacts
<1>6. Usable(d, rev) \in Mirrors
  BY <1>3, <1>4, <1>5 DEF Usable
<1>7. \A m \in Mirrors : lookup(m, rev) \subseteq Sources
  <2>1. \A R \in Refs : \A r \in DOMAIN R : R[r] \in Sources
    BY DEF Refs, WellFormed, Range
  <2> QED
    BY <2>1 DEF Mirrors, lookup
<1> QED
  BY <1>6, <1>7

(* A command is at one of its steps.                                        *)
LEMMA Stepping ==
  ASSUME Shape, proc # Idle
  PROVE  /\ proc \in Command /\ proc.at # "idle" /\ proc.queue \in Seq(Items)
         /\ proc.queue # <<>> => /\ item \in Items /\ item.dep \in Known
                                 /\ Tail(proc.queue) \in Seq(Items)
<1>1. proc \in Command
  BY DEF Shape
<1>2. proc.queue \in Seq(Items) /\ proc.at # "idle"
  BY <1>1 DEF Command, Fetching
<1>3. proc.queue # <<>> => item \in Items /\ Tail(proc.queue) \in Seq(Items)
  BY <1>2 DEF item
<1> QED
  BY <1>1, <1>2, <1>3 DEF Items

(* The fields of an entry are those of its dependency, and its commit.      *)
LEMMA EntryFacts ==
  /\ \A e \in Entries : /\ e.commit \in Pinnable /\ e.name \in {d.name : d \in Known}
                         /\ e = [name |-> e.name, url |-> e.url, rev |-> e.rev, commit |-> e.commit]
  /\ \A d \in Known, c \in Pinnable : Entry(d, c) \in Entries
  /\ \A d, c : /\ Entry(d, c).name = d.name /\ Entry(d, c).url = d.url /\ Entry(d, c).rev = d.rev
               /\ Entry(d, c).commit = c
  /\ \A e \in Entries, c \in Pinnable :
       LET n == [e EXCEPT !.commit = c]
       IN n \in Entries /\ n.name = e.name /\ n.url = e.url /\ n.rev = e.rev /\ n.commit = c
<1>1. \A d, c : /\ Entry(d, c).name = d.name /\ Entry(d, c).url = d.url /\ Entry(d, c).rev = d.rev
               /\ Entry(d, c).commit = c
  BY DEF Entry
<1>2. \A e \in Entries, c \in Pinnable :
        LET n == [e EXCEPT !.commit = c]
        IN n \in Entries /\ n.name = e.name /\ n.url = e.url /\ n.rev = e.rev /\ n.commit = c
  BY DEF Entries, Entry
<1> QED
  BY <1>1, <1>2 DEF Entries, Entry

(* What an entry brings, if it brings anything, are dependencies.           *)
LEMMA RequiresFacts == ASSUME WellFormed, NEW e, e.commit \in Pinnable PROVE Requires(e) \in Seq(Known)
BY DEF WellFormed, Requires, Pinnable

(* The beginning of a list of dependencies.                                 *)
LEMMA CutFacts ==
  ASSUME NEW S, NEW s \in Seq(S), NEW n \in 0 .. Len(s)
  PROVE  LET t == SubSeq(s, 1, n)
         IN t \in Seq(S) /\ DOMAIN t = 1 .. n /\ n = Len(t) /\ \A i \in 1 .. n : t[i] = s[i]
<1>1. 1 \in Int /\ n \in Int /\ \A i \in 1 .. n : s[i] \in S
  OBVIOUS
<1>2. /\ SubSeq(s, 1, n) \in Seq(S)
      /\ Len(SubSeq(s, 1, n)) = IF 1 <= n THEN n - 1 + 1 ELSE 0
      /\ \A i \in 1 .. n - 1 + 1 : SubSeq(s, 1, n)[i] = s[1 + i - 1]
  BY <1>1, SubSeqProperties
<1> DEFINE t == SubSeq(s, 1, n)
<1> HIDE DEF t
<1>3. t \in Seq(S) /\ Len(t) = n /\ \A i \in 1 .. n : t[i] = s[i]
  BY <1>2 DEF t
<1> QED
  BY <1>3 DEF t

(* What is left of a manifest that is not written to its end.               *)
LEMMA CutsFacts ==
  ASSUME NEW deps \in Seq(Known), NEW text \in Cut(deps)
  PROVE  text \in Seq(Known) \cup {Torn}
BY CutFacts DEF Cut

(* What is left of a lock that is not written to its end.                   *)
LEMMA CutLockFacts ==
  ASSUME WellFormed, NEW L \in SUBSET Entries, NEW K \in CutLocks(L)
  PROVE  /\ K \in Locks
         /\ K = TornLock \/ \A x \in K : x \in L \/ (IsGit(x) /\ x.commit \in Stubs /\ \E e \in L : x.url = e.url)
         /\ Regular(L) => Regular(K)
<1> DEFINE part(e) == Before(L, e)
           stub(e, c) == part(e) \cup {[e EXCEPT !.commit = c]}
<1>1. \/ K = L \/ K = TornLock \/ \E e \in L : K = part(e)
      \/ \E e \in L, c \in Stubs : IsGit(e) /\ K = stub(e, c)
  BY DEF CutLocks
<1>2. Regular(TornLock)
  BY DEF Regular, TornLock, IsGit
<1>3. CASE K = L \/ K = TornLock
  BY <1>2, <1>3 DEF Locks
<1>4. ASSUME NEW e \in L, K = part(e)
      PROVE  K \subseteq L
  BY <1>4 DEF Before
<1>5. ASSUME NEW e \in L, NEW c \in Stubs, IsGit(e), K = stub(e, c)
      PROVE  /\ K \in Locks
             /\ \A x \in K : x \in L \/ (IsGit(x) /\ x.commit \in Stubs /\ \E y \in L : x.url = y.url)
             /\ Regular(L) => Regular(K)
  <2> DEFINE n == [e EXCEPT !.commit = c]
  <2>1. n \in Entries /\ n.name = e.name /\ n.url = e.url /\ n.rev = e.rev /\ n.commit = c
    BY EntryFacts DEF Pinnable
  <2>2. \A x \in part(e) : x \in L /\ x.name # e.name
    <3>1. Rank[e.name] \in Nat
      BY EntryFacts DEF WellFormed
    <3> QED
      BY <3>1 DEF Before
  <2>3. IsGit(n)
    BY <1>5, <2>1 DEF IsGit
  <2>4. K = part(e) \cup {n}
    BY <1>5
  <2> HIDE DEF n, part
  <2>5. Regular(L) => Regular(K)
    BY <2>1, <2>2, <2>3, <2>4 DEF Regular
  <2> QED
    BY <2>1, <2>2, <2>3, <2>4, <2>5 DEF Locks
<1> HIDE DEF part, stub
<1>6. \A M : M \subseteq L => M \in Locks /\ (Regular(L) => Regular(M))
  BY DEF Locks, Regular
<1> QED
  BY <1>1, <1>3, <1>4, <1>5, <1>6

-----------------------------------------------------------------------------
(* What a step may do to the command in progress, field by field.           *)
Stays(at) ==
  /\ proc' \in Command /\ proc'.at = at /\ proc'.cmd = proc.cmd
  /\ proc'.lock = proc.lock /\ proc'.old = proc.old /\ proc'.before = proc.before
Waits == proc'.queue = proc.queue /\ proc'.done = proc.done
Skips == Stays("resolve") /\ proc'.queue = Tail(proc.queue) /\ proc'.done = proc.done
Chooses ==
  /\ IsGit(item.dep) /\ item.dep.name # Root /\ Stays("checkout") /\ Waits /\ proc'.want \in Pinnable
  /\ Locked(item.dep) # {} => \E e \in Locked(item.dep) : proc'.want = e.commit
Brings(e) ==
  /\ Stays("resolve") /\ proc'.done = proc.done \cup {e}
  /\ \A x \in proc.done : x.name # e.name
  /\ proc'.queue = Tail(proc.queue) \o [i \in DOMAIN Requires(e) |-> [dep |-> Requires(e)[i], by |-> e.name]]
Repeats(e) == Skips /\ \E x \in proc.done : x.name = e.name
GivesUp ==
  /\ proc' = Idle /\ last' # "ok"
  /\ \/ manifest' = Restored(manifest)
     \/ proc.cmd = "add" /\ last' = "unrestored" /\ manifest' \in {manifest} \cup Cut(proc.old)

(* A failure is reported, and the old manifest put back if that succeeds.   *)
LEMMA FailsFacts ==
  ASSUME NEW why, why # "ok", Fails(why)
  PROVE  GivesUp /\ last' \in {why, "unrestored"}
BY Zenon DEF Fails, FailsWith, GivesBack, Unrestored, Ended, GivesUp

(* Accept ends the item: it is brought, was there already, or is a conflict. *)
LEMMA AcceptCases ==
  ASSUME WellFormed, Shape, proc # Idle, proc.queue # <<>>, NEW c \in Pinnable, Accept(Entry(item.dep, c))
  PROVE  \/ GivesUp /\ last' \in {"conflict", "unrestored"}
         \/ UNCHANGED <<manifest, last>> /\ (Brings(Entry(item.dep, c)) \/ Repeats(Entry(item.dep, c)))
<1> DEFINE e == Entry(item.dep, c)
           prev == {x \in proc.done : x.name = e.name}
           more == [i \in DOMAIN Requires(e) |-> [dep |-> Requires(e)[i], by |-> e.name]]
<1>1. /\ proc \in Command /\ item.dep \in Known /\ Tail(proc.queue) \in Seq(Items)
      /\ e \in Entries /\ e.commit = c
  BY Stepping, EntryFacts
<1>2. CASE prev = {}
  <2>1. /\ proc' = [proc EXCEPT !.at = "resolve", !.done = @ \cup {e}, !.queue = Tail(proc.queue) \o more]
        /\ UNCHANGED <<manifest, last>>
    BY <1>2, Zenon DEF Accept
  <2>2. more \in Seq(Items)
    <3>1. Requires(e) \in Seq(Known)
      BY <1>1, RequiresFacts
    <3>2. e.name \in {d.name : d \in Known}
      BY <1>1, EntryFacts
    <3> DEFINE R == Requires(e)  by == e.name
    <3> HIDE DEF R, by, e
    <3>3. \A i \in DOMAIN R : [dep |-> R[i], by |-> by] \in Items
      BY <3>1, <3>2 DEF Items, R, by
    <3> QED
      BY <3>1, <3>3 DEF R, by
  <2>3. Tail(proc.queue) \o more \in Seq(Items)
    BY <1>1, <2>2
  <2> HIDE DEF e, more
  <2>4. /\ Stays("resolve") /\ proc'.done = proc.done \cup {e} /\ proc'.queue = Tail(proc.queue) \o more
    BY <1>1, <2>1, <2>3 DEF Stays, Command
  <2> QED
    BY <1>2, <2>1, <2>4, Zenon DEF Brings, e, more
<1>3. CASE prev # {} /\ \A x \in prev : IsGit(x) = IsGit(e) /\ x.commit = e.commit
  <2>1. proc' = [proc EXCEPT !.at = "resolve", !.queue = Tail(proc.queue)] /\ UNCHANGED <<manifest, last>>
    BY <1>3, Zenon DEF Accept
  <2> QED
    BY <1>1, <1>3, <2>1 DEF Repeats, Skips, Stays, Command
<1>4. CASE prev # {} /\ ~\A x \in prev : IsGit(x) = IsGit(e) /\ x.commit = e.commit
  <2>1. Fails("conflict")
    BY <1>4, Zenon DEF Accept
  <2> QED
    BY <2>1, FailsFacts
<1> QED
  BY <1>2, <1>3, <1>4

(* A rev the mirror answers is chosen; a failed clone or fetch ends the command. *)
LEMMA AskMirrorCases ==
  ASSUME WellFormed, Shape, proc # Idle, proc.queue # <<>>, IsGit(item.dep), item.dep.name # Root,
         AskMirror(item.dep)
  PROVE  /\ mirror' \in [Names -> Mirrors]
         /\ \/ GivesUp /\ last' \in {"network", "unrestored"}
            \/ /\ GivesUp /\ last' \in {"no such rev", "unrestored"}
               /\ lookup(Usable(item.dep, item.dep.rev), item.dep.rev) = {}
               /\ mirror' = [mirror EXCEPT ![item.dep.name] = Usable(item.dep, item.dep.rev)]
            \/ UNCHANGED <<manifest, last>> /\ Stays("checkout") /\ Waits /\ proc'.want \in Pinnable
<1> DEFINE d == item.dep
           m == Usable(d, d.rev)
           asks == Asks(d, d.rev)
           found == lookup(m, d.rev)
           c == CHOOSE x \in found : TRUE
           revs == proc.revs \cup {[url |-> d.url, rev |-> d.rev, commit |-> c]}
           Then == [proc EXCEPT !.at = "checkout", !.want = c, !.revs = revs]
<1>1. proc \in Command /\ d \in Known
  BY Stepping
<1>2. m \in Mirrors /\ found \subseteq Sources
  BY <1>1, MirrorFacts
<1>3. d.name \in Names /\ d.url \in Urls /\ Removed \in Mirrors
  BY <1>1, NoMirror DEF WellFormed
<1>4. \/ /\ found # {} /\ mirror' = [mirror EXCEPT ![d.name] = m]
         /\ proc' = [Then EXCEPT !.fresh = IF asks THEN @ \cup {d.name} ELSE @]
         /\ UNCHANGED <<manifest, last>>
      \/ found = {} /\ mirror' = [mirror EXCEPT ![d.name] = m] /\ Fails("no such rev")
      \/ mirror' \in {mirror, [mirror EXCEPT ![d.name] = Removed]} /\ Fails("network")
  <2> HIDE DEF m, asks
  <2> QED
    BY Zenon DEF AskMirror, UseMirror, m, asks
<1> HIDE DEF m, found, c, asks
<1>5. mirror' \in [Names -> Mirrors]
  BY <1>2, <1>3, <1>4 DEF Shape
<1>6. ASSUME found # {}, proc' = [Then EXCEPT !.fresh = IF asks THEN @ \cup {d.name} ELSE @]
      PROVE  Stays("checkout") /\ Waits /\ proc'.want \in Pinnable
  <2>1. c \in Sources
    BY <1>2, <1>6 DEF c
  <2>2. revs \in SUBSET Revisions
    <3>1. proc.revs \in SUBSET Revisions
      BY <1>1 DEF Command
    <3>2. d.rev \in {x.rev : x \in Known}
      BY <1>1
    <3> HIDE DEF d
    <3>3. [url |-> d.url, rev |-> d.rev, commit |-> c] \in Revisions
      BY <1>3, <2>1, <3>2 DEF Revisions
    <3> QED
      BY <3>1, <3>3
  <2> HIDE DEF revs
  <2>3. proc.fresh \cup {d.name} \in SUBSET Names
    BY <1>1, <1>3 DEF Command
  <2> QED
    BY <1>1, <1>6, <2>1, <2>2, <2>3 DEF Stays, Waits, Command, Fetching, Pinnable
<1> QED
  BY <1>4, <1>5, <1>6, FailsFacts DEF m, found

(* A commit the mirror has is cloned from it.                               *)
LEMMA HasCommitCases ==
  ASSUME WellFormed, Shape, proc # Idle, proc.queue # <<>>, IsGit(item.dep), item.dep.name # Root,
         HasCommit(item.dep)
  PROVE  /\ mirror' \in [Names -> Mirrors]
         /\ \/ GivesUp /\ last' \in {"network", "unrestored"}
            \/ /\ GivesUp /\ last' \in {"no such rev", "unrestored"}
               /\ lookup(Usable(item.dep, proc.want), proc.want) = {}
               /\ mirror' = [mirror EXCEPT ![item.dep.name] = Usable(item.dep, proc.want)]
            \/ UNCHANGED <<manifest, last>> /\ Stays("clone") /\ Waits /\ proc'.want = proc.want
<1> DEFINE d == item.dep
           m == Usable(d, proc.want)
           asks == Asks(d, proc.want)
           found == lookup(m, proc.want)
<1>1. proc \in Command /\ d \in Known
  BY Stepping
<1>2. m \in Mirrors
  BY <1>1, MirrorFacts
<1>3. d.name \in Names /\ Removed \in Mirrors
  BY <1>1, NoMirror DEF WellFormed
<1>4. \/ /\ mirror' = [mirror EXCEPT ![d.name] = m]
         /\ proc' = [[proc EXCEPT !.at = "clone"] EXCEPT !.fresh = IF asks THEN @ \cup {d.name} ELSE @]
         /\ UNCHANGED <<manifest, last>>
      \/ found = {} /\ mirror' = [mirror EXCEPT ![d.name] = m] /\ Fails("no such rev")
      \/ mirror' \in {mirror, [mirror EXCEPT ![d.name] = Removed]} /\ Fails("network")
  <2> HIDE DEF m, asks
  <2> QED
    BY Zenon DEF HasCommit, UseMirror, m, asks
<1> HIDE DEF m, asks, found
<1>5. mirror' \in [Names -> Mirrors]
  BY <1>2, <1>3, <1>4 DEF Shape
<1>6. ASSUME proc' = [[proc EXCEPT !.at = "clone"] EXCEPT !.fresh = IF asks THEN @ \cup {d.name} ELSE @]
      PROVE  Stays("clone") /\ Waits /\ proc'.want = proc.want
  <2>1. proc.fresh \cup {d.name} \in SUBSET Names
    BY <1>1, <1>3 DEF Command
  <2> QED
    BY <1>1, <1>6, <2>1 DEF Stays, Waits, Command, Fetching
<1> QED
  BY <1>4, <1>5, <1>6, FailsFacts DEF m, found

(* A dependency is the root, a directory, or gets the commit to check out.  *)
LEMMA ResolveCases ==
  ASSUME WellFormed, Shape, Control, Resolve
  PROVE  /\ proc # Idle /\ proc.at = "resolve" /\ proc.queue # <<>>
         /\ mirror' \in [Names -> Mirrors]
         /\ \/ GivesUp
            \/ /\ UNCHANGED <<manifest, last>>
               /\ \/ item.dep.name = Root /\ Skips
                  \/ Chooses
                  \/ \E c \in Pinnable :
                       /\ ~IsGit(item.dep) /\ c = item.dep.rev
                       /\ Brings(Entry(item.dep, c)) \/ Repeats(Entry(item.dep, c))
<1>1. proc.at = "resolve" /\ proc.queue # <<>>
  BY DEF Resolve
<1>2. proc # Idle
  BY <1>1 DEF Idle
<1>3. /\ proc \in Command /\ item.dep \in Known /\ Tail(proc.queue) \in Seq(Items)
      /\ mirror \in [Names -> Mirrors]
  BY <1>1, <1>2, Stepping DEF Shape
<1>4. CASE item.dep.name = Root
  <2>1. proc' = [proc EXCEPT !.queue = Tail(proc.queue)] /\ UNCHANGED <<manifest, mirror, last>>
    BY <1>4, Zenon DEF Resolve
  <2> QED
    BY <1>1, <1>2, <1>3, <1>4, <2>1 DEF Skips, Stays, Command
<1>5. CASE item.dep.name # Root /\ ~IsGit(item.dep)
  <2>1. Accept(Entry(item.dep, item.dep.rev)) /\ UNCHANGED mirror
    BY <1>5, Zenon DEF Resolve
  <2>2. item.dep.rev \in Pinnable
    BY <1>3, <1>5 DEF WellFormed, Pinnable
  <2> QED
    BY <1>1, <1>2, <1>3, <1>5, <2>1, <2>2, AcceptCases
<1>6. CASE item.dep.name # Root /\ IsGit(item.dep) /\ Commit(item.dep) # {}
  <2> DEFINE c == CHOOSE x \in Commit(item.dep) : TRUE
  <2>1. /\ proc' = [proc EXCEPT !.at = "checkout", !.want = c]
        /\ UNCHANGED <<manifest, mirror, last>>
    BY <1>6, Zenon DEF Resolve
  <2>2. c \in Commit(item.dep)
    BY <1>6
  <2> HIDE DEF c
  <2>3. c \in Pinnable /\ (Locked(item.dep) # {} => \E e \in Locked(item.dep) : c = e.commit)
    <3>1. CASE Locked(item.dep) # {}
      <4>1. PICK e \in Locked(item.dep) : c = e.commit
        BY <2>2, <3>1 DEF Commit
      <4>2. proc.lock # TornLock
        BY <1>1 DEF Control
      <4>3. proc.lock \in Locks
        BY <1>3 DEF Command
      <4>4. e \in Entries
        <5>1. proc.lock \in SUBSET Entries
          BY <4>2, <4>3 DEF Locks
        <5> QED
          BY <4>1, <5>1 DEF Locked
      <4> QED
        BY <4>1, <4>4, EntryFacts
    <3>2. CASE Locked(item.dep) = {}
      <4>1. proc.revs \in SUBSET Revisions
        BY <1>3 DEF Command
      <4> QED
        BY <2>2, <3>2, <4>1 DEF Commit, Revisions, Pinnable
    <3> QED
      BY <3>1, <3>2
  <2>4. Stays("checkout") /\ Waits /\ proc'.want = c
    BY <1>3, <2>1, <2>3 DEF Stays, Waits, Command, Fetching
  <2>5. Chooses
    BY <1>6, <2>3, <2>4 DEF Chooses
  <2> QED
    BY <1>1, <1>2, <1>3, <2>1, <2>5
<1>7. CASE item.dep.name # Root /\ IsGit(item.dep) /\ Commit(item.dep) = {}
  <2>1. AskMirror(item.dep)
    BY <1>7, Zenon DEF Resolve
  <2>2. Locked(item.dep) = {}
    BY <1>7 DEF Commit
  <2> QED
    BY <1>1, <1>2, <1>7, <2>1, <2>2, AskMirrorCases DEF Chooses
<1> QED
  BY <1>4, <1>5, <1>6, <1>7

(* A commit that is checked out ends the item, one that is not is cloned.   *)
LEMMA CheckoutCases ==
  ASSUME WellFormed, Shape, Control, Checkout
  PROVE  /\ proc # Idle /\ proc.at = "checkout" /\ proc.queue # <<>> /\ IsGit(item.dep)
         /\ mirror' \in [Names -> Mirrors]
         /\ \/ GivesUp
            \/ /\ UNCHANGED <<manifest, last>>
               /\ \/ Stays("clone") /\ Waits /\ proc'.want = proc.want
                  \/ /\ Dirs(cache, item.dep.name, proc.want) # {} \/ proc.want \in Stubs
                     /\ proc.want \in Pinnable
                     /\ Brings(Entry(item.dep, proc.want)) \/ Repeats(Entry(item.dep, proc.want))
<1>1. proc.at = "checkout"
  BY DEF Checkout
<1>2. proc # Idle
  BY <1>1 DEF Idle
<1>3. proc.queue # <<>> /\ IsGit(item.dep) /\ proc.want \in Pinnable /\ item.dep.name # Root
  BY <1>1 DEF Control, Fetching, WellFormed
<1>4. mirror \in [Names -> Mirrors]
  BY DEF Shape
<1>5. CASE Present(item.dep)
  <2>1. Accept(Entry(item.dep, proc.want)) /\ UNCHANGED mirror
    BY <1>5, Zenon DEF Checkout
  <2>2. Dirs(cache, item.dep.name, proc.want) # {} \/ proc.want \in Stubs
    BY <1>5 DEF Present, Stubs
  <2> QED
    BY <1>1, <1>2, <1>3, <1>4, <2>1, <2>2, AcceptCases
<1>6. CASE ~Present(item.dep)
  <2>1. HasCommit(item.dep)
    BY <1>6, Zenon DEF Checkout
  <2> QED
    BY <1>1, <1>2, <1>3, <2>1, HasCommitCases
<1> QED
  BY <1>5, <1>6

Locking(cmd) == IF cmd = "fetch" THEN {} ELSE lock
Fresh(b, cmd) ==
  /\ b \in Command /\ b.at = "resolve" /\ b.cmd = cmd /\ b.done = {} /\ b.old = manifest /\ b.before = lock
  /\ b.lock = Locking(cmd)
(* A command starts from the manifest with nothing done.                    *)
LEMMA BeginFacts ==
  ASSUME Shape, NEW cmd \in {"build", "fetch", "add"}, NEW deps \in Seq(Known), manifest \in Seq(Known)
  PROVE  LET b == Begin(cmd, deps, lock)
         IN /\ Fresh(b, cmd)
            /\ DOMAIN b.queue = DOMAIN deps /\ \A i \in DOMAIN deps : b.queue[i].dep = deps[i]
<1> DEFINE q == [i \in DOMAIN deps |-> [dep |-> deps[i], by |-> Root]]
           l == Locking(cmd)
<1>1. \A i \in DOMAIN deps : [dep |-> deps[i], by |-> Root] \in Items
  BY DEF Items
<1>2. q \in Seq(Items) /\ DOMAIN q = DOMAIN deps /\ \A i \in DOMAIN deps : q[i].dep = deps[i]
  BY <1>1
<1>3. lock \in Locks /\ l \in Locks
  BY DEF Locks, Shape, Locking
<1> HIDE DEF q, l
<1>4. Begin(cmd, deps, lock) =
        [at |-> "resolve", cmd |-> cmd, queue |-> q, lock |-> l, done |-> {}, fresh |-> {}, revs |-> {},
         old |-> manifest, before |-> lock, want |-> ""]
  BY Zenon DEF Begin, Locking, q, l
<1>5. \A b : b = [at |-> "resolve", cmd |-> cmd, queue |-> q, lock |-> l, done |-> {}, fresh |-> {}, revs |-> {},
                  old |-> manifest, before |-> lock, want |-> ""]
               => /\ b \in Command /\ b.at = "resolve" /\ b.cmd = cmd /\ b.queue = q /\ b.lock = l
                  /\ b.done = {} /\ b.old = manifest /\ b.before = lock
  <2>1. /\ q \in Seq(Items) /\ l \in Locks /\ lock \in Locks /\ manifest \in Seq(Known)
        /\ cmd \in {"build", "fetch", "add"}
    BY <1>2, <1>3
  <2> TAKE b
  <2> HAVE b = [at |-> "resolve", cmd |-> cmd, queue |-> q, lock |-> l, done |-> {}, fresh |-> {}, revs |-> {},
                old |-> manifest, before |-> lock, want |-> ""]
  <2> QED
    BY <2>1 DEF Command
<1>6. LET b == Begin(cmd, deps, lock) IN Fresh(b, cmd) /\ b.queue = q
  BY <1>4, <1>5, Zenon DEF Fresh, l
<1> QED
  BY <1>2, <1>6, Zenon

(* The manifest that add writes is a manifest.                              *)
LEMMA EditedFacts ==
  ASSUME manifest \in Seq(Known), NEW d \in Adds
  PROVE  Edited(d) \in Seq(Known)
<1>1. d \in Known
  BY DEF Known
<1> QED
  BY <1>1 DEF Edited

(* How a command begins.                                                    *)
Begins(cmd, deps) ==
  /\ proc' \in Command /\ proc'.cmd = cmd /\ proc'.done = {} /\ proc'.old = manifest /\ proc'.before = lock
  /\ proc'.lock = Locking(cmd)
  /\ DOMAIN proc'.queue = DOMAIN deps /\ \A i \in DOMAIN deps : proc'.queue[i].dep = deps[i]
  /\ UNCHANGED <<disk, time>> \/ (manifest' = Torn /\ UNCHANGED <<lock, mirror, tmp, cache, time>>)

(* build and fetch begin, or end at once when a file does not read.         *)
LEMMA StartCases ==
  ASSUME Shape, NEW cmd \in {"build", "fetch"}, Start(cmd)
  PROVE  /\ proc = Idle /\ UNCHANGED <<disk, time>> /\ last' # "ok"
         /\ proc' = Idle \/ (/\ manifest \in Seq(Known) /\ Begins(cmd, manifest) /\ proc'.at = "resolve"
                             /\ cmd = "build" => lock # TornLock)
<1>1. proc = Idle /\ UNCHANGED <<disk, time>>
  BY Zenon DEF Start
<1>2. CASE Reads(cmd)
  <2>1. proc' = Begin(cmd, manifest, lock) /\ last' = "running"
    BY <1>2, Zenon DEF Start
  <2>2. manifest \in Seq(Known) /\ (cmd = "build" => lock # TornLock)
    BY <1>2 DEF Reads, Shape
  <2> DEFINE b == Begin(cmd, manifest, lock)
  <2>3. /\ b \in Command /\ b.at = "resolve" /\ b.cmd = cmd /\ b.done = {} /\ b.old = manifest /\ b.before = lock
        /\ b.lock = Locking(cmd)
        /\ DOMAIN b.queue = DOMAIN manifest /\ \A i \in DOMAIN manifest : b.queue[i].dep = manifest[i]
    <3>1. cmd \in {"build", "fetch", "add"}
      OBVIOUS
    <3> QED
      BY <2>2, <3>1, BeginFacts, SMTT(30) DEF Fresh
  <2> HIDE DEF b
  <2> QED
    BY <1>1, <2>1, <2>2, <2>3 DEF Begins, b
<1>3. CASE ~Reads(cmd)
  <2>1. proc' = Idle /\ last' = "unreadable"
    BY <1>3, Zenon DEF Start, Ended
  <2> QED
    BY <1>1, <2>1
<1> QED
  BY <1>2, <1>3

(* add begins with the manifest torn, or is refused.                        *)
LEMMA StartAddCases ==
  ASSUME Shape, StartAdd
  PROVE  /\ proc = Idle /\ UNCHANGED <<lock, mirror, tmp, cache, time>> /\ last' \in {"running", "unwritten"}
         /\ \/ UNCHANGED <<manifest, proc>>
            \/ manifest' = Torn /\ \E deps \in Seq(Known) : Begins("add", deps) /\ proc'.at = "edit"
<1>1. PICK d \in Adds :
        /\ proc = Idle /\ manifest # Torn /\ UNCHANGED <<lock, mirror, tmp, cache, time>>
        /\ \/ manifest' = Torn /\ last' = "running" /\ proc' = [Begin("add", Edited(d), lock) EXCEPT !.at = "edit"]
           \/ last' = "unwritten" /\ UNCHANGED <<manifest, proc>>
  BY Zenon DEF StartAdd
<1>2. manifest \in Seq(Known)
  BY <1>1 DEF Shape
<1>3. Edited(d) \in Seq(Known)
  BY <1>2, EditedFacts
<1> DEFINE b == Begin("add", Edited(d), lock)
<1>4. /\ b \in Command /\ b.cmd = "add" /\ b.done = {} /\ b.old = manifest /\ b.before = lock
      /\ b.lock = Locking("add")
      /\ DOMAIN b.queue = DOMAIN Edited(d) /\ \A i \in DOMAIN Edited(d) : b.queue[i].dep = Edited(d)[i]
  BY <1>2, <1>3, BeginFacts, Zenon DEF Fresh
<1> HIDE DEF b
<1>5. CASE manifest' = Torn /\ proc' = [b EXCEPT !.at = "edit"]
  <2>1. /\ proc' \in Command /\ proc'.at = "edit" /\ proc'.cmd = b.cmd /\ proc'.done = b.done /\ proc'.old = b.old
        /\ proc'.before = b.before /\ proc'.lock = b.lock /\ proc'.queue = b.queue
    BY <1>4, <1>5 DEF Command
  <2>2. Begins("add", Edited(d))
    BY <1>1, <1>4, <1>5, <2>1 DEF Begins
  <2> QED
    BY <1>1, <1>3, <1>5, <2>1, <2>2
<1> QED
  BY <1>1, <1>3, <1>5 DEF b

(* add writes the manifest that is in its queue, or as much of it as the    *)
(* disk takes, and goes on with what it reads back.                         *)
LEMMA WriteManifestCases ==
  ASSUME Shape, Control, WriteManifest
  PROVE  /\ proc # Idle /\ proc.at = "edit" /\ UNCHANGED <<lock, mirror, tmp, cache, time>>
         /\ \/ /\ proc' = Idle /\ last' \in {"unreadable", "unwritten", "unrestored"}
               /\ manifest' \in Seq(Known) \cup {Torn}
               /\ last' = "unreadable" => manifest' = proc.old
            \/ /\ lock # TornLock /\ Stays("resolve") /\ manifest' \in Seq(Known) /\ last' = last
               /\ proc'.done = proc.done /\ proc'.fresh = proc.fresh /\ proc'.revs = proc.revs
               /\ \A i \in DOMAIN manifest' : i \in DOMAIN proc'.queue /\ proc'.queue[i].dep = manifest'[i]
<1> DEFINE deps == [i \in DOMAIN proc.queue |-> proc.queue[i].dep]
           gives(text) == GivesBack(text, "unreadable") \/ Unrestored(text)
           goesOn(text) ==
             /\ text # Torn /\ lock # TornLock
             /\ manifest' = text /\ UNCHANGED last
             /\ proc' = [proc EXCEPT !.at = "resolve", !.queue = SubSeq(@, 1, Len(text))]
<1>0. proc.at = "edit"
  BY DEF WriteManifest
<1>1. /\ UNCHANGED <<lock, mirror, tmp, cache, time>>
      /\ \/ goesOn(deps) \/ gives(deps)
         \/ \E text \in Cut(deps) : (manifest' = text /\ Ended("unwritten")) \/ goesOn(text) \/ gives(text)
  BY Zenon DEF WriteManifest, FailsWith, world
<1>2. proc # Idle
  BY <1>0 DEF Idle
<1>3. /\ proc \in Command /\ proc.queue \in Seq(Items) /\ proc.old \in Seq(Known)
      /\ proc.cmd = "add"
  BY <1>0, <1>2, Stepping DEF Command, Control
<1>4. deps \in Seq(Known) /\ Len(deps) = Len(proc.queue) /\ \A i \in DOMAIN deps : deps[i] = proc.queue[i].dep
  <2>1. \A x \in Items : x.dep \in Known
    BY DEF Items
  <2> QED
    BY <1>3, <2>1
<1> HIDE DEF deps, gives, goesOn
<1>5. \A text \in Cut(deps) : text \in Seq(Known) \cup {Torn}
  BY <1>4, CutsFacts
<1>6. ASSUME NEW text \in Seq(Known) \cup {Torn}, gives(text)
      PROVE  /\ proc' = Idle /\ last' \in {"unreadable", "unrestored"} /\ manifest' \in Seq(Known) \cup {Torn}
             /\ last' = "unreadable" => manifest' = proc.old
  <2>1. proc' = Idle /\ \/ last' = "unreadable" /\ manifest' = proc.old
                        \/ last' = "unrestored" /\ manifest' \in {text} \cup Cut(proc.old)
    BY <1>3, <1>6, Zenon DEF gives, GivesBack, Restored, Unrestored, Ended
  <2> QED
    BY <1>3, <2>1, CutsFacts
<1>7. ASSUME NEW n \in 0 .. Len(deps), goesOn(SubSeq(deps, 1, n))
      PROVE  /\ lock # TornLock /\ Stays("resolve") /\ manifest' \in Seq(Known) /\ last' = last
             /\ proc'.done = proc.done /\ proc'.fresh = proc.fresh /\ proc'.revs = proc.revs
             /\ \A i \in DOMAIN manifest' : i \in DOMAIN proc'.queue /\ proc'.queue[i].dep = manifest'[i]
  <2> DEFINE text == SubSeq(deps, 1, n)
             queue == SubSeq(proc.queue, 1, n)
  <2>1. /\ text \in Seq(Known) /\ DOMAIN text = 1 .. n /\ Len(text) = n
        /\ \A i \in 1 .. n : text[i] = deps[i]
    BY <1>4, CutFacts
  <2>2. /\ queue \in Seq(Items) /\ DOMAIN queue = 1 .. n
        /\ \A i \in 1 .. n : queue[i] = proc.queue[i]
    BY <1>3, <1>4, CutFacts
  <2> HIDE DEF text
  <2>3. lock # TornLock /\ manifest' = text /\ last' = last /\ proc' = [proc EXCEPT !.at = "resolve", !.queue = queue]
    BY <1>7, <2>1 DEF goesOn, text
  <2> HIDE DEF queue
  <2>4. \A i \in 1 .. n : i \in DOMAIN deps
    BY <1>4, <1>7
  <2>5. /\ Stays("resolve") /\ proc'.queue = queue
        /\ proc'.done = proc.done /\ proc'.fresh = proc.fresh /\ proc'.revs = proc.revs
    BY <1>3, <2>2, <2>3 DEF Stays, Command
  <2> QED
    BY <1>4, <2>1, <2>2, <2>3, <2>4, <2>5
<1>8. deps = SubSeq(deps, 1, Len(deps)) /\ Len(deps) \in 0 .. Len(deps)
  BY <1>4, CutFacts
<1>9. \A text \in Cut(deps) : text = Torn \/ \E n \in 0 .. Len(deps) : text = SubSeq(deps, 1, n)
  BY DEF Cut
<1>10. \A text : goesOn(text) => text # Torn
  BY DEF goesOn
<1>11. ASSUME NEW text \in Cut(deps), manifest' = text, Ended("unwritten")
       PROVE  proc' = Idle /\ last' = "unwritten" /\ manifest' \in Seq(Known) \cup {Torn}
  BY <1>5, <1>11 DEF Ended
<1>12. CASE goesOn(deps) \/ \E text \in Cut(deps) : goesOn(text)
  <2>1. PICK n \in 0 .. Len(deps) : goesOn(SubSeq(deps, 1, n))
    BY <1>8, <1>9, <1>10, <1>12
  <2> QED
    BY <1>0, <1>1, <1>2, <1>7, <2>1
<1>13. CASE gives(deps) \/ \E text \in Cut(deps) : gives(text)
  BY <1>0, <1>1, <1>2, <1>4, <1>5, <1>6, <1>13
<1> QED
  BY <1>0, <1>1, <1>2, <1>11, <1>12, <1>13

(* The clone fills COMMIT.tmp, which is cleared before.                     *)
LEMMA CloneCases ==
  ASSUME Shape, Control, Clone
  PROVE  /\ proc # Idle /\ proc.at = "clone" /\ UNCHANGED <<lock, mirror, cache, time>>
         /\ \/ GivesUp /\ last' \in {"no checkout", "unrestored"}
            \/ UNCHANGED <<manifest, last>> /\ proc' = [proc EXCEPT !.at = "files"]
<1>1. proc.at = "clone" /\ UNCHANGED <<lock, mirror, cache, time>>
  BY Zenon DEF Clone, world
<1>2. proc # Idle
  BY <1>1 DEF Idle
<1>3. Dirs(Cleared, item.dep.name, proc.want) = {}
  BY DEF Dirs, Cleared
<1>4. Fails("no checkout") \/ (UNCHANGED <<manifest, last>> /\ proc' = [proc EXCEPT !.at = "files"])
  BY <1>3, Zenon DEF Clone, FailsCheckout
<1> QED
  BY <1>1, <1>2, <1>4, FailsFacts

(* git checkout makes COMMIT.tmp whole, or fails.                           *)
LEMMA FillFilesCases ==
  ASSUME Shape, Control, FillFiles
  PROVE  /\ proc # Idle /\ proc.at = "files" /\ UNCHANGED <<lock, mirror, cache, time>>
         /\ \/ GivesUp /\ last' \in {"no checkout", "unrestored"}
            \/ /\ UNCHANGED <<manifest, last>> /\ tmp' = Cleared \cup {Dir("whole")}
               /\ proc' = [proc EXCEPT !.at = "rename"]
<1>0. proc.at = "files"
  BY Zenon DEF FillFiles
<1>1. /\ UNCHANGED <<lock, mirror, cache, time>>
      /\ \/ Fails("no checkout")
         \/ /\ UNCHANGED <<manifest, last>> /\ tmp' = Cleared \cup {Dir("whole")}
            /\ proc' = [proc EXCEPT !.at = "rename"]
  BY Zenon DEF FillFiles, FailsCheckout, world
<1>2. proc # Idle
  BY <1>0 DEF Idle
<1> QED
  BY <1>0, <1>1, <1>2, FailsFacts

(* The rename adds COMMIT.tmp to the directories, or fails.                 *)
LEMMA RenameCases ==
  ASSUME Shape, Control, Rename
  PROVE  /\ proc # Idle /\ proc.at = "rename" /\ UNCHANGED <<lock, mirror, time>>
         /\ \/ GivesUp /\ last' \in {"no checkout", "unrestored"} /\ UNCHANGED cache
            \/ /\ UNCHANGED <<manifest, last>> /\ cache' = cache \cup Dirs(tmp, item.dep.name, proc.want)
               /\ proc' = [proc EXCEPT !.at = "checkout"]
<1>0. proc.at = "rename"
  BY Zenon DEF Rename, Publish
<1>1. /\ UNCHANGED <<lock, mirror, time>>
      /\ \/ Fails("no checkout") /\ UNCHANGED cache
         \/ /\ UNCHANGED <<manifest, last>> /\ cache' = cache \cup Dirs(tmp, item.dep.name, proc.want)
            /\ proc' = [proc EXCEPT !.at = "checkout"]
  BY Zenon DEF Rename, Publish, FailsCheckout, world
<1>2. proc # Idle
  BY <1>0 DEF Idle
<1> QED
  BY <1>0, <1>1, <1>2, FailsFacts

(* A step of a checkout that goes on leaves the rest of the command alone.  *)
LEMMA StepsOn ==
  ASSUME Shape, proc # Idle, NEW at \in Fetching, proc' = [proc EXCEPT !.at = at]
  PROVE  Stays(at) /\ Waits /\ proc'.want = proc.want
BY Stepping DEF Stays, Waits, Command, Fetching

(* A write of the lock that is reported puts the manifest back.             *)
LEMMA GivesBackFacts ==
  ASSUME GivesBack(manifest, "unwritten") \/ Unrestored(manifest)
  PROVE  GivesUp /\ last' \in {"unwritten", "unrestored"}
BY Zenon DEF GivesBack, Unrestored, Ended, GivesUp

(* The lock is opened, or refused; it holds what the command has done, or   *)
(* the beginning of it.                                                     *)
LEMMA LockCases ==
  ASSUME Shape, Control, OpenLock \/ Done
  PROVE  /\ proc # Idle /\ UNCHANGED <<mirror, tmp, cache, time>>
         /\ proc.at \in {"resolve", "lock"} /\ proc.queue = <<>>
         /\ \/ /\ proc.at = "resolve" /\ lock' = TornLock /\ proc' = [proc EXCEPT !.at = "lock"]
               /\ Stays("lock") /\ Waits /\ UNCHANGED <<manifest, last>>
            \/ proc.at = "resolve" /\ lock' = lock /\ GivesUp /\ last' \in {"unwritten", "unrestored"}
            \/ lock' = proc.done /\ proc' = Idle /\ last' = "ok" /\ UNCHANGED manifest
            \/ /\ proc.at = "lock" /\ lock' \in CutLocks(proc.done)
               /\ \/ GivesUp /\ last' \in {"unwritten", "unrestored"}
                  \/ proc' = Idle /\ last' = "lost" /\ UNCHANGED manifest
<1> DEFINE gives == GivesBack(manifest, "unwritten") \/ Unrestored(manifest)
<1>1. CASE OpenLock
  <2>1. /\ proc.at = "resolve" /\ proc.queue = <<>> /\ UNCHANGED <<mirror, tmp, cache, time>>
        /\ \/ lock' = TornLock /\ proc' = [proc EXCEPT !.at = "lock"] /\ UNCHANGED <<manifest, last>>
           \/ lock' = lock /\ gives
    BY <1>1, Zenon DEF OpenLock, world
  <2>2. proc # Idle
    BY <2>1 DEF Idle
  <2>3. proc' = [proc EXCEPT !.at = "lock"] => Stays("lock") /\ Waits
    BY <2>2, Stepping DEF Stays, Waits, Command
  <2> QED
    BY <2>1, <2>2, <2>3, GivesBackFacts
<1>2. CASE Done
  <2>1. /\ UNCHANGED <<mirror, tmp, cache, time>>
        /\ \/ /\ proc.at = "lock" \/ (proc.at = "resolve" /\ proc.queue = <<>>)
              /\ lock' = proc.done /\ Ended("ok") /\ UNCHANGED manifest
           \/ /\ proc.at = "lock" /\ lock' \in CutLocks(proc.done)
              /\ gives \/ (Ended("lost") /\ UNCHANGED manifest)
    BY <1>2, Zenon DEF Done, world
  <2>2. proc # Idle
    BY <2>1 DEF Idle
  <2> QED
    BY <2>1, <2>2, GivesBackFacts DEF Control, Ended
<1> QED
  BY <1>1, <1>2

(* A crash leaves whole, or cut short, what was being written.              *)
LEMMA CrashCases ==
  ASSUME WellFormed, Shape, Crash
  PROVE  /\ proc # Idle /\ proc' = Idle /\ last' = "crashed" /\ UNCHANGED <<cache, time>>
         /\ manifest' \in Seq(Known) \cup {Torn}
         /\ mirror' \in [Names -> Mirrors]
         /\ \A n \in Names :
              \/ mirror'[n] = mirror[n] \/ mirror'[n] = Removed
              \/ \E u \in Urls : mirror'[n] \in CutClones(u)
         /\ lock' = lock \/ (proc.at = "lock" /\ lock' \in CutLocks(proc.done))
<1> DEFINE deps == [i \in DOMAIN proc.queue |-> proc.queue[i].dep]
           gone == {Removed} \cup CutClones(item.dep.url)
<1>1. /\ proc # Idle /\ proc' = Idle /\ last' = "crashed" /\ UNCHANGED <<cache, time>>
      /\ manifest' \in IF proc.at = "edit" THEN Cut(deps) ELSE {manifest}
      /\ lock' \in IF proc.at = "lock" THEN CutLocks(proc.done) ELSE {lock}
      /\ mirror' \in {mirror} \cup (IF Clones THEN {[mirror EXCEPT ![item.dep.name] = m] : m \in gone} ELSE {})
  BY Zenon DEF Crash, Ended
<1>2. manifest' \in Seq(Known) \cup {Torn}
  <2>1. deps \in Seq(Known)
    <3>1. \A x \in Items : x.dep \in Known
      BY DEF Items
    <3> QED
      BY <1>1, <3>1, Stepping
  <2> HIDE DEF deps
  <2> QED
    BY <1>1, <2>1, CutsFacts DEF Shape
<1>3. CASE mirror' = mirror
  BY <1>1, <1>2, <1>3 DEF Shape
<1>4. CASE mirror' # mirror
  <2>1. PICK m \in gone : Clones /\ mirror' = [mirror EXCEPT ![item.dep.name] = m]
    BY <1>1, <1>4
  <2>2. item.dep.url \in Urls /\ item.dep.name \in Names
    BY <1>1, <2>1, Stepping DEF Clones, WellFormed
  <2>3. m \in Mirrors /\ (m = Removed \/ \E u \in Urls : m \in CutClones(u))
    BY <2>2, NoMirror, CutCloneFacts
  <2>4. mirror \in [Names -> Mirrors]
    BY DEF Shape
  <2> QED
    BY <1>1, <1>2, <2>1, <2>2, <2>3, <2>4
<1> QED
  BY <1>3, <1>4

(* What a command that fails leaves.                                        *)
LEMMA GivesUpFacts ==
  ASSUME Shape, proc # Idle, GivesUp
  PROVE  /\ proc' = Idle /\ last' # "ok" /\ manifest' \in Seq(Known) \cup {Torn}
         /\ last' = "unrestored" \/ manifest' = IF proc.cmd = "add" THEN proc.old ELSE manifest
<1>1. proc.old \in Seq(Known) /\ manifest \in Seq(Known) \cup {Torn}
  BY Stepping DEF Command, Shape
<1>2. \A text \in Cut(proc.old) : text \in Seq(Known) \cup {Torn}
  BY <1>1, CutsFacts
<1> QED
  BY <1>1, <1>2 DEF GivesUp, Restored

(* What happens between commands.                                           *)
LEMMA OutsideCases ==
  ASSUME RepairManifest \/ NewMachine \/ Push \/ UNCHANGED vars
  PROVE  /\ UNCHANGED <<lock, proc>>
         /\ \/ proc = Idle /\ manifest' = <<>> /\ UNCHANGED <<mirror, tmp, cache, time, last, commands>>
            \/ /\ proc = Idle /\ last' = "new machine" /\ UNCHANGED <<manifest, time>>
               /\ mirror' = [n \in Names |-> None] /\ tmp' = {} /\ cache' = {}
            \/ UNCHANGED <<manifest, mirror, tmp, cache, last, commands>> /\ time < Len(Upstreams) /\ time' = time + 1
            \/ UNCHANGED vars
<1>1. CASE RepairManifest
  <2>1. proc = Idle /\ manifest' = <<>> /\ UNCHANGED <<lock, mirror, tmp, cache, proc, last, faults, world>>
    BY <1>1, Zenon DEF RepairManifest
  <2> QED
    BY <2>1 DEF world
<1>2. CASE NewMachine
  <2>1. /\ proc = Idle /\ mirror' = [n \in Names |-> None] /\ tmp' = {} /\ cache' = {}
        /\ last' = "new machine" /\ UNCHANGED <<manifest, lock, proc, faults, world>>
    BY <1>2, Zenon DEF NewMachine
  <2> QED
    BY <2>1 DEF world
<1>3. CASE Push
  <2>1. time < Len(Upstreams) /\ time' = time + 1 /\ UNCHANGED <<disk, proc, last, commands, faults>>
    BY <1>3, Zenon DEF Push
  <2> QED
    BY <2>1 DEF disk
<1>4. CASE UNCHANGED vars
  BY <1>4 DEF vars
<1> QED
  BY <1>1, <1>2, <1>3, <1>4

-----------------------------------------------------------------------------
(* A machine without packages.                                              *)
LEMMA InitInv == ASSUME WellFormed PROVE Init => IInv
<1> SUFFICES ASSUME Init PROVE IInv
  OBVIOUS
<1>1. proc = Idle /\ proc.at = "idle"
  BY DEF Init, Idle
<1>2. lock = {} /\ cache = {} /\ manifest = <<>> /\ commands = 0 /\ time = 1
  BY DEF Init, NoFile
<1>3. mirror \in [Names -> Mirrors]
  BY NoMirror DEF Init
<1>4. Shape
  BY <1>1, <1>2, <1>3 DEF Shape, Locks, WellFormed
<1>5. Control /\ Kept /\ CacheComplete /\ Closing /\ LockCloses
  BY <1>1, <1>2 DEF Control, Kept, CacheComplete, Closing, LockCloses, Fetching
<1>6. Pins
  BY <1>1, <1>2 DEF Pins, Regular, Fetching
<1> QED
  BY <1>4, <1>5, <1>6 DEF IInv

(* Every step keeps the shape of the disk and of the command.               *)
LEMMA ShapeNext == ASSUME WellFormed, Shape, Control, [Next]_vars PROVE Shape'
<1> USE DEF Shape
<1>1. ASSUME NEW cmd \in {"build", "fetch"}, Start(cmd) PROVE Shape'
  BY <1>1, StartCases DEF disk, Begins
<1>2. CASE StartAdd
  BY <1>2, StartAddCases DEF Begins
<1>3. CASE WriteManifest
  BY <1>3, WriteManifestCases, Stepping DEF Stays, Command
<1>4. CASE Resolve
  <2>1. UNCHANGED <<lock, time>>
    BY <1>4, Zenon DEF Resolve, world
  <2> QED
    BY <1>4, <2>1, ResolveCases, GivesUpFacts DEF Skips, Chooses, Brings, Repeats, Stays
<1>5. CASE Checkout
  <2>1. UNCHANGED <<lock, time>>
    BY <1>5, Zenon DEF Checkout, world
  <2> QED
    BY <1>5, <2>1, CheckoutCases, GivesUpFacts DEF Skips, Brings, Repeats, Stays
<1>6. ASSUME Clone \/ FillFiles \/ Rename PROVE Shape'
  <2>1. /\ proc # Idle /\ UNCHANGED <<lock, mirror, time>>
        /\ GivesUp \/ \E at \in Fetching : UNCHANGED manifest /\ proc' = [proc EXCEPT !.at = at]
    BY <1>6, CloneCases, FillFilesCases, RenameCases DEF Fetching
  <2> QED
    BY <2>1, GivesUpFacts, StepsOn DEF Stays
<1>7. CASE OpenLock \/ Done
  <2>1. /\ proc # Idle /\ proc \in Command /\ UNCHANGED <<mirror, time>>
        /\ lock' \in {lock, TornLock, proc.done} \/ (proc.at = "lock" /\ lock' \in CutLocks(proc.done))
        /\ GivesUp \/ (UNCHANGED manifest /\ (proc' = Idle \/ Stays("lock")))
    BY <1>7, LockCases, Stepping
  <2>2. lock' \in Locks
    BY <2>1, CutLockFacts DEF Locks, Command
  <2> QED
    BY <2>1, <2>2, GivesUpFacts DEF Stays
<1>8. CASE Crash
  <2>1. proc.at = "lock" => \A K \in CutLocks(proc.done) : K \in Locks
    <3>1. proc # Idle
      BY <1>8, CrashCases
    <3>2. proc.at = "lock" => proc.done \in SUBSET Entries
      BY <3>1, Stepping DEF Command
    <3> QED
      BY <3>2, CutLockFacts
  <2> QED
    BY <1>8, <2>1, CrashCases
<1>9. CASE RepairManifest \/ NewMachine \/ Push \/ UNCHANGED vars
  <2>1. None \in Mirrors
    BY NoMirror
  <2>2. [n \in Names |-> None] \in [Names -> Mirrors]
    BY <2>1
  <2>3. <<>> \in Seq(Known)
    OBVIOUS
  <2>4. time < Len(Upstreams) => time + 1 \in DOMAIN Upstreams
    BY DEF WellFormed
  <2>5. UNCHANGED vars => UNCHANGED <<time, manifest, lock, mirror, proc>>
    BY DEF vars
  <2> QED
    BY <1>9, <2>2, <2>3, <2>4, <2>5, OutsideCases
<1> QED
  BY <1>1, <1>2, <1>3, <1>4, <1>5, <1>6, <1>7, <1>8, <1>9 DEF Next

(* Every step leaves what the next one relies on.                           *)
LEMMA ControlNext == ASSUME WellFormed, Shape, Control, [Next]_vars PROVE Control'
<1>1. ASSUME proc' = Idle PROVE Control'
  <2>1. proc'.at = "idle"
    BY <1>1 DEF Idle
  <2> QED
    BY <2>1 DEF Control, Fetching
<1>2. ASSUME proc'.at = "resolve", proc'.lock # TornLock, manifest' \in Seq(Known) PROVE Control'
  BY <1>2 DEF Control, Fetching
<1>3. ASSUME proc # Idle, proc.at \in {"resolve"} \cup Fetching, UNCHANGED manifest,
             Skips \/ \E e : Brings(e)
      PROVE  Control'
  BY <1>2, <1>3 DEF Control, Skips, Brings, Stays, Fetching
<1>4. ASSUME NEW cmd \in {"build", "fetch"}, Start(cmd) PROVE Control'
  <2>1. {} # TornLock
    BY DEF TornLock
  <2> QED
    BY <1>1, <1>2, <1>4, <2>1, StartCases DEF Begins, Locking, disk
<1>5. CASE StartAdd
  <2>1. \/ proc' = Idle
        \/ /\ proc'.at = "edit" /\ proc'.cmd = "add" /\ proc'.done = {} /\ proc'.lock = lock'
    BY <1>5, StartAddCases DEF Begins, Locking
  <2> QED
    BY <1>1, <2>1 DEF Control, Fetching
<1>6. CASE WriteManifest
  BY <1>1, <1>2, <1>6, WriteManifestCases DEF Control, Stays
<1>7. CASE Resolve
  <2>1. CASE GivesUp
    BY <1>1, <1>7, <2>1, ResolveCases, GivesUpFacts
  <2>2. CASE ~GivesUp /\ Chooses
    <3>1. /\ item' = item /\ proc'.queue # <<>> /\ proc.queue # <<>> /\ proc.at = "resolve"
          /\ proc # Idle /\ UNCHANGED manifest
      BY <1>7, <2>2, ResolveCases DEF Chooses, Waits, item
    <3>2. item.dep.name \in Names
      BY <2>2, <3>1, Stepping DEF Chooses, WellFormed
    <3>3. /\ proc'.at = "checkout" /\ proc'.want \in Pinnable /\ IsGit(item.dep) /\ proc'.lock # TornLock
          /\ manifest' \in Seq(Known)
      BY <2>2, <3>1 DEF Chooses, Stays, Control
    <3>4. IsGit(item'.dep) /\ item'.dep.name \in Names
      BY <3>1, <3>2, <3>3
    <3> QED
      BY <3>1, <3>3, <3>4 DEF Control, Fetching
  <2>3. CASE ~GivesUp /\ ~Chooses
    <3>1. /\ proc # Idle /\ proc.at = "resolve" /\ UNCHANGED manifest
          /\ Skips \/ \E c \in Pinnable : Brings(Entry(item.dep, c))
      BY <1>7, <2>3, ResolveCases DEF Repeats
    <3> QED
      BY <1>3, <3>1
  <2> QED
    BY <2>1, <2>2, <2>3
<1>8. CASE Checkout
  <2>1. CASE GivesUp
    BY <1>1, <1>8, <2>1, CheckoutCases, GivesUpFacts
  <2>2. CASE ~GivesUp /\ Stays("clone") /\ Waits /\ proc'.want = proc.want
    <3>1. proc.at = "checkout" /\ UNCHANGED manifest /\ item' = item
      BY <1>8, <2>2, CheckoutCases DEF Waits, item
    <3> QED
      BY <2>2, <3>1 DEF Control, Stays, Waits, Fetching
  <2>3. CASE ~GivesUp /\ ~(Stays("clone") /\ Waits /\ proc'.want = proc.want)
    <3>1. /\ proc # Idle /\ proc.at = "checkout" /\ UNCHANGED manifest
          /\ Skips \/ Brings(Entry(item.dep, proc.want))
      BY <1>8, <2>3, CheckoutCases DEF Repeats
    <3> QED
      BY <1>3, <3>1 DEF Fetching
  <2> QED
    BY <2>1, <2>2, <2>3
<1>9. ASSUME NEW at \in Fetching, proc # Idle, proc.at \in Fetching, proc' = [proc EXCEPT !.at = at],
             UNCHANGED manifest,
             at = "rename" => \A x \in Dirs(tmp', item.dep.name, proc.want) : x.files = "whole"
      PROVE  Control'
  <2>1. Stays(at) /\ Waits /\ proc'.want = proc.want
    BY <1>9, StepsOn
  <2>2. item' = item
    BY <2>1 DEF Waits, item
  <2>3. at = "rename" => \A x \in Dirs(tmp', item'.dep.name, proc'.want) : x.files = "whole"
    BY <1>9, <2>1, <2>2
  <2>4. proc'.at = at /\ proc'.lock = proc.lock /\ proc'.queue = proc.queue
    BY <2>1 DEF Stays, Waits
  <2> QED
    BY <1>9, <2>1, <2>2, <2>3, <2>4 DEF Control, Fetching, Dirs
<1>10. CASE Clone
  BY <1>1, <1>9, <1>10, CloneCases DEF Fetching, GivesUp
<1>11. CASE FillFiles
  <2>1. tmp' = Cleared \cup {Dir("whole")} => \A x \in Dirs(tmp', item.dep.name, proc.want) : x.files = "whole"
    BY DEF Dirs, Cleared, Dir
  <2> QED
    BY <1>1, <1>9, <1>11, <2>1, FillFilesCases DEF Fetching, GivesUp
<1>12. CASE Rename
  BY <1>1, <1>9, <1>12, RenameCases DEF Fetching, GivesUp
<1>13. CASE OpenLock \/ Done
  <2>1. CASE proc' = Idle
    BY <1>1, <2>1
  <2>2. CASE proc' # Idle
    <3>1. proc.at = "resolve" /\ Stays("lock") /\ Waits /\ UNCHANGED manifest /\ proc.queue = <<>>
      BY <1>13, <2>2, LockCases DEF GivesUp
    <3> QED
      BY <3>1 DEF Control, Stays, Waits, Fetching
  <2> QED
    BY <2>1, <2>2
<1>14. CASE Crash
  BY <1>1, <1>14, CrashCases
<1>15. CASE RepairManifest \/ NewMachine \/ Push \/ UNCHANGED vars
  <2>1. CASE proc = Idle
    BY <1>1, <1>15, <2>1, OutsideCases
  <2>2. CASE proc # Idle
    <3>1. UNCHANGED <<lock, proc, manifest, tmp>>
      BY <1>15, <2>2, OutsideCases DEF vars
    <3> QED
      BY <3>1 DEF Control, item, Dirs
  <2> QED
    BY <2>1, <2>2
<1> QED
  BY <1>4, <1>5, <1>6, <1>7, <1>8, <1>10, <1>11, <1>12, <1>13, <1>14, <1>15 DEF Next

(* Only the rename and a new machine change the checkouts.                  *)
LEMMA CacheNext == ASSUME WellFormed, Shape, Control, CacheComplete, [Next]_vars PROVE CacheComplete'
<1>1. CASE Rename
  BY <1>1, RenameCases DEF CacheComplete, Control
<1>2. CASE RepairManifest \/ NewMachine \/ Push \/ UNCHANGED vars
  <2>1. cache' = cache \/ cache' = {}
    BY <1>2, Zenon DEF RepairManifest, NewMachine, Push, vars, disk
  <2> QED
    BY <2>1 DEF CacheComplete
<1>3. CASE ~Rename /\ ~(RepairManifest \/ NewMachine \/ Push \/ UNCHANGED vars)
  <2>1. cache' = cache
    <3>1. Start("build") \/ Start("fetch") => cache' = cache
      BY Zenon DEF Start, disk
    <3>2. StartAdd \/ WriteManifest => cache' = cache
      BY Zenon DEF StartAdd, WriteManifest
    <3>3. Resolve \/ Checkout => cache' = cache
      BY Zenon DEF Resolve, Checkout
    <3>4. Clone \/ FillFiles \/ OpenLock \/ Done \/ Crash => cache' = cache
      BY Zenon DEF Clone, FillFiles, OpenLock, Done, Crash
    <3> QED
      BY <1>3, <3>1, <3>2, <3>3, <3>4 DEF Next
  <2> QED
    BY <2>1 DEF CacheComplete
<1> QED
  BY <1>1, <1>2, <1>3

(* A command keeps the lock, and all but add the manifest, until it ends.   *)
LEMMA KeptNext == ASSUME WellFormed, Shape, Control, Kept, [Next]_vars PROVE Kept'
<1>1. ASSUME proc' = Idle PROVE Kept'
  BY <1>1 DEF Kept, Idle
<1>2. ASSUME NEW at, Stays(at), proc # Idle, proc.at \notin {"idle", "lock"}, UNCHANGED <<manifest, lock>>
      PROVE  Kept'
  BY <1>2 DEF Kept, Stays
<1>3. ASSUME NEW cmd \in {"build", "fetch"}, Start(cmd) PROVE Kept'
  BY <1>1, <1>3, StartCases DEF Begins, Kept, disk
<1>4. CASE StartAdd
  BY <1>1, <1>4, StartAddCases DEF Begins, Kept
<1>5. CASE WriteManifest
  BY <1>1, <1>5, WriteManifestCases DEF Kept, Control, Stays
<1>6. CASE Resolve
  <2>1. lock' = lock
    BY <1>6, Zenon DEF Resolve
  <2>2. CASE GivesUp
    BY <1>1, <1>6, <2>2, ResolveCases, GivesUpFacts
  <2>3. CASE ~GivesUp
    <3>1. proc # Idle /\ proc.at = "resolve" /\ UNCHANGED manifest /\ \E at : Stays(at)
      BY <1>6, <2>3, ResolveCases DEF Skips, Chooses, Brings, Repeats
    <3> QED
      BY <1>2, <2>1, <3>1
  <2> QED
    BY <2>2, <2>3
<1>7. CASE Checkout
  <2>1. lock' = lock
    BY <1>7, Zenon DEF Checkout
  <2>2. CASE GivesUp
    BY <1>1, <1>7, <2>2, CheckoutCases, GivesUpFacts
  <2>3. CASE ~GivesUp
    <3>1. proc # Idle /\ proc.at = "checkout" /\ UNCHANGED manifest /\ \E at : Stays(at)
      BY <1>7, <2>3, CheckoutCases DEF Skips, Brings, Repeats
    <3> QED
      BY <1>2, <2>1, <3>1
  <2> QED
    BY <2>2, <2>3
<1>8. CASE Clone \/ FillFiles \/ Rename
  <2>1. /\ proc # Idle /\ proc.at \in Fetching /\ UNCHANGED lock
        /\ proc' = Idle \/ \E at \in Fetching : UNCHANGED manifest /\ proc' = [proc EXCEPT !.at = at]
    BY <1>8, CloneCases, FillFilesCases, RenameCases DEF Fetching, GivesUp
  <2> QED
    BY <1>1, <1>2, <2>1, StepsOn DEF Fetching
<1>9. CASE OpenLock \/ Done
  <2>1. CASE proc' # Idle
    <3>1. proc.at = "resolve" /\ Stays("lock") /\ UNCHANGED manifest /\ proc # Idle
      BY <1>9, <2>1, LockCases DEF GivesUp
    <3> QED
      BY <3>1 DEF Kept, Stays
  <2> QED
    BY <1>1, <2>1
<1>10. CASE Crash
  BY <1>1, <1>10, CrashCases
<1>11. CASE RepairManifest \/ NewMachine \/ Push \/ UNCHANGED vars
  <2>1. CASE proc = Idle
    BY <1>1, <1>11, <2>1, OutsideCases
  <2>2. CASE proc # Idle
    <3>1. UNCHANGED <<lock, proc, manifest>>
      BY <1>11, <2>2, OutsideCases DEF vars
    <3> QED
      BY <3>1 DEF Kept
  <2> QED
    BY <2>1, <2>2
<1> QED
  BY <1>3, <1>4, <1>5, <1>6, <1>7, <1>8, <1>9, <1>10, <1>11 DEF Next

(* What a command brings agrees with the pins it goes by.                   *)
LEMMA PinsNext == ASSUME WellFormed, Shape, Control, Kept, Pins, [Next]_vars PROVE Pins'
<1>1. ASSUME proc' = Idle, Regular(lock') PROVE Pins'
  BY <1>1 DEF Pins, Idle, Fetching
<1>2. ASSUME NEW cmd, NEW deps, Begins(cmd, deps), proc = Idle, proc'.at \in {"resolve", "edit"} PROVE Pins'
  <2>1. Regular({})
    BY DEF Regular
  <2>2. lock' = lock /\ Regular(lock)
    BY <1>2 DEF Begins, disk, Pins
  <2>3. Regular(Locking(cmd)) /\ Locking(cmd) = IF cmd = "fetch" THEN {} ELSE lock
    BY <2>1, <2>2 DEF Locking
  <2>4. /\ proc'.before = lock /\ proc'.lock = Locking(cmd) /\ proc'.done = {} /\ proc'.cmd = cmd
        /\ proc'.at \notin Fetching
    BY <1>2 DEF Begins, Fetching
  <2> QED
    BY <2>1, <2>2, <2>3, <2>4 DEF Pins
<1>3. ASSUME NEW at, Stays(at), proc'.done = proc.done, proc # Idle, UNCHANGED lock,
             at \in Fetching => (proc.at \in Fetching /\ Waits /\ proc'.want = proc.want)
      PROVE  Pins'
  <2>1. at \in Fetching => item' = item /\ Locked(item.dep)' = Locked(item.dep)
    BY <1>3 DEF Waits, Stays, item, Locked
  <2>2. proc'.at \in Fetching => \A e \in Locked(item.dep)' : e.commit = proc'.want
    BY <1>3, <2>1 DEF Pins, Stays
  <2>3. /\ Regular(lock') /\ Regular(proc'.before) /\ Regular(proc'.lock) /\ Regular(proc'.done)
        /\ proc'.lock = IF proc'.cmd = "fetch" THEN {} ELSE proc'.before
    BY <1>3 DEF Pins, Stays
  <2>4. \A x \in proc'.done, e \in proc'.lock :
            (x.name = e.name /\ x.url = e.url /\ x.rev = e.rev) => x.commit = e.commit
    BY <1>3 DEF Pins, Stays
  <2> QED
    BY <2>2, <2>3, <2>4 DEF Pins
<1>4. ASSUME Skips, proc # Idle, UNCHANGED lock PROVE Pins'
  BY <1>4 DEF Pins, Skips, Stays, Fetching
<1>5. ASSUME NEW c \in Pinnable, Brings(Entry(item.dep, c)), proc # Idle, UNCHANGED lock,
             IF IsGit(item.dep) THEN proc.at \in Fetching /\ c = proc.want ELSE c = item.dep.rev
      PROVE  Pins'
  <2> DEFINE d == item.dep
             n == Entry(d, c)
  <2>1. n.name = d.name /\ n.url = d.url /\ n.rev = d.rev /\ n.commit = c
    BY EntryFacts
  <2>2. /\ Regular(lock') /\ Regular(proc.before) /\ Regular(proc.lock) /\ Regular(proc.done)
        /\ proc.lock = IF proc.cmd = "fetch" THEN {} ELSE proc.before
        /\ \A x \in proc.done, e \in proc.lock :
             (x.name = e.name /\ x.url = e.url /\ x.rev = e.rev) => x.commit = e.commit
    BY <1>5 DEF Pins
  <2>3. \A e \in proc.lock : (d.name = e.name /\ d.url = e.url /\ d.rev = e.rev) => c = e.commit
    <3>1. CASE IsGit(d)
      <4>1. c = proc.want /\ \A e \in Locked(d) : e.commit = proc.want
        BY <1>5, <3>1 DEF Pins
      <4> QED
        BY <4>1 DEF Locked
    <3>2. CASE ~IsGit(d)
      BY <1>5, <2>2, <3>2 DEF Regular, IsGit
    <3> QED
      BY <3>1, <3>2
  <2>4. /\ proc'.at \notin Fetching /\ proc'.cmd = proc.cmd /\ proc'.lock = proc.lock
        /\ proc'.before = proc.before /\ proc'.done = proc.done \cup {n}
        /\ \A x \in proc.done : x.name # n.name
    BY <1>5 DEF Brings, Stays, Fetching
  <2>5. IsGit(n) = IsGit(d) /\ (~IsGit(d) => c = d.rev)
    BY <1>5, <2>1 DEF IsGit
  <2> HIDE DEF n, d
  <2>6. Regular(proc'.done)
    BY <2>1, <2>2, <2>4, <2>5 DEF Regular
  <2> QED
    BY <2>1, <2>2, <2>3, <2>4, <2>6 DEF Pins
<1>6. ASSUME NEW cmd \in {"build", "fetch"}, Start(cmd) PROVE Pins'
  <2>1. lock' = lock /\ proc = Idle /\ (proc' = Idle \/ (Begins(cmd, manifest) /\ proc'.at = "resolve"))
    BY <1>6, StartCases DEF disk
  <2> QED
    BY <1>1, <1>2, <2>1 DEF Pins
<1>7. CASE StartAdd
  <2>1. CASE proc' = Idle
    BY <1>1, <1>7, <2>1, StartAddCases DEF Pins
  <2> QED
    BY <1>2, <1>7, <2>1, StartAddCases
<1>8. CASE WriteManifest
  <2>1. CASE proc' = Idle
    BY <1>1, <1>8, <2>1, WriteManifestCases DEF Pins
  <2>2. CASE proc' # Idle
    BY <1>3, <1>8, <2>2, WriteManifestCases DEF Fetching
  <2> QED
    BY <2>1, <2>2
<1>9. CASE Resolve
  <2>1. lock' = lock /\ proc # Idle /\ proc.at = "resolve"
    BY <1>9, ResolveCases, Zenon DEF Resolve
  <2>2. CASE GivesUp
    BY <1>1, <2>1, <2>2, GivesUpFacts DEF Pins
  <2>3. CASE ~GivesUp /\ Chooses
    <3>1. item' = item /\ Locked(item.dep)' = Locked(item.dep)
      BY <2>3 DEF Chooses, Stays, Waits, item, Locked
    <3>2. Regular(proc.lock)
      BY <2>1 DEF Pins
    <3>3. \A e \in Locked(item.dep) : e.commit = proc'.want
      BY <2>3, <3>2 DEF Chooses, Regular, Locked
    <3>4. Stays("checkout") /\ Waits
      BY <2>3 DEF Chooses
    <3> QED
      BY <2>1, <3>1, <3>3, <3>4 DEF Pins, Stays, Waits
  <2>4. CASE ~GivesUp /\ ~Chooses
    BY <1>4, <1>5, <1>9, <2>1, <2>4, ResolveCases DEF Repeats
  <2> QED
    BY <2>2, <2>3, <2>4
<1>10. CASE Checkout
  <2>1. lock' = lock /\ proc # Idle /\ proc.at = "checkout" /\ IsGit(item.dep)
    BY <1>10, CheckoutCases, Zenon DEF Checkout
  <2>2. CASE GivesUp
    BY <1>1, <2>1, <2>2, GivesUpFacts DEF Pins
  <2>3. CASE ~GivesUp
    <3>1. CASE Stays("clone") /\ Waits /\ proc'.want = proc.want
      BY <1>3, <2>1, <3>1 DEF Waits, Fetching
    <3>2. CASE ~(Stays("clone") /\ Waits /\ proc'.want = proc.want)
      BY <1>4, <1>5, <1>10, <2>1, <2>3, <3>2, CheckoutCases DEF Repeats, Fetching
    <3> QED
      BY <3>1, <3>2
  <2> QED
    BY <2>2, <2>3
<1>11. CASE Clone \/ FillFiles \/ Rename
  <2>1. /\ proc # Idle /\ proc.at \in Fetching /\ UNCHANGED lock
        /\ proc' = Idle \/ \E at \in Fetching : proc' = [proc EXCEPT !.at = at]
    BY <1>11, CloneCases, FillFilesCases, RenameCases DEF Fetching, GivesUp
  <2>2. CASE proc' = Idle
    BY <1>1, <2>1, <2>2 DEF Pins
  <2>3. CASE proc' # Idle
    BY <1>3, <2>1, <2>3, StepsOn DEF Waits
  <2> QED
    BY <2>2, <2>3
<1>12. proc # Idle /\ proc.at = "lock" => \A K \in CutLocks(proc.done) : Regular(K)
  BY Stepping, CutLockFacts DEF Pins, Command
<1>13. CASE OpenLock \/ Done
  <2>1. Regular(TornLock)
    BY DEF Regular, TornLock, IsGit
  <2>2. Regular(proc.done) /\ Regular(lock) /\ proc # Idle
    BY <1>13, LockCases DEF Pins
  <2>3. CASE proc' = Idle
    <3>1. lock' = proc.done \/ lock' = lock \/ (proc.at = "lock" /\ lock' \in CutLocks(proc.done))
      BY <1>13, <2>3, LockCases DEF Stays, Command, Fetching, Idle
    <3> QED
      BY <1>1, <1>12, <2>2, <2>3, <3>1
  <2>4. CASE proc' # Idle
    <3>1. lock' = TornLock /\ Stays("lock") /\ Waits
      BY <1>13, <2>4, LockCases DEF GivesUp
    <3> QED
      BY <2>1, <2>2, <3>1 DEF Pins, Stays, Waits, Fetching
  <2> QED
    BY <2>3, <2>4
<1>14. CASE Crash
  BY <1>1, <1>12, <1>14, CrashCases DEF Pins
<1>15. CASE RepairManifest \/ NewMachine \/ Push \/ UNCHANGED vars
  <2>1. UNCHANGED <<lock, proc>>
    BY <1>15, OutsideCases
  <2> QED
    BY <2>1 DEF Pins, Locked, item
<1> QED
  BY <1>6, <1>7, <1>8, <1>9, <1>10, <1>11, <1>13, <1>14, <1>15 DEF Next

(* What an item's requirements put in the queue is not lost on the way.     *)
LEMMA ReachedGrows ==
  ASSUME Shape, proc # Idle, proc.queue # <<>>, NEW more \in Seq(Items), proc'.queue = Tail(proc.queue) \o more,
         proc.done \subseteq proc'.done, item.dep.name \in LockNames(proc'.done)
  PROVE  Reached \subseteq Reached' /\ \A i \in DOMAIN more : more[i].dep.name \in Reached'
<1> DEFINE q == proc.queue
           rest == Tail(q)
<1>1. q \in Seq(Items) /\ q # <<>>
  BY Stepping
<1>2. rest \in Seq(Items) /\ DOMAIN q = 1 .. Len(q) /\ DOMAIN rest = 1 .. Len(rest) /\ DOMAIN more = 1 .. Len(more)
  BY <1>1
<1>3. Len(rest) = Len(q) - 1 /\ \A i \in 1 .. Len(rest) : rest[i] = q[i + 1]
  BY <1>1
<1>4. /\ Len(rest \o more) = Len(rest) + Len(more) /\ DOMAIN (rest \o more) = 1 .. Len(rest \o more)
      /\ \A i \in 1 .. Len(rest) : (rest \o more)[i] = rest[i]
      /\ \A i \in 1 .. Len(more) : (rest \o more)[Len(rest) + i] = more[i]
  BY <1>2
<1>5. Len(rest) \in Nat /\ Len(more) \in Nat
  BY <1>2
<1>6. item = q[1]
  BY <1>1 DEF item
<1>7. proc'.queue = rest \o more
  OBVIOUS
<1> DEFINE Q == rest \o more
<1>8. \A i \in DOMAIN more : Len(rest) + i \in DOMAIN Q /\ Q[Len(rest) + i] = more[i]
  BY <1>2, <1>4, <1>5, SMTT(30)
<1>9. \A i \in DOMAIN q : i = 1 \/ (i - 1 \in DOMAIN Q /\ Q[i - 1] = q[i])
  <2>1. ASSUME NEW i \in DOMAIN q, i # 1 PROVE i - 1 \in DOMAIN Q /\ Q[i - 1] = q[i]
    <3>1. i - 1 \in 1 .. Len(rest) /\ (i - 1) + 1 = i
      BY <1>2, <1>3, <1>5, <2>1
    <3>2. Q[i - 1] = rest[i - 1] /\ rest[i - 1] = q[(i - 1) + 1]
      BY <1>3, <1>4, <3>1
    <3> QED
      BY <1>4, <1>5, <3>1, <3>2
  <2> QED
    BY <2>1
<1> HIDE DEF q, Q, rest
<1>10. Reached' = LockNames(proc'.done) \cup {Q[i].dep.name : i \in DOMAIN Q}
  BY <1>7 DEF Reached, Q, LockNames
<1>11. \A x \in LockNames(proc.done) : x \in LockNames(proc'.done)
  BY DEF LockNames
<1>12. Reached = LockNames(proc.done) \cup {q[i].dep.name : i \in DOMAIN q}
  BY DEF Reached, q
<1>13. \A x \in {Q[i].dep.name : i \in DOMAIN Q} : x \in Reached'
  BY <1>10
<1>14. \A i \in DOMAIN more : more[i].dep.name \in Reached'
  BY <1>8, <1>13
<1>15. \A i \in DOMAIN q : q[i].dep.name \in Reached'
  <2>1. LockNames(proc'.done) \subseteq Reached'
    BY <1>10
  <2> TAKE i \in DOMAIN q
  <2>2. CASE i = 1
    BY <1>6, <2>1, <2>2
  <2>3. CASE i # 1
    BY <1>9, <1>13, <2>3
  <2> QED
    BY <2>2, <2>3
<1>16. \A x \in LockNames(proc.done) : x \in Reached'
  BY <1>10, <1>11
<1> QED
  BY <1>12, <1>14, <1>15, <1>16

(* The directories of the packages that are done stay, but on a new machine. *)
LEMMA CacheGrows ==
  ASSUME WellFormed, Shape, Control, [Next]_vars, NEW L, CheckedOut(L), proc # Idle
  PROVE  \A e \in L : (IsGit(e) /\ e.commit \notin Stubs) => Dirs(cache', e.name, e.commit) # {}
<1>1. cache \subseteq cache'
  <2>1. Start("build") \/ Start("fetch") => cache' = cache
    BY Zenon DEF Start, disk
  <2>2. StartAdd \/ WriteManifest => cache' = cache
    BY Zenon DEF StartAdd, WriteManifest
  <2>3. Resolve \/ Checkout => cache' = cache
    BY Zenon DEF Resolve, Checkout
  <2>4. Clone \/ FillFiles \/ OpenLock \/ Done \/ Crash => cache' = cache
    BY Zenon DEF Clone, FillFiles, OpenLock, Done, Crash
  <2>5. RepairManifest \/ NewMachine \/ Push \/ UNCHANGED vars => cache' = cache
    BY Zenon DEF RepairManifest, NewMachine, Push, vars, disk
  <2>6. Rename => cache \subseteq cache'
    BY RenameCases
  <2> QED
    BY <2>1, <2>2, <2>3, <2>4, <2>5, <2>6 DEF Next
<1> QED
  BY <1>1 DEF CheckedOut, Dirs

(* Every step keeps what is known reached.                                  *)
LEMMA ClosingNext ==
  ASSUME WellFormed, Shape, Control, Closing, [Next]_vars
  PROVE  Closing'
<1>1. ASSUME proc' = Idle PROVE Closing'
  BY <1>1 DEF Closing
<1>2. ASSUME proc # Idle
      PROVE  /\ CheckedOut(proc.done)
             /\ \A e \in proc.done : (IsGit(e) /\ e.commit \notin Stubs) => Dirs(cache', e.name, e.commit) # {}
  BY <1>2, CacheGrows DEF Closing
<1>3. ASSUME NEW at, Stays(at), Waits, proc # Idle, proc.at # "edit", UNCHANGED manifest PROVE Closing'
  <2>1. Reached' = Reached /\ proc'.done = proc.done
    BY <1>3 DEF Waits, Reached
  <2>2. CheckedOut(proc.done)'
    BY <1>2, <1>3, <2>1 DEF CheckedOut
  <2> QED
    BY <1>3, <2>1, <2>2 DEF Closing
<1>4. ASSUME proc # Idle, proc.at # "edit", proc.queue # <<>>, UNCHANGED manifest,
             Skips, item.dep.name \in LockNames(proc.done)
      PROVE  Closing'
  <2>1. proc'.queue = Tail(proc.queue) \o <<>> /\ <<>> \in Seq(Items) /\ proc'.done = proc.done
    BY <1>4, Stepping DEF Skips
  <2>2. Reached \subseteq Reached'
    BY <1>4, <2>1, ReachedGrows
  <2>3. CheckedOut(proc.done)'
    BY <1>2, <1>4, <2>1 DEF CheckedOut
  <2> QED
    BY <1>4, <2>1, <2>2, <2>3 DEF Closing
<1>5. ASSUME NEW c \in Pinnable, proc # Idle, proc.at # "edit", proc.queue # <<>>, UNCHANGED manifest,
             Brings(Entry(item.dep, c)),
             (IsGit(item.dep) /\ c \notin Stubs) => Dirs(cache', item.dep.name, c) # {}
      PROVE  Closing'
  <2> DEFINE e == Entry(item.dep, c)
             R == Requires(e)
             more == [i \in DOMAIN R |-> [dep |-> R[i], by |-> e.name]]
  <2>1. e.name = item.dep.name /\ e.url = item.dep.url /\ e.commit = c
    BY EntryFacts
  <2>2. R \in Seq(Known) /\ item.dep \in Known
    BY <1>5, <2>1, Stepping, RequiresFacts
  <2>3. more \in Seq(Items) /\ DOMAIN more = DOMAIN R /\ \A i \in DOMAIN more : more[i].dep = R[i]
    <3> DEFINE by == e.name
    <3>1. by \in {d.name : d \in Known}
      BY <2>1, <2>2
    <3>2. more = [i \in DOMAIN R |-> [dep |-> R[i], by |-> by]]
      OBVIOUS
    <3> HIDE DEF R, by, e, more
    <3>3. \A i \in DOMAIN R : [dep |-> R[i], by |-> by] \in Items
      BY <2>2, <3>1 DEF Items
    <3>4. [i \in DOMAIN R |-> [dep |-> R[i], by |-> by]] \in Seq(Items)
      <4>1. DOMAIN R = 1 .. Len(R) /\ Len(R) \in Nat
        BY <2>2
      <4> QED
        BY <3>3, <4>1
    <3>5. DOMAIN more = DOMAIN R /\ \A i \in DOMAIN more : more[i].dep = R[i]
      BY <3>2
    <3> QED
      BY <3>2, <3>4, <3>5
  <2>4. proc'.queue = Tail(proc.queue) \o more /\ proc'.done = proc.done \cup {e}
    BY <1>5, Zenon DEF Brings
  <2> HIDE DEF more, R, e
  <2>5. item.dep.name \in LockNames(proc'.done)
    BY <2>1, <2>4 DEF LockNames
  <2>6. Reached \subseteq Reached' /\ \A i \in DOMAIN more : more[i].dep.name \in Reached'
    BY <1>5, <2>3, <2>4, <2>5, ReachedGrows
  <2>7. \A i \in DOMAIN Requires(e) : Requires(e)[i].name \in Reached'
    BY <2>3, <2>6 DEF R
  <2>8. (IsGit(e) /\ e.commit \notin Stubs) => Dirs(cache', e.name, e.commit) # {}
    BY <1>5, <2>1 DEF IsGit
  <2>9. CheckedOut(proc.done)' 
    BY <1>2, <1>5, <2>4, <2>8 DEF CheckedOut
  <2>10. \A x \in proc'.done : \A i \in DOMAIN Requires(x) : Requires(x)[i].name \in Reached'
    BY <1>5, <2>4, <2>6, <2>7 DEF Closing
  <2>11. \A i \in DOMAIN manifest' : manifest'[i].name \in Reached'
    BY <1>5, <2>6 DEF Closing
  <2> QED
    BY <2>9, <2>10, <2>11 DEF Closing
<1>6. ASSUME NEW cmd \in {"build", "fetch"}, Start(cmd) PROVE Closing'
  <2>1. CASE proc' # Idle
    <3>1. Begins(cmd, manifest) /\ manifest' = manifest
      BY <1>6, <2>1, StartCases DEF disk
    <3>2. \A i \in DOMAIN manifest' : manifest'[i].name \in Reached'
      BY <3>1 DEF Begins, Reached
    <3> QED
      BY <3>1, <3>2 DEF Begins, Closing, CheckedOut
  <2> QED
    BY <1>1, <2>1
<1>7. CASE StartAdd
  BY <1>1, <1>7, StartAddCases DEF Begins, Closing, CheckedOut
<1>8. CASE WriteManifest
  <2>1. CASE proc' # Idle
    <3>1. /\ \A i \in DOMAIN manifest' : i \in DOMAIN proc'.queue /\ proc'.queue[i].dep = manifest'[i]
          /\ proc'.done = proc.done /\ proc.at = "edit"
      BY <1>8, <2>1, WriteManifestCases
    <3>2. proc.done = {}
      BY <3>1 DEF Control
    <3>3. \A i \in DOMAIN manifest' : manifest'[i].name \in Reached'
      BY <3>1 DEF Reached
    <3> QED
      BY <3>1, <3>2, <3>3 DEF Closing, CheckedOut
  <2> QED
    BY <1>1, <2>1
<1>9. CASE Resolve
  <2>1. CASE GivesUp
    BY <1>1, <1>9, <2>1, ResolveCases, GivesUpFacts
  <2>2. CASE ~GivesUp
    <3>1. proc # Idle /\ proc.at # "edit" /\ proc.queue # <<>> /\ UNCHANGED manifest
      BY <1>9, <2>2, ResolveCases
    <3>2. CASE item.dep.name = Root /\ Skips
      BY <1>4, <3>1, <3>2 DEF LockNames
    <3>3. CASE Chooses
      BY <1>3, <3>1, <3>3 DEF Chooses
    <3>4. ASSUME NEW c \in Pinnable, ~IsGit(item.dep), Brings(Entry(item.dep, c)) \/ Repeats(Entry(item.dep, c))
          PROVE  Closing'
      BY <1>4, <1>5, <3>1, <3>4, EntryFacts DEF Repeats, LockNames
    <3> QED
      BY <1>9, <2>2, <3>2, <3>3, <3>4, ResolveCases
  <2> QED
    BY <2>1, <2>2
<1>10. CASE Checkout
  <2>1. CASE GivesUp
    BY <1>1, <1>10, <2>1, CheckoutCases, GivesUpFacts
  <2>2. CASE ~GivesUp
    <3>1. proc # Idle /\ proc.at # "edit" /\ proc.queue # <<>> /\ UNCHANGED manifest
      BY <1>10, <2>2, CheckoutCases
    <3>2. CASE Stays("clone") /\ Waits
      BY <1>3, <3>1, <3>2
    <3>3. CASE /\ Dirs(cache, item.dep.name, proc.want) # {} \/ proc.want \in Stubs
               /\ proc.want \in Pinnable
               /\ Brings(Entry(item.dep, proc.want)) \/ Repeats(Entry(item.dep, proc.want))
      <4>1. cache' = cache
        BY <1>10, Zenon DEF Checkout
      <4> QED
        BY <1>4, <1>5, <3>1, <3>3, <4>1, EntryFacts DEF Repeats, LockNames
    <3> QED
      BY <1>10, <2>2, <3>2, <3>3, CheckoutCases
  <2> QED
    BY <2>1, <2>2
<1>11. CASE Clone \/ FillFiles \/ Rename
  <2>1. /\ proc # Idle /\ proc.at \in Fetching
        /\ proc' = Idle \/ \E at \in Fetching : UNCHANGED manifest /\ proc' = [proc EXCEPT !.at = at]
    BY <1>11, CloneCases, FillFilesCases, RenameCases DEF Fetching, GivesUp
  <2> QED
    BY <1>1, <1>3, <2>1, StepsOn DEF Fetching
<1>12. CASE OpenLock \/ Done
  BY <1>1, <1>3, <1>12, LockCases DEF GivesUp
<1>13. CASE Crash
  BY <1>1, <1>13, CrashCases
<1>14. CASE RepairManifest \/ NewMachine \/ Push \/ UNCHANGED vars
  <2>1. CASE proc = Idle
    BY <1>1, <1>14, <2>1, OutsideCases
  <2>2. CASE proc # Idle
    <3>1. UNCHANGED <<proc, manifest, cache>>
      BY <1>14, <2>2, OutsideCases DEF vars
    <3> QED
      BY <3>1 DEF Closing, Reached, CheckedOut, Dirs
  <2> QED
    BY <2>1, <2>2
<1> QED
  BY <1>6, <1>7, <1>8, <1>9, <1>10, <1>11, <1>12, <1>13, <1>14 DEF Next

(* A successful command ends with an empty queue: all that is reached has its entry. *)
LEMMA LockClosesNext ==
  ASSUME WellFormed, Shape, Control, Closing, LockCloses, [Next]_vars
  PROVE  LockCloses'
<1>1. ASSUME last' # "ok" PROVE LockCloses'
  BY <1>1 DEF LockCloses
<1>2. ASSUME proc' # Idle PROVE LockCloses'
  BY <1>2 DEF LockCloses
<1>3. CASE OpenLock \/ Done
  <2>1. CASE proc' = Idle /\ last' = "ok"
    <3>1. /\ proc # Idle /\ UNCHANGED <<manifest, cache>> /\ proc.queue = <<>> /\ lock' = proc.done
          /\ proc.at # "edit"
      BY <1>3, <2>1, LockCases DEF GivesUp, Stays, Command, Fetching, Idle
    <3>2. Reached = LockNames(proc.done)
      BY <3>1 DEF Reached
    <3>3. Closed(proc.done) /\ CheckedOut(proc.done)
      BY <3>1, <3>2 DEF Closed, Closing, Requires
    <3>4. Closed(lock)' /\ CheckedOut(lock)'
      BY <3>1, <3>3 DEF Closed, CheckedOut, Dirs
    <3> QED
      BY <3>4 DEF LockCloses, CheckedOut
  <2> QED
    BY <1>1, <1>2, <2>1
<1>4. CASE RepairManifest \/ NewMachine \/ Push \/ UNCHANGED vars
  <2>1. CASE last' = "ok" /\ proc' = Idle
    <3>1. /\ UNCHANGED <<lock, proc, cache, last, commands>>
          /\ manifest' = manifest \/ manifest' = <<>>
      BY <1>4, <2>1, OutsideCases DEF vars
    <3> QED
      BY <2>1, <3>1 DEF LockCloses, Closed, Dirs
  <2> QED
    BY <1>1, <1>2, <2>1
<1>5. ASSUME NEW cmd \in {"build", "fetch"}, Start(cmd) PROVE LockCloses'
  BY <1>1, <1>5, StartCases
<1>6. CASE StartAdd
  BY <1>1, <1>6, StartAddCases
<1>7. CASE WriteManifest
  BY <1>1, <1>2, <1>7, WriteManifestCases DEF Stays, Command, Idle
<1>8. ASSUME \/ GivesUp /\ proc # Idle
             \/ Skips \/ Chooses \/ \E e : Brings(e) \/ Repeats(e)
             \/ \E at : Stays(at)
      PROVE  LockCloses'
  <2>1. CASE GivesUp /\ proc # Idle
    BY <1>1, <2>1, GivesUpFacts
  <2>2. CASE \E at : Stays(at)
    <3>1. proc' \in Command
      BY <2>2 DEF Stays
    <3>2. proc'.at # "idle"
      BY <3>1 DEF Command, Fetching
    <3>3. proc' # Idle
      BY <3>2 DEF Idle
    <3> QED
      BY <1>2, <3>3
  <2> QED
    BY <1>8, <2>1, <2>2 DEF Skips, Chooses, Brings, Repeats
<1>9. CASE Resolve
  BY <1>8, <1>9, ResolveCases
<1>10. CASE Checkout
  BY <1>8, <1>10, CheckoutCases
<1>11. CASE Clone \/ FillFiles \/ Rename
  <2>1. /\ proc # Idle
        /\ GivesUp \/ \E at \in Fetching : proc' = [proc EXCEPT !.at = at]
    BY <1>11, CloneCases, FillFilesCases, RenameCases DEF Fetching
  <2> QED
    BY <1>8, <2>1, StepsOn
<1>12. CASE Crash
  BY <1>1, <1>12, CrashCases
<1> QED
  BY <1>3, <1>4, <1>5, <1>6, <1>7, <1>9, <1>10, <1>11, <1>12 DEF Next

(* IInv is inductive.                                                       *)
LEMMA NextInv == ASSUME WellFormed PROVE IInv /\ [Next]_vars => IInv'
  BY ShapeNext, ControlNext, CacheNext, KeptNext, PinsNext, ClosingNext, LockClosesNext DEF IInv

-----------------------------------------------------------------------------
(* The invariant holds from the first state of the disk on.                 *)
LEMMA Inductive == ASSUME WellFormed PROVE Spec => []IInv
  BY InitInv, NextInv, PTL DEF Spec

(* A COMMIT directory is the whole commit at every moment, whatever crashed:  *)
(* checkout of pkg.cpp renames it into place after git checkout has filled it. *)
THEOREM CacheIsComplete == ASSUME WellFormed PROVE Spec => []CacheComplete
<1>1. IInv => CacheComplete
  BY DEF IInv
<1> QED
  BY <1>1, Inductive, PTL

(* A command that succeeds leaves a lock that names every dependency of the *)
(* manifest and of the packages it names, each of them checked out.         *)
(* (resolveAndLock of pkg.cpp)                                              *)
THEOREM LockIsClosed == ASSUME WellFormed PROVE Spec => []LockCloses
<1>1. IInv => LockCloses
  BY DEF IInv
<1> QED
  BY <1>1, Inductive, PTL

(* A step that ends a command ends it well, or as far as it knows; or it    *)
(* fails, having put the manifest back unless that failed; or it is a crash. *)
LEMMA Endings ==
  ASSUME WellFormed, IInv, [Next]_vars, Ends
  PROVE  \/ last' = "ok" /\ lock' = proc.done /\ proc.at \in {"resolve", "lock"}
         \/ last' \in {"lost", "crashed"}
         \/ /\ last' # "ok" /\ proc.at # "idle" /\ (proc.at = "lock" \/ lock' = lock)
            /\ \/ last' = "unrestored" \/ (last' = "unwritten" /\ proc.at = "edit")
               \/ manifest' = IF proc.cmd = "add" THEN proc.old ELSE manifest
<1>0. Shape /\ Control /\ proc # Idle /\ proc' = Idle
  BY DEF IInv, Ends
<1>1. ASSUME NEW at, Stays(at) PROVE FALSE
  <2>1. proc'.at # "idle"
    BY <1>1 DEF Stays, Command, Fetching
  <2> QED
    BY <1>0, <2>1 DEF Idle
<1>2. ASSUME GivesUp, proc.at = "lock" \/ lock' = lock
      PROVE  /\ last' # "ok" /\ proc.at # "idle"
             /\ last' = "unrestored" \/ manifest' = IF proc.cmd = "add" THEN proc.old ELSE manifest
  BY <1>0, <1>2, GivesUpFacts, Stepping
<1>3. ~Start("build") /\ ~Start("fetch") /\ ~StartAdd
  BY <1>0, StartCases, StartAddCases
<1>4. CASE WriteManifest
  BY <1>0, <1>1, <1>4, WriteManifestCases DEF Control
<1>5. CASE Resolve
  <2>1. lock' = lock
    BY <1>5, Zenon DEF Resolve
  <2>2. GivesUp /\ proc.at = "resolve"
    BY <1>0, <1>1, <1>5, ResolveCases DEF Skips, Chooses, Brings, Repeats
  <2> QED
    BY <1>2, <2>1, <2>2
<1>6. CASE Checkout
  <2>1. lock' = lock
    BY <1>6, Zenon DEF Checkout
  <2>2. GivesUp /\ proc.at = "checkout"
    BY <1>0, <1>1, <1>6, CheckoutCases DEF Skips, Brings, Repeats
  <2> QED
    BY <1>2, <2>1, <2>2
<1>7. CASE Clone \/ FillFiles \/ Rename
  <2>1. UNCHANGED lock /\ (GivesUp \/ \E at \in Fetching : proc' = [proc EXCEPT !.at = at])
    BY <1>0, <1>7, CloneCases, FillFilesCases, RenameCases DEF Fetching
  <2> QED
    BY <1>0, <1>1, <1>2, <2>1, StepsOn
<1>8. CASE OpenLock \/ Done
  BY <1>0, <1>1, <1>2, <1>8, LockCases
<1>9. CASE Crash
  BY <1>0, <1>9, CrashCases
<1>10. ~(RepairManifest \/ NewMachine \/ Push \/ UNCHANGED vars)
  BY <1>0, OutsideCases
<1> QED
  BY <1>3, <1>4, <1>5, <1>6, <1>7, <1>8, <1>9, <1>10 DEF Next

(* A successful build or add keeps the commit of every dependency that the  *)
(* lock pinned before it. (the lock test of resolveAndLock, pkg.cpp)        *)
THEOREM LockIsKept == ASSUME WellFormed PROVE Spec => LockPins
<1>1. IInv /\ [Next]_vars => KeepsPins
  <2> SUFFICES ASSUME IInv, [Next]_vars, Ends, last' = "ok", proc.cmd # "fetch",
                      NEW e \in proc.before, NEW x \in lock', x.name = e.name, x.url = e.url, x.rev = e.rev
               PROVE  x.commit = e.commit
    BY DEF KeepsPins
  <2>1. lock' = proc.done /\ proc # Idle
    BY Endings DEF Ends
  <2>2. proc.lock = proc.before
    BY <2>1 DEF IInv, Pins
  <2> QED
    BY <2>1, <2>2 DEF IInv, Pins
<1> QED
  BY <1>1, Inductive, PTL DEF Spec, LockPins

(* A command that reports an error leaves the manifest and the lock as they *)
(* were, but for the file whose write the disk refuses; even when that is   *)
(* the lock, the manifest is put back. (the catch of cmdAdd, and writeLock  *)
(* as the last step, pkg.cpp)                                               *)
THEOREM FailureIsClean == ASSUME WellFormed PROVE Spec => FailureChangesNothing
<1>1. IInv /\ [Next]_vars => FailsCleanly
  <2> SUFFICES ASSUME IInv, [Next]_vars, Ends, last' \notin {"ok", "lost", "crashed"}
               PROVE  /\ \/ manifest' = proc.old \/ last' = "unrestored"
                         \/ last' = "unwritten" /\ proc.at = "edit"
                      /\ lock' = proc.before \/ proc.at = "lock"
    BY DEF FailsCleanly
  <2>1. /\ proc # Idle /\ proc.at # "idle" /\ (proc.at = "lock" \/ lock' = lock)
        /\ \/ last' = "unrestored" \/ (last' = "unwritten" /\ proc.at = "edit")
           \/ manifest' = IF proc.cmd = "add" THEN proc.old ELSE manifest
    BY Endings DEF Ends
  <2> QED
    BY <2>1 DEF IInv, Kept
<1> QED
  BY <1>1, Inductive, PTL DEF Spec, FailureChangesNothing
-----------------------------------------------------------------------------
(* What crashes leave behind heals: the mirrors, and what commands know of  *)
(* the remotes, never claim more than the remotes have, which they keep.    *)
Held(u) == Range(Remote(u))
Genuine(S) == \A e \in S : IsGit(e) => e.url \in Urls /\ e.commit \in Held(e.url) \cup Stubs
Mirrored ==
  \A n \in Names : LET m == mirror[n]
                  IN Range(m.revs) \subseteq m.has /\ (m.url \in Urls => m.has \subseteq Held(m.url))

(* The commit to check out is locked, or was resolved in this command.      *)
Pinned(d, c) ==
  \/ \E e \in Locked(d) : e.commit = c
  \/ \E r \in proc.revs : r.url = d.url /\ r.commit = c

(* A mirror asked in this command has all that the command knows of its URL, *)
(* but for the HEAD that it does not follow.                                *)
Follows(m, R) ==
  /\ Range(R) \subseteq m.has
  /\ \A r \in DOMAIN R : r \in DOMAIN m.revs \/ (r = "HEAD" /\ m.head # "HEAD")
Refreshed(n) ==
  LET m == mirror[n]
  IN /\ \E d \in Known : IsGit(d) /\ d.name = n /\ d.url = m.url
     /\ \E t \in DOMAIN Upstreams : Follows(m, Upstreams[t][m.url])
     /\ \A e \in proc.lock : (IsGit(e) /\ e.url = m.url) => e.commit \in m.has \cup Stubs
     /\ \A r \in proc.revs : r.url = m.url => r.commit \in m.has

Healing ==
  /\ Mirrored
  /\ lock # TornLock => Genuine(lock)
  /\ proc # Idle =>
       /\ proc.lock # TornLock => Genuine(proc.lock)
       /\ Genuine(proc.done)
       /\ \A r \in proc.revs : r.commit \in Held(r.url)
       /\ \A n \in proc.fresh : Refreshed(n)
  /\ proc.at \in Fetching => Pinned(item.dep, proc.want)

(* A command that ends leaves a genuine lock and genuine mirrors.           *)
LEMMA HealEnded ==
  ASSUME proc' = Idle, Mirrored', lock' # TornLock => Genuine(lock)'
  PROVE  Healing'
<1>1. proc'.at \notin Fetching
  BY DEF Idle, Fetching
<1> QED
  BY <1>1 DEF Healing

(* A command that goes on without its mirrors keeps what it knows.          *)
Knows == proc'.lock = proc.lock /\ proc'.fresh = proc.fresh /\ proc'.revs = proc.revs
LEMMA HealMoved ==
  ASSUME Healing, proc # Idle, Knows, UNCHANGED <<time, mirror>>, lock' \in {lock, TornLock},
         NEW N, Genuine(N), proc'.done \subseteq proc.done \cup N,
         proc'.at \in Fetching => Pinned(item'.dep, proc'.want)
  PROVE  Healing'
<1>1. \A u : Held(u)' = Held(u)
  BY DEF Held, Remote
<1>2. \A S : Genuine(S)' <=> Genuine(S)
  BY <1>1 DEF Genuine
<1>3. Mirrored'
  BY <1>1 DEF Healing, Mirrored
<1>4. Genuine(proc'.done)
  BY DEF Healing, Genuine
<1>5. \A n \in proc'.fresh : Refreshed(n)'
  BY DEF Healing, Knows, Refreshed
<1>6. \A d, c : Pinned(d, c)' <=> Pinned(d, c)
  BY DEF Knows, Pinned, Locked
<1>7. proc'.at \in Fetching => Pinned(item.dep, proc.want)'
  BY <1>6
<1>8. lock' # TornLock => Genuine(lock)'
  BY <1>2 DEF Healing
<1>9. /\ proc'.lock # TornLock => Genuine(proc'.lock)
      /\ \A r \in proc'.revs : r.commit \in Held(r.url)'
  BY <1>1 DEF Healing, Knows
<1> QED
  BY <1>2, <1>3, <1>4, <1>5, <1>7, <1>8, <1>9 DEF Healing

(* The mirror a command uses is of the URL it asks for, and as good as the  *)
(* remote is now if it was asked.                                           *)
LEMMA MirrorUsed ==
  ASSUME WellFormed, Shape, Healing, proc # Idle, NEW d \in Known, IsGit(d), d.name # Root, NEW rev
  PROVE  LET m == Usable(d, rev)
         IN /\ m.url = d.url
            /\ Range(m.revs) \subseteq m.has /\ m.has \subseteq Held(d.url)
            /\ lookup(m, rev) \subseteq m.has
            /\ Asks(d, rev) => Follows(m, Remote(d.url))
            /\ ~Asks(d, rev) => m = mirror[d.name] /\ (lookup(m, rev) # {} \/ d.name \in proc.fresh)
<1> DEFINE m == mirror[d.name]
<1>1. d.name \in Names /\ d.url \in Urls /\ m \in Mirrors
  BY DEF WellFormed, Shape
<1>2. Range(m.revs) \subseteq m.has /\ (m.url = d.url => m.has \subseteq Held(d.url))
  BY <1>1 DEF Healing, Mirrored
<1>3. \A x : Range(x.revs) \subseteq x.has => lookup(x, rev) \subseteq x.has
  BY DEF lookup, Range
<1>4. CASE m.url # d.url
  <2>1. Usable(d, rev) = Cloned(d.url) /\ Asks(d, rev)
    BY <1>4 DEF Usable, Asks
  <2>2. /\ Cloned(d.url).url = d.url /\ Cloned(d.url).revs = Remote(d.url)
        /\ Cloned(d.url).has = Held(d.url)
    BY DEF Cloned, Held
  <2>3. Range(Remote(d.url)) = Held(d.url)
    BY DEF Held
  <2> QED
    BY <1>3, <2>1, <2>2, <2>3 DEF Follows
<1>5. CASE m.url = d.url /\ Asks(d, rev)
  <2>1. Usable(d, rev) = Fetched(m)
    BY <1>5 DEF Usable
  <2>2. LET f == Fetched(m)  R == Remote(m.url)
        IN /\ f.url = m.url /\ f.has = m.has \cup Range(R)
           /\ Range(f.revs) \subseteq Range(m.revs) \cup Range(R)
           /\ \A r \in DOMAIN R : r \in DOMAIN f.revs \/ (r = "HEAD" /\ f.head # "HEAD")
    BY <1>1, <1>5, FetchedFacts
  <2> QED
    BY <1>2, <1>3, <1>5, <2>1, <2>2 DEF Follows, Held
<1>6. CASE m.url = d.url /\ ~Asks(d, rev)
  <2>1. Usable(d, rev) = m
    BY <1>6 DEF Usable
  <2>2. lookup(m, rev) # {} \/ d.name \in proc.fresh
    BY <1>6 DEF Asks
  <2> QED
    BY <1>2, <1>3, <1>6, <2>1, <2>2
<1> QED
  BY <1>4, <1>5, <1>6

(* What is pinned is on the remote.                                         *)
LEMMA PinnedIsHeld ==
  ASSUME Healing, proc # Idle, proc.lock # TornLock, NEW d, IsGit(d), NEW c, Pinned(d, c)
  PROVE  c \in Held(d.url) \/ (c \in Stubs /\ Locked(d) # {})
BY DEF Healing, Pinned, Locked, Genuine, IsGit

(* The mirror has the rev of a manifest, unless that is a HEAD it does not  *)
(* follow, and every commit that is pinned, unless it is cut short.         *)
LEMMA NeverMissing ==
  ASSUME WellFormed, Lasting, Shape, Control, Healing, proc # Idle, proc.lock # TornLock,
         NEW d \in Known, IsGit(d), d.name # Root, NEW rev, lookup(Usable(d, rev), rev) = {}
  PROVE  /\ rev = d.rev => rev = "HEAD" /\ Usable(d, rev).head # "HEAD"
         /\ Pinned(d, rev) => rev \in Stubs /\ Locked(d) # {}
<1> DEFINE m == Usable(d, rev)
<1>1. /\ m.url = d.url
      /\ Asks(d, rev) => Follows(m, Remote(d.url))
      /\ ~Asks(d, rev) => m = mirror[d.name] /\ (lookup(m, rev) # {} \/ d.name \in proc.fresh)
  BY MirrorUsed
<1>2. d.url \in Urls /\ time \in DOMAIN Upstreams /\ Remote(d.url) = Upstreams[time][d.url]
  BY DEF WellFormed, Shape, Remote
<1> HIDE DEF m
<1>3. rev \notin DOMAIN m.revs /\ rev \notin m.has
  BY DEF lookup, m
<1>4. PICK t \in DOMAIN Upstreams : Follows(m, Upstreams[t][d.url])
  <2>1. CASE Asks(d, rev)
    BY <1>1, <1>2, <2>1
  <2>2. CASE ~Asks(d, rev)
    BY <1>1, <2>2 DEF Healing, Refreshed, m
  <2> QED
    BY <2>1, <2>2
<1>5. ASSUME rev = d.rev PROVE rev = "HEAD" /\ m.head # "HEAD"
  <2>1. rev \in DOMAIN Upstreams[t][d.url] \cup Range(Upstreams[t][d.url])
    BY <1>5 DEF Lasting
  <2> QED
    BY <1>3, <1>4, <2>1 DEF Follows
<1>6. ASSUME Pinned(d, rev) PROVE rev \in Stubs /\ Locked(d) # {}
  <2>1. CASE Asks(d, rev)
    BY <1>1, <1>3, <1>6, <2>1, PinnedIsHeld DEF Follows, Held
  <2>2. CASE ~Asks(d, rev)
    <3>1. m = mirror[d.name] /\ Refreshed(d.name)
      BY <1>1, <2>2 DEF Healing, m
    <3>2. /\ \A e \in proc.lock : (IsGit(e) /\ e.url = d.url) => e.commit \in m.has \cup Stubs
          /\ \A r \in proc.revs : r.url = d.url => r.commit \in m.has
      BY <1>1, <3>1 DEF Refreshed
    <3> QED
      BY <1>3, <1>6, <3>2 DEF Pinned, Locked, IsGit
  <2> QED
    BY <2>1, <2>2
<1> QED
  BY <1>5, <1>6 DEF m

(* A mirror that is used claims no more than the remote has.                *)
LEMMA MirroredAfter ==
  ASSUME WellFormed, Shape, Healing, proc # Idle,
         NEW d \in Known, IsGit(d), d.name # Root, NEW rev, UNCHANGED time,
         mirror' = [mirror EXCEPT ![d.name] = Usable(d, rev)]
  PROVE  Mirrored'
<1> DEFINE m == Usable(d, rev)
<1>1. m.url = d.url /\ Range(m.revs) \subseteq m.has /\ m.has \subseteq Held(d.url)
  BY MirrorUsed
<1>2. d.name \in Names /\ mirror \in [Names -> Mirrors]
  BY DEF WellFormed, Shape
<1>3. mirror'[d.name] = m /\ \A n \in Names : n # d.name => mirror'[n] = mirror[n]
  BY <1>2
<1> HIDE DEF m
<1>4. ASSUME NEW n \in Names
      PROVE  LET k == mirror'[n]
             IN Range(k.revs) \subseteq k.has /\ (k.url \in Urls => k.has \subseteq Held(k.url))
  <2>1. CASE n = d.name
    BY <1>1, <1>3, <2>1
  <2>2. CASE n # d.name
    BY <1>3, <1>4, <2>2 DEF Healing, Mirrored
  <2> QED
    BY <2>1, <2>2
<1> QED
  BY <1>4 DEF Mirrored, Held, Remote

(* Using the mirror, a command learns what the mirror has, and no more.     *)
LEMMA RefreshedAfter ==
  ASSUME WellFormed, Lasting, Shape, Healing, proc # Idle, proc.lock # TornLock,
         NEW d \in Known, IsGit(d), d.name # Root, NEW rev, UNCHANGED time,
         mirror' = [mirror EXCEPT ![d.name] = Usable(d, rev)],
         proc'.fresh = IF Asks(d, rev) THEN proc.fresh \cup {d.name} ELSE proc.fresh,
         proc'.lock = proc.lock,
         \A r \in proc'.revs : r \in proc.revs \/ (r.url = d.url /\ r.commit \in lookup(Usable(d, rev), rev))
  PROVE  /\ \A r \in proc'.revs : r.commit \in Held(r.url)'
         /\ \A n \in proc'.fresh : Refreshed(n)'
<1> DEFINE m == Usable(d, rev)
           asks == Asks(d, rev)
           found == lookup(m, rev)
<1>1. /\ m.url = d.url
      /\ m.has \subseteq Held(d.url) /\ found \subseteq m.has
      /\ asks => Follows(m, Remote(d.url))
      /\ ~asks => m = mirror[d.name]
  BY MirrorUsed
<1>2. d.name \in Names /\ d.url \in Urls /\ time \in DOMAIN Upstreams /\ mirror \in [Names -> Mirrors]
  BY DEF WellFormed, Shape
<1>3. \A u : Held(u)' = Held(u)
  BY DEF Held, Remote
<1>4. mirror'[d.name] = m /\ \A n \in Names : n # d.name => mirror'[n] = mirror[n]
  BY <1>2
<1>5. /\ \A r \in proc'.revs : r \in proc.revs \/ (r.url = d.url /\ r.commit \in found)
      /\ proc'.fresh = IF asks THEN proc.fresh \cup {d.name} ELSE proc.fresh
  OBVIOUS
<1> HIDE DEF m, asks, found
<1>6. \A r \in proc'.revs : r.commit \in Held(r.url)'
  BY <1>1, <1>3, <1>5 DEF Healing
<1>7. ASSUME NEW n \in proc'.fresh PROVE Refreshed(n)'
  <2> DEFINE k == mirror'[n]
  <2>1. CASE n = d.name
    <3>1. k = m /\ k.url = d.url
      BY <1>1, <1>4, <2>1
    <3>2. \E t \in DOMAIN Upstreams : Follows(m, Upstreams[t][d.url])
      <4>1. CASE asks
        BY <1>1, <1>2, <4>1 DEF Remote
      <4>2. CASE ~asks
        <5>1. Refreshed(n) /\ mirror[n] = m
          BY <1>1, <1>5, <1>7, <2>1, <4>2 DEF Healing
        <5> QED
          BY <1>1, <5>1 DEF Refreshed
      <4> QED
        BY <4>1, <4>2
    <3>3. /\ \A e \in proc.lock : (IsGit(e) /\ e.url = d.url) => e.commit \in m.has \cup Stubs
          /\ \A r \in proc.revs : r.url = d.url => r.commit \in m.has
      <4>1. CASE asks
        <5>1. \A e \in proc.lock : (IsGit(e) /\ e.url = d.url) => e.commit \in Held(d.url) \cup Stubs
          BY DEF Healing, Genuine
        <5>2. \A r \in proc.revs : r.url = d.url => r.commit \in Held(d.url)
          BY DEF Healing
        <5> QED
          BY <1>1, <4>1, <5>1, <5>2 DEF Follows, Held
      <4>2. CASE ~asks
        <5>1. Refreshed(n) /\ mirror[n] = m
          BY <1>1, <1>5, <1>7, <2>1, <4>2 DEF Healing
        <5> QED
          BY <1>1, <5>1 DEF Refreshed
      <4> QED
        BY <4>1, <4>2
    <3>4. \A r \in proc'.revs : r.url = d.url => r.commit \in m.has
      BY <1>1, <1>5, <3>3
    <3>5. \E e \in Known : IsGit(e) /\ e.name = n /\ e.url = k.url
      BY <2>1, <3>1
    <3> HIDE DEF k
    <3> QED
      BY <3>1, <3>2, <3>3, <3>4, <3>5 DEF Refreshed, k
  <2>2. CASE n # d.name
    <3>1. n \in proc.fresh
      BY <1>5, <1>7, <2>2
    <3>2. proc.fresh \subseteq Names
      BY Stepping DEF Command
    <3>3. k = mirror[n] /\ Refreshed(n)
      BY <1>4, <2>2, <3>1, <3>2 DEF Healing
    <3>4. PICK e \in Known : IsGit(e) /\ e.name = n /\ e.url = k.url
      BY <3>3 DEF Refreshed
    <3>5. k.url # d.url
      BY <2>2, <3>4 DEF Lasting
    <3>6. \A r \in proc'.revs : r.url = k.url => r \in proc.revs
      BY <1>5, <3>5
    <3> QED
      BY <3>3, <3>6 DEF Refreshed
  <2> QED
    BY <2>1, <2>2
<1> QED
  BY <1>6, <1>7

(* A mirror that stays or is emptied claims no more, and no more does one   *)
(* whose clone is cut short.                                                *)
LEMMA MirroredLess ==
  ASSUME WellFormed, Shape, Healing, UNCHANGED time,
         \A n \in Names : \/ mirror'[n] \in {mirror[n], None, Removed}
                          \/ \E u \in Urls : mirror'[n] \in CutClones(u)
  PROVE  Mirrored'
<1>1. ASSUME NEW n \in Names
      PROVE  LET k == mirror'[n]
             IN Range(k.revs) \subseteq k.has /\ (k.url \in Urls => k.has \subseteq Held(k.url))
  <2>1. CASE mirror'[n] = mirror[n]
    BY <1>1, <2>1 DEF Healing, Mirrored
  <2>2. CASE mirror'[n] \in {None, Removed}
    <3>1. Range(<<>>) = {}
      BY DEF Range
    <3> QED
      BY <2>2, <3>1, NoMirror
  <2>3. CASE \E u \in Urls : mirror'[n] \in CutClones(u)
    BY <2>3, CutCloneFacts DEF Held
  <2> QED
    BY <1>1, <2>1, <2>2, <2>3
<1> QED
  BY <1>1 DEF Mirrored, Held, Remote

(* A lock left alone stays genuine while the remotes stand still.           *)
LEMMA LockGenuine ==
  ASSUME Healing, UNCHANGED <<time, lock>>
  PROVE  lock' # TornLock => Genuine(lock)'
BY DEF Healing, Genuine, Held, Remote

(* A command that asks for a rev goes on with a commit the remote has, or   *)
(* ends.                                                                    *)
LEMMA AskMirrorHeals ==
  ASSUME WellFormed, Lasting, Shape, Control, Healing, proc.at = "resolve", proc.queue # <<>>,
         IsGit(item.dep), item.dep.name # Root, AskMirror(item.dep), UNCHANGED <<lock, time>>
  PROVE  Healing'
<1> DEFINE d == item.dep
           m == Usable(d, d.rev)
           asks == Asks(d, d.rev)
           found == lookup(m, d.rev)
           c == CHOOSE x \in found : TRUE
           new == [url |-> d.url, rev |-> d.rev, commit |-> c]
           Then == [proc EXCEPT !.at = "checkout", !.want = c, !.revs = proc.revs \cup {new}]
<1>1. proc # Idle
  BY DEF Idle
<1>2. proc \in Command /\ d \in Known /\ proc.lock # TornLock /\ d.name \in Names
  BY <1>1, Stepping DEF Control, WellFormed
<1>3. \/ /\ mirror' = [mirror EXCEPT ![d.name] = m] /\ found # {}
         /\ proc' = [Then EXCEPT !.fresh = IF asks THEN @ \cup {d.name} ELSE @]
      \/ mirror' = [mirror EXCEPT ![d.name] = m] /\ Fails("no such rev")
      \/ mirror' \in {mirror, [mirror EXCEPT ![d.name] = Removed]} /\ Fails("network")
  <2> HIDE DEF m, asks
  <2> QED
    BY Zenon DEF AskMirror, UseMirror, m, asks
<1>4. ASSUME mirror' \in {mirror, [mirror EXCEPT ![d.name] = Removed]}, Fails("network") PROVE Healing'
  <2>1. proc' = Idle
    BY <1>4, FailsFacts DEF GivesUp
  <2>2. \A n \in Names : mirror'[n] \in {mirror[n], None, Removed}
    BY <1>4 DEF Shape
  <2> QED
    BY <2>1, <2>2, MirroredLess, LockGenuine, HealEnded
<1>5. ASSUME mirror' = [mirror EXCEPT ![d.name] = m], Fails("no such rev") PROVE Healing'
  <2>1. proc' = Idle
    BY <1>5, FailsFacts DEF GivesUp
  <2> QED
    BY <1>1, <1>2, <1>5, <2>1, MirroredAfter, LockGenuine, HealEnded
<1>6. ASSUME found # {}, mirror' = [mirror EXCEPT ![d.name] = m],
             proc' = [Then EXCEPT !.fresh = IF asks THEN @ \cup {d.name} ELSE @]
      PROVE  Healing'
  <2>1. c \in found
    BY <1>6
  <2> HIDE DEF c, asks, m, found
  <2>2. /\ proc'.fresh = IF asks THEN proc.fresh \cup {d.name} ELSE proc.fresh
        /\ proc'.lock = proc.lock /\ proc'.done = proc.done /\ proc'.queue = proc.queue
        /\ proc'.revs = proc.revs \cup {new} /\ proc'.want = c
    BY <1>2, <1>6 DEF Command
  <2>3. new.url = d.url /\ new.commit = c
    OBVIOUS
  <2>4. \A r \in proc'.revs : r \in proc.revs \/ (r.url = d.url /\ r.commit \in found)
    BY <2>1, <2>2, <2>3
  <2>5. /\ Mirrored'
        /\ \A r \in proc'.revs : r.commit \in Held(r.url)'
        /\ \A n \in proc'.fresh : Refreshed(n)'
    BY <1>1, <1>2, <1>6, <2>2, <2>4, MirroredAfter, RefreshedAfter DEF m, asks, found
  <2>6. item' = item
    BY <2>2 DEF item
  <2>7. Pinned(item.dep, proc.want)'
    BY <2>2, <2>3, <2>6 DEF Pinned
  <2>8. /\ proc'.lock # TornLock => Genuine(proc.lock)'
        /\ Genuine(proc.done)'
    BY <1>1, <2>2 DEF Healing, Genuine, Held, Remote
  <2> QED
    BY <2>5, <2>7, <2>8, LockGenuine DEF Healing
<1> QED
  BY <1>3, <1>4, <1>5, <1>6

(* The same for a commit to check out.                                      *)
LEMMA HasCommitHeals ==
  ASSUME WellFormed, Lasting, Shape, Control, Healing, proc.at = "checkout", HasCommit(item.dep),
         UNCHANGED <<lock, time>>
  PROVE  Healing'
<1> DEFINE d == item.dep
           m == Usable(d, proc.want)
           asks == Asks(d, proc.want)
           found == lookup(m, proc.want)
<1>1. proc # Idle
  BY DEF Idle
<1>2. /\ proc \in Command /\ proc.queue # <<>> /\ d \in Known /\ proc.lock # TornLock /\ d.name \in Names
      /\ IsGit(d) /\ d.name # Root /\ Pinned(d, proc.want)
  BY <1>1, Stepping DEF Control, WellFormed, Fetching, Healing
<1>3. \/ /\ mirror' = [mirror EXCEPT ![d.name] = m]
         /\ proc' = [[proc EXCEPT !.at = "clone"] EXCEPT !.fresh = IF asks THEN @ \cup {d.name} ELSE @]
      \/ mirror' = [mirror EXCEPT ![d.name] = m] /\ Fails("no such rev")
      \/ mirror' \in {mirror, [mirror EXCEPT ![d.name] = Removed]} /\ Fails("network")
  <2> HIDE DEF m, asks
  <2> QED
    BY Zenon DEF HasCommit, UseMirror, m, asks
<1>4. ASSUME mirror' \in {mirror, [mirror EXCEPT ![d.name] = Removed]}, Fails("network") PROVE Healing'
  <2>1. proc' = Idle
    BY <1>4, FailsFacts DEF GivesUp
  <2>2. \A n \in Names : mirror'[n] \in {mirror[n], None, Removed}
    BY <1>4 DEF Shape
  <2> QED
    BY <2>1, <2>2, MirroredLess, LockGenuine, HealEnded
<1>5. ASSUME mirror' = [mirror EXCEPT ![d.name] = m], Fails("no such rev") PROVE Healing'
  <2>1. proc' = Idle
    BY <1>5, FailsFacts DEF GivesUp
  <2> QED
    BY <1>1, <1>2, <1>5, <2>1, MirroredAfter, LockGenuine, HealEnded
<1>6. ASSUME mirror' = [mirror EXCEPT ![d.name] = m],
             proc' = [[proc EXCEPT !.at = "clone"] EXCEPT !.fresh = IF asks THEN @ \cup {d.name} ELSE @]
      PROVE  Healing'
  <2> HIDE DEF asks, m, found
  <2>1. /\ proc'.fresh = IF asks THEN proc.fresh \cup {d.name} ELSE proc.fresh
        /\ proc'.lock = proc.lock /\ proc'.done = proc.done /\ proc'.queue = proc.queue
        /\ proc'.revs = proc.revs /\ proc'.want = proc.want
    BY <1>2, <1>6 DEF Command
  <2>2. /\ Mirrored'
        /\ \A r \in proc'.revs : r.commit \in Held(r.url)'
        /\ \A n \in proc'.fresh : Refreshed(n)'
    BY <1>1, <1>2, <1>6, <2>1, MirroredAfter, RefreshedAfter DEF m, asks, found
  <2>3. item' = item
    BY <2>1 DEF item
  <2>4. Pinned(item.dep, proc.want)'
    BY <1>2, <2>1, <2>3 DEF Pinned, Locked
  <2>5. /\ proc'.lock # TornLock => Genuine(proc.lock)'
        /\ Genuine(proc.done)'
    BY <1>1, <2>1 DEF Healing, Genuine, Held, Remote
  <2> QED
    BY <2>2, <2>4, <2>5, LockGenuine DEF Healing
<1> QED
  BY <1>3, <1>4, <1>5, <1>6

(* An item that is done brings an entry whose commit the remote has.        *)
LEMMA AcceptHeals ==
  ASSUME WellFormed, Shape, Control, Healing, proc # Idle, NEW e, Accept(e), Genuine({e}),
         UNCHANGED <<lock, time, mirror>>
  PROVE  Healing'
<1> DEFINE more == [i \in DOMAIN Requires(e) |-> [dep |-> Requires(e)[i], by |-> e.name]]
<1>1. proc \in Command
  BY Stepping
<1>2. \/ proc' = [proc EXCEPT !.at = "resolve", !.done = @ \cup {e}, !.queue = Tail(proc.queue) \o more]
         /\ UNCHANGED <<manifest, last>>
      \/ proc' = [proc EXCEPT !.at = "resolve", !.queue = Tail(proc.queue)] /\ UNCHANGED <<manifest, last>>
      \/ Fails("conflict")
  BY Zenon DEF Accept
<1>3. CASE Fails("conflict")
  <2>1. proc' = Idle
    BY <1>3, FailsFacts DEF GivesUp
  <2> QED
    BY <2>1, MirroredLess, LockGenuine, HealEnded
<1> HIDE DEF more
<1>4. ASSUME \/ proc' = [proc EXCEPT !.at = "resolve", !.done = @ \cup {e}, !.queue = Tail(proc.queue) \o more]
             \/ proc' = [proc EXCEPT !.at = "resolve", !.queue = Tail(proc.queue)]
      PROVE  Knows /\ proc'.done \subseteq proc.done \cup {e} /\ proc'.at \notin Fetching
  BY <1>1, <1>4 DEF Knows, Command, Fetching
<1> QED
  BY <1>2, <1>3, <1>4, HealMoved

(* A command starts knowing the lock, and nothing of the mirrors yet.       *)
LEMMA StartHeals ==
  ASSUME WellFormed, Shape, Healing, proc = Idle, UNCHANGED <<time, lock, mirror>>,
         \/ proc' = Idle
         \/ /\ proc'.at \in {"resolve", "edit"} /\ proc'.done = {} /\ proc'.revs = {} /\ proc'.fresh = {}
            /\ proc'.lock \in {{}, lock}
  PROVE  Healing'
<1>1. Mirrored' /\ (lock' # TornLock => Genuine(lock)')
  BY MirroredLess, LockGenuine
<1>2. CASE proc' = Idle
  BY <1>1, <1>2, HealEnded
<1>3. CASE /\ proc'.at \in {"resolve", "edit"} /\ proc'.done = {} /\ proc'.revs = {} /\ proc'.fresh = {}
           /\ proc'.lock \in {{}, lock}
  <2>1. Genuine(proc.done)' /\ (proc'.lock # TornLock => Genuine(proc.lock)')
    BY <1>1, <1>3 DEF Genuine
  <2> QED
    BY <1>1, <1>3, <2>1 DEF Healing, Fetching
<1> QED
  BY <1>2, <1>3

(* The fields of a command that begins.                                     *)
LEMMA BeginKnows ==
  ASSUME NEW cmd, NEW deps, NEW before
  PROVE  LET b == Begin(cmd, deps, before)
         IN b.at = "resolve" /\ b.done = {} /\ b.revs = {} /\ b.fresh = {} /\ b.lock \in {{}, lock}
BY DEF Begin

(* Every step keeps Healing.                                                *)
LEMMA HealingNext ==
  ASSUME WellFormed, Lasting, Shape, Control, Healing, [Next]_vars
  PROVE  Healing'
<1>1. Genuine({})
  BY DEF Genuine
<1>2. ASSUME NEW cmd \in {"build", "fetch"}, Start(cmd) PROVE Healing'
  <2>1. /\ proc = Idle /\ UNCHANGED <<time, lock, mirror>>
        /\ proc' = Begin(cmd, manifest, lock) \/ proc' = Idle
    BY <1>2, Zenon DEF Start, Ended, disk
  <2> QED
    BY <2>1, BeginKnows, StartHeals
<1>3. CASE StartAdd
  <2>1. PICK d \in Adds :
          /\ proc = Idle /\ UNCHANGED <<time, lock, mirror>>
          /\ proc' = [Begin("add", Edited(d), lock) EXCEPT !.at = "edit"] \/ proc' = proc
    BY <1>3, Zenon DEF StartAdd
  <2> DEFINE b == Begin("add", Edited(d), lock)
  <2>2. b.done = {} /\ b.revs = {} /\ b.fresh = {} /\ b.lock \in {{}, lock} /\ "at" \in DOMAIN b
    <3>1. "at" \in DOMAIN b
      BY DEF Begin
    <3> QED
      BY <3>1, BeginKnows
  <2> HIDE DEF b
  <2>3. \/ proc' = Idle
        \/ /\ proc'.at = "edit" /\ proc'.done = {} /\ proc'.revs = {} /\ proc'.fresh = {}
           /\ proc'.lock \in {{}, lock}
    <3>1. CASE proc' = [b EXCEPT !.at = "edit"]
      BY <2>2, <3>1
    <3>2. CASE proc' = proc
      BY <2>1, <3>2
    <3> QED
      BY <2>1, <3>1, <3>2 DEF b
  <2> QED
    BY <2>1, <2>3, StartHeals
<1>4. CASE WriteManifest
  <2>1. proc # Idle /\ proc.at = "edit" /\ UNCHANGED <<lock, mirror, time>>
    BY <1>4, WriteManifestCases
  <2>2. CASE proc' = Idle
    BY <2>1, <2>2, MirroredLess, LockGenuine, HealEnded
  <2>3. CASE proc' # Idle
    <3>1. Knows /\ proc'.done \subseteq proc.done \cup {} /\ proc'.at \notin Fetching
      BY <1>4, <2>3, WriteManifestCases DEF Knows, Stays, Fetching
    <3> QED
      BY <1>1, <2>1, <3>1, HealMoved
  <2> QED
    BY <2>2, <2>3
<1>5. CASE Resolve
  <2> DEFINE d == item.dep
  <2>1. /\ proc.at = "resolve" /\ proc.queue # <<>> /\ UNCHANGED <<lock, time>>
        /\ \/ proc' = [proc EXCEPT !.queue = Tail(@)] /\ UNCHANGED <<mirror, last>>
           \/ d.name # Root /\ ~IsGit(d) /\ Accept(Entry(d, d.rev)) /\ UNCHANGED mirror
           \/ /\ d.name # Root /\ IsGit(d) /\ Commit(d) # {}
              /\ proc' = [proc EXCEPT !.at = "checkout", !.want = CHOOSE c \in Commit(d) : TRUE]
              /\ UNCHANGED <<mirror, last>>
           \/ d.name # Root /\ IsGit(d) /\ AskMirror(d)
    BY <1>5, Zenon DEF Resolve, world
  <2>2. proc # Idle
    BY <2>1 DEF Idle
  <2>3. proc \in Command /\ proc.lock # TornLock
    BY <2>1, <2>2, Stepping DEF Control
  <2>4. CASE proc' = [proc EXCEPT !.queue = Tail(@)] /\ UNCHANGED <<mirror, last>>
    <3>1. Knows /\ proc'.done \subseteq proc.done \cup {} /\ proc'.at \notin Fetching
      BY <2>1, <2>3, <2>4 DEF Knows, Command, Fetching
    <3> QED
      BY <1>1, <2>1, <2>2, <2>4, <3>1, HealMoved
  <2>5. CASE ~IsGit(d) /\ Accept(Entry(d, d.rev)) /\ UNCHANGED mirror
    <3>1. Genuine({Entry(d, d.rev)})
      BY <2>5, EntryFacts DEF Genuine, IsGit
    <3> QED
      BY <2>1, <2>2, <2>5, <3>1, AcceptHeals
  <2>6. CASE /\ Commit(d) # {}
             /\ proc' = [proc EXCEPT !.at = "checkout", !.want = CHOOSE c \in Commit(d) : TRUE]
             /\ UNCHANGED <<mirror, last>>
    <3> DEFINE c == CHOOSE x \in Commit(d) : TRUE
    <3>1. c \in Commit(d)
      BY <2>6
    <3> HIDE DEF c
    <3>2. Pinned(d, c)
      BY <3>1 DEF Commit, Pinned
    <3>3. Knows /\ proc'.done \subseteq proc.done \cup {} /\ proc'.want = c /\ proc'.queue = proc.queue
      BY <2>3, <2>6 DEF Knows, Command, c
    <3>4. item'.dep = d
      BY <3>3 DEF item
    <3> QED
      BY <1>1, <2>1, <2>2, <2>6, <3>2, <3>3, <3>4, HealMoved
  <2>7. CASE d.name # Root /\ IsGit(d) /\ AskMirror(d)
    BY <2>1, <2>7, AskMirrorHeals
  <2> QED
    BY <2>1, <2>4, <2>5, <2>6, <2>7
<1>6. CASE Checkout
  <2> DEFINE d == item.dep
  <2>1. /\ proc.at = "checkout" /\ UNCHANGED <<lock, time>>
        /\ (Accept(Entry(d, proc.want)) /\ UNCHANGED mirror) \/ HasCommit(d)
    BY <1>6, Zenon DEF Checkout, world
  <2>2. proc # Idle
    BY <2>1 DEF Idle
  <2>3. CASE Accept(Entry(d, proc.want)) /\ UNCHANGED mirror
    <3>1. IsGit(d) /\ d.url \in Urls /\ Pinned(d, proc.want) /\ proc.lock # TornLock
      BY <2>1, <2>2, Stepping DEF Control, WellFormed, Fetching, Healing
    <3>2. proc.want \in Held(d.url) \cup Stubs
      BY <2>2, <3>1, PinnedIsHeld
    <3>3. Genuine({Entry(d, proc.want)})
      BY <3>1, <3>2, EntryFacts DEF Genuine
    <3> QED
      BY <2>1, <2>2, <2>3, <3>3, AcceptHeals
  <2>4. CASE HasCommit(d)
    BY <2>1, <2>4, HasCommitHeals
  <2> QED
    BY <2>1, <2>3, <2>4
<1>7. CASE Clone \/ FillFiles \/ Rename
  <2>1. /\ proc # Idle /\ proc.at \in Fetching /\ UNCHANGED <<lock, mirror, time>>
        /\ proc' = Idle \/ \E at \in Fetching : proc' = [proc EXCEPT !.at = at]
    BY <1>7, CloneCases, FillFilesCases, RenameCases DEF Fetching, GivesUp
  <2>2. CASE proc' = Idle
    BY <2>1, <2>2, MirroredLess, LockGenuine, HealEnded
  <2>3. CASE proc' # Idle
    <3>1. Knows /\ proc'.done \subseteq proc.done \cup {} /\ proc'.want = proc.want /\ proc'.queue = proc.queue
      BY <2>1, <2>3, Stepping DEF Knows, Command
    <3>2. item' = item /\ Pinned(item.dep, proc.want)
      BY <2>1, <3>1 DEF item, Healing
    <3> QED
      BY <1>1, <2>1, <3>1, <3>2, HealMoved
  <2> QED
    BY <2>2, <2>3
<1>8. ASSUME proc # Idle, proc.at = "lock", NEW K \in CutLocks(proc.done), K # TornLock, UNCHANGED time
      PROVE  Genuine(K)'
  <2>1. Genuine(proc.done) /\ proc.done \in SUBSET Entries
    BY <1>8, Stepping DEF Healing, Command
  <2>2. \A x \in K : x \in proc.done \/ (IsGit(x) /\ x.commit \in Stubs /\ \E e \in proc.done : x.url = e.url)
    BY <1>8, <2>1, CutLockFacts
  <2>3. Genuine(K)
    BY <2>1, <2>2 DEF Genuine, IsGit
  <2> QED
    BY <1>8, <2>3 DEF Genuine, Held, Remote
<1>9. CASE OpenLock \/ Done
  <2>1. /\ proc # Idle /\ UNCHANGED <<mirror, time>>
        /\ lock' \in {lock, TornLock, proc.done} \/ (proc.at = "lock" /\ lock' \in CutLocks(proc.done))
    BY <1>9, LockCases
  <2>2. CASE proc' = Idle
    <3>1. lock' # TornLock => Genuine(lock)'
      BY <1>8, <2>1 DEF Healing, Genuine, Held, Remote
    <3> QED
      BY <2>1, <2>2, <3>1, MirroredLess, HealEnded
  <2>3. CASE proc' # Idle
    <3>1. lock' = TornLock /\ proc' = [proc EXCEPT !.at = "lock"]
      BY <1>9, <2>3, LockCases DEF GivesUp
    <3>2. Knows /\ proc'.done \subseteq proc.done \cup {} /\ proc'.at \notin Fetching
      BY <2>1, <3>1, Stepping DEF Knows, Command, Fetching
    <3> QED
      BY <1>1, <2>1, <3>1, <3>2, HealMoved
  <2> QED
    BY <2>2, <2>3
<1>10. CASE Crash
  <2>1. /\ proc # Idle /\ proc' = Idle /\ UNCHANGED time
        /\ lock' = lock \/ (proc.at = "lock" /\ lock' \in CutLocks(proc.done))
        /\ \A n \in Names : \/ mirror'[n] \in {mirror[n], None, Removed}
                             \/ \E u \in Urls : mirror'[n] \in CutClones(u)
    BY <1>10, CrashCases
  <2>2. lock' # TornLock => Genuine(lock)'
    BY <1>8, <2>1, LockGenuine
  <2> QED
    BY <2>1, <2>2, MirroredLess, HealEnded
<1>11. CASE RepairManifest \/ NewMachine
  <2>1. /\ proc = Idle /\ UNCHANGED <<proc, time, lock>>
        /\ mirror' = mirror \/ mirror' = [n \in Names |-> None]
    BY <1>11 DEF RepairManifest, NewMachine, world
  <2> QED
    BY <2>1, MirroredLess, LockGenuine, HealEnded
<1>12. CASE Push
  <2>1. UNCHANGED <<proc, lock, mirror, last>> /\ time' = time + 1 /\ time + 1 \in DOMAIN Upstreams
    <3>1. time < Len(Upstreams) /\ time' = time + 1 /\ UNCHANGED <<proc, lock, mirror, last>>
      BY <1>12, Zenon DEF Push, disk
    <3> QED
      BY <3>1 DEF Shape, WellFormed
  <2>2. \A u \in Urls : Held(u) \subseteq Held(u)'
    <3>1. time \in DOMAIN Upstreams /\ time <= time + 1
      BY DEF Shape, WellFormed
    <3>2. \A u \in Urls : Range(Upstreams[time][u]) \subseteq Range(Upstreams[time + 1][u])
      BY <2>1, <3>1 DEF Lasting
    <3> QED
      BY <2>1, <3>2 DEF Held, Remote
  <2>3. Mirrored'
    BY <2>1, <2>2 DEF Healing, Mirrored
  <2>4. \A S : Genuine(S) => Genuine(S)'
    BY <2>2 DEF Genuine
  <2>5. proc # Idle => \A r \in proc.revs : r.url \in Urls /\ r.commit \in Held(r.url)
    BY Stepping DEF Healing, Command, Revisions
  <2>6. proc # Idle => \A n \in proc.fresh : Refreshed(n)'
    BY <2>1 DEF Healing, Refreshed
  <2>7. proc'.at \in Fetching => Pinned(item.dep, proc.want)'
    BY <2>1 DEF Healing, Pinned, item, Locked
  <2> QED
    BY <2>1, <2>2, <2>3, <2>4, <2>5, <2>6, <2>7 DEF Healing
<1>13. CASE UNCHANGED vars
  <2>1. UNCHANGED <<time, lock, mirror, proc, last>>
    BY <1>13 DEF vars
  <2>2. Mirrored' /\ (lock' # TornLock => Genuine(lock)')
    BY <2>1, MirroredLess, LockGenuine
  <2>3. \A S : Genuine(S)' <=> Genuine(S)
    BY <2>1 DEF Genuine, Held, Remote
  <2>4. \A n : Refreshed(n)' <=> Refreshed(n)
    BY <2>1, Zenon DEF Refreshed
  <2>5. (\A r \in proc.revs : r.commit \in Held(r.url)) => \A r \in proc'.revs : r.commit \in Held(r.url)'
    BY <2>1 DEF Held, Remote
  <2>6. Pinned(item.dep, proc.want)' <=> Pinned(item.dep, proc.want)
    BY <2>1 DEF Pinned, item, Locked
  <2> QED
    BY <2>1, <2>2, <2>3, <2>4, <2>5, <2>6 DEF Healing
<1> QED
  BY <1>2, <1>3, <1>4, <1>5, <1>6, <1>7, <1>9, <1>10, <1>11, <1>12, <1>13 DEF Next

(* Only a rev that the mirror does not have ends a command so.              *)
LEMMA HealsStep ==
  ASSUME WellFormed, Lasting, IInv, Healing, [Next]_vars
  PROVE  Heals
<1> SUFFICES ASSUME Ends, last' \in {"leftover", "no such rev"}
             PROVE  \/ last' = "no such rev" /\ item.dep.rev = "HEAD" /\ mirror'[item.dep.name].head # "HEAD"
                    \/ last' = "no such rev" /\ proc.at = "checkout" /\ proc.cmd # "fetch" /\ proc.want \in Stubs
  BY DEF Heals
<1> DEFINE d == item.dep
<1>1. Shape /\ Control /\ Pins /\ proc # Idle /\ proc' = Idle /\ mirror \in [Names -> Mirrors]
  BY DEF IInv, Ends, Shape
<1>2. \A at : ~Stays(at)
  BY <1>1 DEF Stays, Command, Fetching, Idle
<1>3. \A at \in Fetching : proc' # [proc EXCEPT !.at = at]
  BY <1>1, <1>2, StepsOn
<1>4. ~(Start("build") \/ Start("fetch") \/ StartAdd)
  BY <1>1, StartCases, StartAddCases
<1>5. ~WriteManifest
  BY <1>1, <1>2, WriteManifestCases
<1>6. ~(Clone \/ FillFiles \/ Rename)
  BY <1>1, <1>3, CloneCases, FillFilesCases, RenameCases DEF Fetching
<1>7. ~(OpenLock \/ Done \/ Crash)
  BY <1>1, <1>2, LockCases, CrashCases
<1>8. ~(RepairManifest \/ NewMachine \/ Push \/ UNCHANGED vars)
  BY <1>1, OutsideCases
<1>9. CASE Resolve
  <2>1. /\ proc.at = "resolve" /\ proc.queue # <<>>
        /\ \/ proc' = [proc EXCEPT !.queue = Tail(@)]
           \/ d.name # Root /\ ~IsGit(d) /\ Accept(Entry(d, d.rev))
           \/ /\ d.name # Root /\ IsGit(d)
              /\ \E c : proc' = [proc EXCEPT !.at = "checkout", !.want = c]
           \/ d.name # Root /\ IsGit(d) /\ AskMirror(d)
    BY <1>9, Zenon DEF Resolve
  <2>2. d \in Known /\ proc.lock # TornLock
    BY <1>1, <2>1, Stepping DEF Control
  <2>3. \A q : proc' # [proc EXCEPT !.queue = q]
    BY <1>1, Stepping DEF Command, Idle
  <2>4. \A c : proc' # [proc EXCEPT !.at = "checkout", !.want = c]
    BY <1>1, Stepping DEF Command, Idle
  <2>5. CASE d.name # Root /\ ~IsGit(d) /\ Accept(Entry(d, d.rev))
    <3>1. d.rev \in Pinnable
      BY <2>2, <2>5 DEF WellFormed, Pinnable
    <3> QED
      BY <1>1, <1>2, <2>1, <2>5, <3>1, AcceptCases DEF Brings, Repeats, Skips
  <2>6. CASE d.name # Root /\ IsGit(d) /\ AskMirror(d)
    <3>1. /\ lookup(Usable(d, d.rev), d.rev) = {} /\ mirror' = [mirror EXCEPT ![d.name] = Usable(d, d.rev)]
          /\ last' = "no such rev"
      BY <1>1, <1>2, <2>1, <2>6, AskMirrorCases
    <3>2. d.rev = "HEAD" /\ Usable(d, d.rev).head # "HEAD"
      BY <1>1, <2>2, <2>6, <3>1, NeverMissing
    <3>3. d.name \in Names
      BY <2>2, <2>6 DEF WellFormed
    <3> QED
      BY <1>1, <3>1, <3>2, <3>3
  <2> QED
    BY <2>1, <2>3, <2>4, <2>5, <2>6
<1>10. CASE Checkout
  <2>1. /\ proc.at = "checkout" /\ proc.queue # <<>> /\ d \in Known /\ IsGit(d) /\ d.name \in Names
        /\ d.name # Root /\ proc.want \in Pinnable /\ proc.lock # TornLock /\ Pinned(d, proc.want)
    BY <1>1, <1>10, Stepping DEF Checkout, Control, Fetching, WellFormed, Healing
  <2>2. Accept(Entry(d, proc.want)) \/ HasCommit(d)
    BY <1>10, Zenon DEF Checkout
  <2>3. CASE Accept(Entry(d, proc.want))
    BY <1>1, <1>2, <2>1, <2>3, AcceptCases DEF Brings, Repeats, Skips
  <2>4. CASE HasCommit(d)
    <3>1. lookup(Usable(d, proc.want), proc.want) = {} /\ last' = "no such rev"
      BY <1>1, <1>2, <2>1, <2>4, HasCommitCases
    <3>2. proc.want \in Stubs /\ Locked(d) # {}
      BY <1>1, <2>1, <3>1, NeverMissing
    <3>3. proc.cmd # "fetch"
      BY <1>1, <3>2 DEF Pins, Locked
    <3> QED
      BY <2>1, <3>1, <3>2, <3>3
  <2> QED
    BY <2>2, <2>3, <2>4
<1> QED
  BY <1>4, <1>5, <1>6, <1>7, <1>8, <1>9, <1>10 DEF Next

(* As long as the remotes keep their commits and know the revs that manifests *)
(* name, what a crash or a refused write leaves behind makes no later command *)
(* fail: a half made checkout is removed, and a half made mirror is fetched   *)
(* again. What may still be missing is only the HEAD of a mirror that does    *)
(* not follow the remote's, and, until a fetch, a commit cut short in the     *)
(* lock. (checkout, ensureMirror, refresh and resolveRev, pkg.cpp)            *)
THEOREM CrashesAreHealed == ASSUME WellFormed, Lasting PROVE Spec => CrashesHeal
<1>1. Init => Healing
  <2> SUFFICES ASSUME Init PROVE Healing
    OBVIOUS
  <2>1. proc = Idle /\ proc.at = "idle" /\ lock = {} /\ \A n \in Names : mirror[n] = None
    BY DEF Init, Idle, NoFile
  <2>2. Range(<<>>) = {}
    BY DEF Range
  <2> QED
    BY <2>1, <2>2, NoMirror DEF Healing, Mirrored, Genuine, Fetching
<1>2. IInv /\ Healing /\ [Next]_vars => Healing'
  BY HealingNext DEF IInv
<1>3. IInv /\ Healing /\ [Next]_vars => Heals
  BY HealsStep
<1> QED
  BY <1>1, <1>2, <1>3, Inductive, PTL DEF Spec, CrashesHeal
=============================================================================
