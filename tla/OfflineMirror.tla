--------------------------- MODULE OfflineMirror ---------------------------
(***************************************************************************)
(* The package mirror of the image.  build-iso.sh fills a directory that   *)
(* outlives the build, from repositories that change meanwhile and from    *)
(* packages built of a checkout (build-omarchy-packages.sh), takes what    *)
(* is not selected out of it (prune-offline-mirror.sh), indexes it and has *)
(* the image made.  Every command may fail and the build may be killed;    *)
(* the next build starts from the directory as it was left.                *)
(***************************************************************************)
EXTENDS Integers

CONSTANTS
  Packages,
  LocalPackages,  \* those a build can take from a checkout
  Versions,
  PublishedOf,    \* the versions of a package that are ever published
  LocalOf,        \* the version of a checkout
  Deps,           \* what a package file depends on
  Lists,          \* the package lists a build can meet
  Gated,          \* the packages an image must not lack, those it is checked by included
  MaxBuilds,      \* bound: builds on one cache
  MaxStamp        \* bound: packages published or built

\* A package file, by its name.
Files == Packages \X Versions

\* What is in a file: nothing, part of a package, or the package that was
\* published or built as the n-th.
Absent == 0
Torn == MaxStamp + 1
Package == 1 .. MaxStamp
Release == [ver : Versions, bytes : Package]

ASSUME MirrorAssumption ==
  /\ LocalPackages \subseteq Packages /\ Gated \subseteq Packages
  /\ PublishedOf \in [Packages -> SUBSET Versions] /\ LocalOf \in [LocalPackages -> Versions]
  /\ \A p \in Packages : \E v \in PublishedOf[p] : \A w \in PublishedOf[p] : v <= w
  /\ Deps \in [Files -> SUBSET Packages]
  /\ Lists \subseteq [mirror : SUBSET Packages, target : SUBSET Packages]
  /\ \A l \in Lists : LocalPackages \subseteq l.target /\ l.target \subseteq l.mirror
  /\ MaxBuilds \in Nat /\ MaxStamp \in Nat \ {0}
  /\ Versions \subseteq Int

\* The least set that holds S and what its members need.
Closure(S, needs) ==
  {p \in Packages :
     \A T \in SUBSET Packages : (S \subseteq T /\ \A q \in T : needs[q] \subseteq T) => p \in T}

\* Whatever is offered, nothing that a build from a checkout downloads makes
\* pacman fetch a package of the checkout in the checkout's own version.  That
\* version may be published, and packages of the checkout may need one another.
ASSUME LocalNamesAssumption ==
  \A l \in Lists, offered \in [Packages -> Versions] :
    (\A p \in Packages : offered[p] \in PublishedOf[p]) =>
      \A p \in LocalPackages \cap
                 Closure(l.mirror \ LocalPackages, [q \in Packages |-> Deps[<<q, offered[q]>>]]) :
        offered[p] # LocalOf[p]

VARIABLES
  published,   \* what the repositories offer
  stamp,       \* packages published or built so far
  archives,    \* offline_mirror_dir: what is in the package files
  sigs,        \* what the .sig files beside them sign
  index,       \* offline.db: the files it lists, with their checksums
  builds,      \* builds so far
  pc,          \* the part of the build about to run
  local,       \* LOCAL_OMARCHY_BUILD
  lists,       \* the package lists
  synced,      \* /tmp/offlinedb
  retried,     \* the download was tried before
  made,        \* what makepkg made in this build
  required,    \* required_package_files
  calm         \* no download failed and nothing was published in this build

repositories == <<published, stamp>>
cache == <<archives, sigs, index>>
build == <<builds, local, lists>>
shell == <<synced, retried, made, required>>
vars == <<repositories, cache, build, shell, pc, calm>>

Present == {f \in Files : archives[f] # Absent}
FilesOf(p) == {f \in Present : f[1] = p}
Goto(next) == pc' = next /\ UNCHANGED <<build, calm>>

\* What the repositories offer at first: the oldest release of each package.
Oldest == [p \in Packages |-> [ver |-> CHOOSE v \in PublishedOf[p] : \A w \in PublishedOf[p] : v <= w, bytes |-> 1]]
NothingMade == [p \in LocalPackages |-> [ver |-> LocalOf[p], bytes |-> 1]]

\* The container is gone, and all in it but the cache.
Over ==
  /\ pc' = "idle"
  /\ local' = FALSE
  /\ synced' = Oldest
  /\ retried' = FALSE
  /\ made' = NothingMade
  /\ required' = {}
  /\ UNCHANGED <<builds, lists, calm>>

\* What pacman fetches or prints for a package list: the newest file of each
\* package and of all it depends on.
Selection(db) ==
  LET targets == lists.mirror \ (IF local THEN LocalPackages ELSE {})
  IN  {<<p, db[p].ver>> : p \in Closure(targets, [p \in Packages |-> Deps[<<p, db[p].ver>>]])}

\* The files there are, with their checksums.
Indexed == {<<f, archives[f]>> : f \in Present}

\* The install on the target finds all it needs in the index.
Resolves ==
  LET files(p) == {f \in Files : f[1] = p /\ \E b \in Package : <<f, b>> \in index}
  IN  \A p \in Closure(lists.target, [p \in Packages |-> UNION {Deps[f] : f \in files(p)}]) : files(p) # {}

Init ==
  /\ published = Oldest
  /\ stamp = 1
  /\ archives = [f \in Files |-> Absent]
  /\ sigs = [f \in Files |-> Absent]
  /\ index = {}
  /\ builds = 0
  /\ pc = "idle"
  /\ local = FALSE
  /\ lists \in Lists
  /\ synced = Oldest
  /\ retried = FALSE
  /\ made = NothingMade
  /\ required = {}
  /\ calm = TRUE

\* A newer version, or the same file name with other contents.
Publish ==
  /\ stamp < MaxStamp
  /\ \E p \in Packages, v \in Versions :
       /\ v \in PublishedOf[p] /\ published[p].ver <= v
       /\ published' = [published EXCEPT ![p] = [ver |-> v, bytes |-> stamp + 1]]
  /\ stamp' = stamp + 1
  /\ calm' = FALSE
  /\ UNCHANGED <<cache, build, shell, pc>>

Start ==
  /\ pc = "idle"
  /\ builds < MaxBuilds
  /\ builds' = builds + 1
  /\ local' \in BOOLEAN
  /\ lists' \in Lists
  /\ pc' = IF local' THEN "clean" ELSE "sync"
  /\ calm' = TRUE
  /\ UNCHANGED <<repositories, cache, shell>>

\* A command fails under set -e, or the build is killed.
Abort == pc # "idle" /\ Over /\ UNCHANGED <<repositories, cache>>

-----------------------------------------------------------------------------
(* build-omarchy-packages.sh                                               *)

\* Cached files of the packages to be built, with their signatures.
Clean ==
  /\ pc = "clean"
  /\ UNCHANGED <<repositories, index, shell>>
  /\ \/ \E f \in Files :
          /\ f[1] \in LocalPackages
          /\ \/ archives[f] # Absent /\ archives' = [archives EXCEPT ![f] = Absent] /\ UNCHANGED sigs
             \/ sigs[f] # Absent /\ sigs' = [sigs EXCEPT ![f] = Absent] /\ UNCHANGED archives
          /\ Goto("clean")
     \/ /\ \A f \in Files : f[1] \in LocalPackages => archives[f] = Absent /\ sigs[f] = Absent
        /\ Goto("makepkg")
        /\ UNCHANGED <<archives, sigs>>

Makepkg ==
  /\ pc = "makepkg"
  /\ stamp < MaxStamp
  /\ stamp' = stamp + 1
  /\ made' = [p \in LocalPackages |-> [ver |-> LocalOf[p], bytes |-> stamp + 1]]
  /\ Goto("place")
  /\ UNCHANGED <<published, cache, synced, retried, required>>

\* mv from the work directory, which is on another file system: the build may
\* be killed while it copies.
Place ==
  /\ pc = "place"
  /\ UNCHANGED <<repositories, index>>
  /\ \/ \E p \in LocalPackages, whole \in BOOLEAN :
          LET f == <<p, made[p].ver>> IN
          /\ archives[f] # made[p].bytes
          /\ archives' = [archives EXCEPT ![f] = IF whole THEN made[p].bytes ELSE Torn]
          /\ sigs' = [sigs EXCEPT ![f] = Absent]
          /\ IF whole THEN Goto("place") /\ UNCHANGED shell ELSE Over
     \/ /\ \A p \in LocalPackages : archives[<<p, made[p].ver>>] = made[p].bytes
        /\ Goto("sync")
        /\ UNCHANGED <<archives, sigs, shell>>

-----------------------------------------------------------------------------
(* download_offline_packages, twice at most                                *)

Sync ==
  /\ pc = "sync"
  /\ synced' = published
  /\ Goto("fetch")
  /\ UNCHANGED <<repositories, cache, retried, made, required>>

\* Seeded fault: no second try.
RetryNever(quiet) ==
  /\ pc' = "gave_up"
  /\ calm' = (calm /\ quiet)
  /\ UNCHANGED shell

Retry(quiet) ==
  /\ pc' = IF retried THEN "gave_up" ELSE "sync"
  /\ retried' = TRUE
  /\ calm' = (calm /\ quiet)
  /\ UNCHANGED <<synced, made, required>>

\* pacman fetches what is missing, as far as it is still served.
Fetch ==
  /\ pc = "fetch"
  /\ \E wanted \in {Selection(synced)} :
       \E got \in SUBSET {f \in wanted \ Present : published[f[1]].ver = f[2]} :
         /\ archives' = [f \in Files |-> IF f \in got THEN published[f[1]].bytes ELSE archives[f]]
         /\ sigs' = [f \in Files |-> IF f \in got THEN published[f[1]].bytes ELSE sigs[f]]
         /\ \/ wanted \ Present = got /\ Goto("verify") /\ UNCHANGED shell
            \/ wanted \ Present # got /\ Retry(FALSE) /\ UNCHANGED build
  /\ UNCHANGED <<repositories, index>>

\* Then it compares all of the selection with the checksums of the database;
\* what differs it deletes, and fails.
Verify ==
  /\ pc = "verify"
  /\ \E bad \in {{f \in Selection(synced) : archives[f] # synced[f[1]].bytes}} :
       /\ archives' = [f \in Files |-> IF f \in bad THEN Absent ELSE archives[f]]
       /\ sigs' = [f \in Files |-> IF f \in bad THEN Absent ELSE sigs[f]]
       /\ \/ bad = {} /\ Goto("resolve") /\ UNCHANGED shell
          \/ bad # {} /\ Retry(TRUE) /\ UNCHANGED build
  /\ UNCHANGED <<repositories, index>>

-----------------------------------------------------------------------------
(* What the mirror is to hold                                              *)

\* Seeded fault: the databases are synchronised again.
ResolveSynced ==
  /\ pc = "resolve"
  /\ synced' = published
  /\ required' = Selection(published)
  /\ Goto(IF local THEN "locals" ELSE "check")
  /\ UNCHANGED <<repositories, cache, retried, made>>

\* Seeded fault: the packages on the lists, without what they depend on.
ResolveListed ==
  /\ pc = "resolve"
  /\ required' = {f \in Selection(synced) : f[1] \in lists.mirror}
  /\ Goto(IF local THEN "locals" ELSE "check")
  /\ UNCHANGED <<repositories, cache, synced, retried, made>>

Resolve ==
  /\ pc = "resolve"
  /\ required' = Selection(synced)
  /\ Goto(IF local THEN "locals" ELSE "check")
  /\ UNCHANGED <<repositories, cache, synced, retried, made>>

\* pacman -Qp reads a whole package with no signature or its own.
Readable(f) == archives[f] \in Package /\ sigs[f] \in {Absent, archives[f]}
\* find_offline_package, and the same loop before.
ExactlyOne(p) == \E f \in FilesOf(p) : {g \in FilesOf(p) : Readable(g)} = {f}

\* Seeded fault: the first of several.
LocalsFirst ==
  /\ pc = "locals"
  /\ \E chosen \in [LocalPackages -> Files] :
       /\ \A p \in LocalPackages : chosen[p] \in FilesOf(p) /\ Readable(chosen[p])
       /\ required' = required \cup {chosen[p] : p \in LocalPackages}
  /\ Goto("check")
  /\ UNCHANGED <<repositories, cache, synced, retried, made>>

\* Exactly one file for each package of the checkout.
Locals ==
  /\ pc = "locals"
  /\ \A p \in LocalPackages : ExactlyOne(p)
  /\ required' = required \cup {f \in Present : f[1] \in LocalPackages /\ Readable(f)}
  /\ Goto("check")
  /\ UNCHANGED <<repositories, cache, synced, retried, made>>

-----------------------------------------------------------------------------
(* prune-offline-mirror.sh                                                 *)

Check ==
  /\ pc = "check"
  /\ required # {} /\ required \subseteq Present
  /\ Goto("delete")
  /\ UNCHANGED <<repositories, cache, shell>>

\* A file and its signature; the build may be killed between the two.
Delete ==
  /\ pc = "delete"
  /\ UNCHANGED <<repositories, index>>
  /\ \/ \E f \in Present \ required, killed \in BOOLEAN :
          /\ archives' = [archives EXCEPT ![f] = Absent]
          /\ sigs' = [sigs EXCEPT ![f] = IF killed THEN sigs[f] ELSE Absent]
          /\ IF killed THEN Over ELSE Goto("delete") /\ UNCHANGED shell
     \/ Present \subseteq required /\ Goto("sweep") /\ UNCHANGED <<archives, sigs, shell>>

\* Signatures that have no package.
Sweep ==
  /\ pc = "sweep"
  /\ UNCHANGED <<repositories, archives, index, shell>>
  /\ \/ \E f \in Files \ Present :
          sigs[f] # Absent /\ sigs' = [sigs EXCEPT ![f] = Absent] /\ Goto("sweep")
     \/ (\A f \in Files \ Present : sigs[f] = Absent) /\ Goto("gates") /\ UNCHANGED sigs

-----------------------------------------------------------------------------
(* From the gates to the image                                             *)

Gates ==
  /\ pc = "gates"
  /\ \A p \in Gated : ExactlyOne(p)
  /\ Goto("unindex")
  /\ UNCHANGED <<repositories, cache, shell>>

Unindex ==
  /\ pc = "unindex"
  /\ index' = {}
  /\ Goto("repo-add")
  /\ UNCHANGED <<repositories, archives, sigs, shell>>

\* Every file replaces what the index had of its package.
RepoAdd ==
  /\ pc = "repo-add"
  /\ Present # {}
  /\ index' = Indexed \cup {e \in index : FilesOf(e[1][1]) = {}}
  /\ Goto("expected")
  /\ UNCHANGED <<repositories, archives, sigs, shell>>

\* Seeded fault: a failure leaves the count out, as an odd count does.
ExpectedPackagesTolerant ==
  /\ pc = "expected"
  /\ Goto("image")
  /\ UNCHANGED <<repositories, cache, shell>>

\* resolve_expected_packages
ExpectedPackages ==
  /\ pc = "expected"
  /\ Resolves
  /\ Goto("image")
  /\ UNCHANGED <<repositories, cache, shell>>

\* mkarchiso copies the mirror into the image.
Mkarchiso == pc = "image" /\ Over /\ UNCHANGED <<repositories, cache>>

Rest == pc = "idle" /\ builds = MaxBuilds /\ stamp = MaxStamp /\ UNCHANGED vars

Next ==
  \/ Publish \/ Start \/ Abort
  \/ Clean \/ Makepkg \/ Place
  \/ Sync \/ Fetch \/ Verify \/ Resolve \/ Locals
  \/ Check \/ Delete \/ Sweep
  \/ Gates \/ Unindex \/ RepoAdd \/ ExpectedPackages \/ Mkarchiso
  \/ Rest

Spec == Init /\ [][Next]_vars

-----------------------------------------------------------------------------
(* Properties                                                              *)

Parts == {"idle", "gave_up", "clean", "makepkg", "place", "sync", "fetch", "verify", "resolve", "locals",
          "check", "delete", "sweep", "gates", "unindex", "repo-add", "expected", "image"}

\* Types; the second download is the last.
TypeOK ==
  /\ published \in [Packages -> Release] /\ synced \in [Packages -> Release]
  /\ stamp \in Package
  /\ archives \in [Files -> Package \cup {Absent, Torn}]
  /\ sigs \in [Files -> Package \cup {Absent}]
  /\ index \subseteq Files \X Package
  /\ builds \in 0 .. MaxBuilds
  /\ pc \in Parts
  /\ local \in BOOLEAN /\ retried \in BOOLEAN /\ calm \in BOOLEAN
  /\ lists \in Lists
  /\ made \in [LocalPackages -> Release]
  /\ required \subseteq Files
  /\ pc = "gave_up" => retried

\* Every image can be installed from without a network: the index is of the
\* files in it, and pacstrap finds there the target's packages with all they
\* depend on, whatever killed builds, republished files and changed lists left
\* in the cache.
ImageInstalls == pc = "image" => index = Indexed /\ Resolves

\* A build from a checkout ships the checkout's packages, and none of the same
\* name that the cache or the repositories had.
LocalWins ==
  local => \A p \in LocalPackages :
    FilesOf(p) = {<<p, made[p].ver>>} /\ archives[<<p, made[p].ver>>] = made[p].bytes

\* Nothing of the cache gets into an image but what this build selected: each
\* package once, as the repositories had it when the selection was made or as
\* this build made it, and no signature of anything else.
ImageExact ==
  pc = "image" =>
    /\ Selection(synced) \subseteq Present
    /\ \A f \in Present :
         \/ f \in Selection(synced) /\ archives[f] = synced[f[1]].bytes
         \/ local /\ f[1] \in LocalPackages /\ archives[f] = made[f[1]].bytes
    /\ \A f, g \in Present : f[1] = g[1] => f = g
    /\ \A f \in Files : sigs[f] \in {Absent, archives[f]}
    /\ LocalWins

\* A warm cache is kept until it is known what is needed: a file is taken out
\* only to be built again, because its checksum is wrong, or because it is not
\* selected and all that is selected is there.
WarmCacheKept ==
  [][\A f \in Present \ Present' :
       \/ local /\ f[1] \in LocalPackages
       \/ pc = "verify" /\ archives[f] # synced[f[1]].bytes
       \/ /\ f \notin Selection(synced)
          /\ \A g \in Selection(synced) : archives'[g] = synced[g[1]].bytes]_vars

\* One retry is enough: the download is given up only if a transfer failed or
\* something was published meanwhile, whatever was in the cache.
RetryEnough == pc = "gave_up" => ~ calm
=============================================================================
