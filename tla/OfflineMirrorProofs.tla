------------------------ MODULE OfflineMirrorProofs ------------------------
(***************************************************************************)
(* The properties of OfflineMirror for any packages, dependencies and      *)
(* lists, any history of the repositories and any number of builds.        *)
(***************************************************************************)
EXTENDS OfflineMirror, TLAPS

\* The parts after the download, and after the packages of the checkout were
\* found.
Resolved == {"locals", "check", "delete", "sweep", "gates", "unindex", "repo-add", "expected", "image"}
Fetched == {"resolve"} \cup Resolved
Checked == {"check", "delete", "sweep", "gates", "unindex", "repo-add", "expected", "image"}
Pruned == {"sweep", "gates", "unindex", "repo-add", "expected", "image"}
Swept == {"gates", "unindex", "repo-add", "expected", "image"}
Downloading == {"sync", "fetch", "verify"}

MadeFile(p) == <<p, made[p].ver>>
MadeFiles == IF local THEN {MadeFile(p) : p \in LocalPackages} ELSE {}
Has(f, db) == archives[f] = db[f[1]].bytes

\* Only published versions are published, and the checkout has one version.
Versioned ==
  /\ \A p \in Packages : published[p].ver \in PublishedOf[p] /\ synced[p].ver \in PublishedOf[p]
  /\ \A p \in LocalPackages : made[p].ver = LocalOf[p]

\* A signature beside a package is its own.
Signed == \A f \in Present : sigs[f] \in {Absent, archives[f]}

\* What makepkg made is in place once it was moved there.
Placed ==
  local /\ pc \in Downloading \cup Fetched =>
    \A p \in LocalPackages : archives[MadeFile(p)] = made[p].bytes

\* The selection is in the mirror from the download on.
Selected == pc \in Fetched => \A f \in Selection(synced) : Has(f, synced)

\* What the pruner is given; the packages of a checkout are dealt with only in a
\* build from it.
Required ==
  /\ pc \in {"clean", "makepkg", "place"} => local
  /\ pc = "locals" => local /\ required = Selection(synced)
  /\ pc \in Checked => /\ required = Selection(synced) \cup MadeFiles
                       /\ \A f \in required : f[1] \in LocalPackages /\ local => f = MadeFile(f[1])

\* What the pruner leaves, and what is indexed.
Tidy ==
  /\ pc \in Pruned => Present \subseteq required
  /\ pc \in Swept => \A f \in Files \ Present : sigs[f] = Absent
  /\ pc = "repo-add" => index = {}
  /\ pc \in {"expected", "image"} => index = Indexed
  /\ pc = "image" => Resolves

\* When nothing goes wrong, the second download finds what it has is right.
Retried ==
  /\ pc \in {"idle", "clean", "makepkg", "place"} => ~ retried
  /\ pc = "verify" => Selection(synced) \subseteq Present
  /\ calm /\ pc \in {"fetch", "verify"} => synced = published
  /\ calm /\ retried /\ pc \in Downloading => \A f \in Selection(published) \cap Present : Has(f, published)
  /\ calm => pc # "gave_up"

IInv == TypeOK /\ Versioned /\ Signed /\ Placed /\ Selected /\ Required /\ Tidy /\ Retried

-----------------------------------------------------------------------------
\* The files of the checkout are never among what the repositories are asked for,
\* even those whose names are published.
LEMMA LocalNotSelected ==
  ASSUME TypeOK, Versioned, local, NEW p \in LocalPackages
  PROVE  MadeFile(p) \notin Selection(synced)
  <1> DEFINE needs == [q \in Packages |-> Deps[<<q, synced[q].ver>>]]
             targets == lists.mirror \ LocalPackages
             offered == [q \in Packages |-> synced[q].ver]
  <1> SUFFICES ASSUME MadeFile(p) \in Selection(synced) PROVE FALSE
    OBVIOUS
  <1>1. PICK q \in Closure(targets, needs) : MadeFile(p) = <<q, synced[q].ver>>
    BY DEF Selection
  <1>2. q = p /\ made[p].ver = synced[p].ver
    BY <1>1 DEF MadeFile
  <1>3. p \in Packages /\ offered[p] = LocalOf[p]
    BY <1>2, MirrorAssumption DEF Versioned
  <1>4. offered \in [Packages -> Versions] /\ \A r \in Packages : offered[r] \in PublishedOf[r]
    BY DEF TypeOK, Release, Versioned
  <1>5. needs = [r \in Packages |-> Deps[<<r, offered[r]>>]]
    OBVIOUS
  <1>6. lists \in Lists /\ p \in LocalPackages \cap Closure(targets, needs)
    BY <1>1, <1>2 DEF TypeOK
  <1> HIDE DEF offered, needs
  <1> QED BY <1>3, <1>4, <1>5, <1>6, LocalNamesAssumption

\* What is selected are files, one of a package.
LEMMA SelectionFiles ==
  ASSUME NEW db \in [Packages -> Release]
  PROVE  /\ Selection(db) \subseteq Files
         /\ \A f \in Selection(db) : f[1] \in Packages /\ f = <<f[1], db[f[1]].ver>>
  <1> DEFINE targets == lists.mirror \ (IF local THEN LocalPackages ELSE {})
             needs == [p \in Packages |-> Deps[<<p, db[p].ver>>]]
  <1>1. ASSUME NEW f \in Selection(db)
        PROVE  f \in Files /\ f[1] \in Packages /\ f = <<f[1], db[f[1]].ver>>
    <2>1. PICK p \in Closure(targets, needs) : f = <<p, db[p].ver>>
      BY <1>1 DEF Selection
    <2>2. p \in Packages
      BY <2>1 DEF Closure
    <2>3. db[p].ver \in Versions
      BY <2>2 DEF Release
    <2> QED BY <2>1, <2>2, <2>3 DEF Files
  <1> QED BY <1>1

\* The first releases, and what stands for no packages made.
LEMMA OldestType ==
  /\ Oldest \in [Packages -> Release] /\ NothingMade \in [LocalPackages -> Release]
  /\ \A p \in Packages : Oldest[p].ver \in PublishedOf[p]
  <1>1. \A p \in Packages : Oldest[p] \in Release /\ Oldest[p].ver \in PublishedOf[p]
    <2> TAKE p \in Packages
    <2> DEFINE v == CHOOSE v \in PublishedOf[p] : \A w \in PublishedOf[p] : v <= w
    <2>1. v \in PublishedOf[p]
      BY MirrorAssumption
    <2>2. v \in Versions /\ 1 \in Package
      BY <2>1, MirrorAssumption DEF Package
    <2>3. Oldest[p] = [ver |-> v, bytes |-> 1]
      BY DEF Oldest
    <2> QED BY <2>1, <2>2, <2>3 DEF Release
  <1>2. Oldest \in [Packages -> Release]
    BY <1>1 DEF Oldest
  <1>3. NothingMade \in [LocalPackages -> Release]
    BY MirrorAssumption DEF NothingMade, Release, Package
  <1> QED BY <1>1, <1>2, <1>3

\* The initial state satisfies the inductive invariant.
LEMMA InitIInv == Init => IInv
  <1> SUFFICES ASSUME Init PROVE IInv
    OBVIOUS
  <1>4. TypeOK
    <2>1. stamp \in Package /\ builds \in 0 .. MaxBuilds
      BY MirrorAssumption DEF Init, Package
    <2>2. archives \in [Files -> Package \cup {Absent, Torn}] /\ sigs \in [Files -> Package \cup {Absent}]
      BY DEF Init
    <2> QED BY <2>1, <2>2, OldestType DEF Init, TypeOK, Parts
  <1>5. Versioned
    BY OldestType DEF Init, Versioned, NothingMade
  <1>6. Signed
    BY DEF Init, Signed, Present
  <1> QED
    BY <1>4, <1>5, <1>6
    DEF Init, IInv, Placed, Selected, Required, Tidy, Retried, Downloading, Fetched, Resolved, Checked, Pruned, Swept

-----------------------------------------------------------------------------
\* The selection depends on the lists, the kind of build and the database.
LEMMA SameSelection ==
  ASSUME UNCHANGED <<lists, local>>
  PROVE  /\ synced' = synced => Selection(synced)' = Selection(synced)
         /\ published' = published => Selection(published)' = Selection(published)
         /\ synced' = published => Selection(synced)' = Selection(published)
  BY DEF Selection

\* What the pruner is given is in the mirror, with the right contents.
LEMMA Held ==
  ASSUME IInv, pc \in Checked, NEW f \in required
  PROVE  /\ f \in Present /\ archives[f] \in Package
         /\ \/ f \in Selection(synced) /\ Has(f, synced)
            \/ local /\ f[1] \in LocalPackages /\ f = MadeFile(f[1]) /\ archives[f] = made[f[1]].bytes
  <1>0. TypeOK /\ Placed /\ Selected /\ Required
    BY DEF IInv
  <1>1. CASE f \in Selection(synced)
    <2>1. Has(f, synced)
      BY <1>0, <1>1 DEF Selected, Checked, Fetched, Resolved
    <2>2. f \in Files /\ f[1] \in Packages
      BY <1>0, <1>1, SelectionFiles DEF TypeOK
    <2>3. archives[f] \in Package
      BY <1>0, <2>1, <2>2 DEF TypeOK, Has, Release
    <2> QED BY <1>1, <2>1, <2>2, <2>3 DEF Present, Package, Absent
  <1>2. CASE f \in MadeFiles
    <2>1. PICK p \in LocalPackages : f = MadeFile(p)
      BY <1>2 DEF MadeFiles
    <2>2. local /\ f[1] = p
      BY <1>2, <2>1 DEF MadeFiles, MadeFile
    <2>3. archives[f] = made[p].bytes
      BY <1>0, <2>1, <2>2 DEF Placed, Checked, Fetched, Resolved
    <2>4. made[p].ver \in Versions /\ made[p].bytes \in Package /\ p \in Packages
      BY <1>0, MirrorAssumption DEF TypeOK, Release
    <2>5. f \in Files
      BY <2>1, <2>4 DEF MadeFile, Files
    <2> QED BY <2>1, <2>2, <2>3, <2>4, <2>5 DEF Present, Package, Absent
  <1> QED BY <1>0, <1>1, <1>2 DEF Required

\* Every step keeps the types.
LEMMA TypeNext == IInv /\ [Next]_vars => TypeOK'
  <1> SUFFICES ASSUME IInv, [Next]_vars PROVE TypeOK'
    OBVIOUS
  <1>0. TypeOK /\ Required /\ Tidy
    BY DEF IInv
  <1> USE <1>0 DEF TypeOK, repositories, cache, build, shell, Goto, Parts
  <1>o. Oldest \in [Packages -> Release] /\ NothingMade \in [LocalPackages -> Release]
    BY OldestType
  <1>1. CASE Publish
    <2>1. PICK p \in Packages, v \in Versions :
            published' = [published EXCEPT ![p] = [ver |-> v, bytes |-> stamp + 1]]
      BY <1>1 DEF Publish
    <2>2. stamp + 1 \in Package
      BY <1>1, MirrorAssumption DEF Publish, Package
    <2>3. published' \in [Packages -> Release]
      BY <2>1, <2>2 DEF Release
    <2> QED BY <1>1, <2>2, <2>3 DEF Publish
  <1>2. CASE Start
    BY <1>2, MirrorAssumption DEF Start
  <1>3. CASE Abort \/ Mkarchiso
    BY <1>3, <1>o DEF Abort, Mkarchiso, Over
  <1>4. CASE Clean
    BY <1>4 DEF Clean
  <1>5. CASE Makepkg
    <2>1. stamp + 1 \in Package
      BY <1>5, MirrorAssumption DEF Makepkg, Package
    <2>2. made' \in [LocalPackages -> Release]
      BY <1>5, <2>1, MirrorAssumption DEF Makepkg, Release
    <2> QED BY <1>5, <2>1, <2>2 DEF Makepkg
  <1>6. CASE Place
    <2>1. CASE UNCHANGED <<archives, sigs>>
      BY <1>6, <1>o, <2>1 DEF Place, Over
    <2>2. CASE ~ UNCHANGED <<archives, sigs>>
      <3>1. PICK p \in LocalPackages, whole \in BOOLEAN :
              /\ archives' = [archives EXCEPT ![<<p, made[p].ver>>] = IF whole THEN made[p].bytes ELSE Torn]
              /\ sigs' = [sigs EXCEPT ![<<p, made[p].ver>>] = Absent]
              /\ IF whole THEN Goto("place") /\ UNCHANGED shell ELSE Over
        BY <1>6, <2>2 DEF Place
      <3>2. made[p].bytes \in Package
        BY DEF Release
      <3>3. archives' \in [Files -> Package \cup {Absent, Torn}] /\ sigs' \in [Files -> Package \cup {Absent}]
        BY <3>1, <3>2
      <3> QED BY <1>6, <1>o, <3>1, <3>3 DEF Place, Over
    <2> QED BY <2>1, <2>2
  <1>7. CASE Sync
    BY <1>7 DEF Sync
  <1>8. CASE Fetch
    <2>1. PICK wanted \in {Selection(synced)} :
            \E got \in SUBSET {f \in wanted \ Present : published[f[1]].ver = f[2]} :
              /\ archives' = [f \in Files |-> IF f \in got THEN published[f[1]].bytes ELSE archives[f]]
              /\ sigs' = [f \in Files |-> IF f \in got THEN published[f[1]].bytes ELSE sigs[f]]
      BY <1>8 DEF Fetch
    <2>2. \A f \in Files : published[f[1]].bytes \in Package
      BY DEF Files, Release
    <2>3. archives' \in [Files -> Package \cup {Absent, Torn}] /\ sigs' \in [Files -> Package \cup {Absent}]
      BY <2>1, <2>2
    <2>4. pc' \in {"verify", "gave_up", "sync"} /\ retried' \in BOOLEAN /\ calm' \in BOOLEAN
          /\ (pc' = "gave_up" => retried') /\ UNCHANGED <<synced, made, required, build, repositories, index>>
      BY <1>8 DEF Fetch, Retry
    <2> QED BY <2>3, <2>4
  <1>9. CASE Verify
    <2>1. archives' \in [Files -> Package \cup {Absent, Torn}] /\ sigs' \in [Files -> Package \cup {Absent}]
      BY <1>9 DEF Verify
    <2>2. pc' \in {"resolve", "gave_up", "sync"} /\ retried' \in BOOLEAN /\ calm' \in BOOLEAN
          /\ (pc' = "gave_up" => retried') /\ UNCHANGED <<synced, made, required, build, repositories, index>>
      BY <1>9 DEF Verify, Retry
    <2> QED BY <2>1, <2>2
  <1>10. CASE Resolve
    <2>1. Selection(synced) \subseteq Files
      BY SelectionFiles
    <2> QED BY <1>10, <2>1 DEF Resolve
  <1>11. CASE Locals
    BY <1>11 DEF Locals, Present
  <1>12. CASE Check \/ Gates \/ ExpectedPackages
    BY <1>12 DEF Check, Gates, ExpectedPackages
  <1>13. CASE Delete
    <2>1. archives' \in [Files -> Package \cup {Absent, Torn}] /\ sigs' \in [Files -> Package \cup {Absent}]
      BY <1>13 DEF Delete, Present
    <2> QED BY <1>13, <1>o, <2>1 DEF Delete, Over
  <1>14. CASE Sweep
    BY <1>14 DEF Sweep
  <1>15. CASE Unindex
    BY <1>15 DEF Unindex
  <1>16. CASE RepoAdd
    <2>1. index' \subseteq Files \X Package
      <3>1. ASSUME NEW f \in Present PROVE archives[f] \in Package
        BY <1>16, Held DEF RepoAdd, Tidy, Pruned, Checked
      <3> QED BY <1>16, <3>1 DEF RepoAdd, Indexed, Present
    <2> QED BY <1>16, <2>1 DEF RepoAdd
  <1>17. CASE UNCHANGED vars
    BY <1>17 DEF vars
  <1> QED
    BY <1>1, <1>2, <1>3, <1>4, <1>5, <1>6, <1>7, <1>8, <1>9, <1>10, <1>11, <1>12, <1>13, <1>14, <1>15, <1>16, <1>17
    DEF Next, Rest

\* What a step does to the variables of a build: each is set in one place, or
\* dropped with the container.
LEMMA Setters ==
  ASSUME [Next]_vars
  PROVE  /\ pc' # "idle" => Start \/ UNCHANGED <<lists, local>>
         /\ pc' # "idle" => Sync \/ synced' = synced
         /\ pc' # "idle" => Makepkg \/ made' = made
         /\ pc' # "idle" => Resolve \/ Locals \/ required' = required
         /\ Over \/ Sync \/ synced' = synced
         /\ Over \/ Makepkg \/ made' = made
         /\ Publish \/ published' = published
         /\ Clean \/ Place \/ Fetch \/ Verify \/ Delete \/ archives' = archives
         /\ Clean \/ Place \/ Fetch \/ Verify \/ Delete \/ Sweep \/ sigs' = sigs
         /\ Over \/ Start \/ Fetch \/ Verify \/ retried' = retried
  <1> USE DEF repositories, cache, build, shell, Goto
  <1>1. CASE Publish \/ Start
    BY <1>1 DEF Publish, Start
  <1>2. CASE Abort \/ Mkarchiso
    BY <1>2 DEF Abort, Mkarchiso, Over
  <1>3. CASE Clean \/ Makepkg \/ Sync
    BY <1>3 DEF Clean, Makepkg, Sync
  <1>4. CASE Place
    BY <1>4 DEF Place, Over
  <1>5. CASE Fetch \/ Verify
    BY <1>5 DEF Fetch, Verify, Retry
  <1>6. CASE Resolve \/ Locals \/ Check \/ Sweep \/ Gates \/ Unindex \/ RepoAdd \/ ExpectedPackages
    BY <1>6 DEF Resolve, Locals, Check, Sweep, Gates, Unindex, RepoAdd, ExpectedPackages
  <1>7. CASE Delete
    BY <1>7 DEF Delete, Over
  <1>8. CASE Rest \/ UNCHANGED vars
    BY <1>8 DEF Rest, vars
  <1> QED
    BY <1>1, <1>2, <1>3, <1>4, <1>5, <1>6, <1>7, <1>8 DEF Next

\* The parts of a build follow one another.
LEMMA Order ==
  ASSUME [Next]_vars
  PROVE  /\ pc' \in {"clean", "makepkg", "place"} =>
              Start \/ Clean \/ Makepkg \/ Place \/ (pc' = pc /\ UNCHANGED archives)
         /\ pc' = "sync" => Start \/ Place \/ Fetch \/ Verify \/ pc' = pc
         /\ pc' = "fetch" => Sync \/ pc' = pc
         /\ pc' = "verify" => Fetch \/ pc' = pc
         /\ pc' = "resolve" => Verify \/ pc' = pc
         /\ pc' = "locals" => Resolve \/ pc' = pc
         /\ pc' = "check" => Resolve \/ Locals \/ pc' = pc
         /\ pc' = "delete" => Check \/ Delete \/ pc' = pc
         /\ pc' = "sweep" => Delete \/ Sweep \/ pc' = pc
         /\ pc' = "gates" => Sweep \/ pc' = pc
         /\ pc' = "unindex" => Gates \/ pc' = pc
         /\ pc' = "repo-add" => Unindex \/ pc' = pc
         /\ pc' = "expected" => RepoAdd \/ pc' = pc
         /\ pc' = "image" => ExpectedPackages \/ pc' = pc
         /\ pc' = "gave_up" => Fetch \/ Verify \/ pc' = pc
  <1> USE DEF Goto, cache
  <1>1. CASE Publish \/ Start
    BY <1>1 DEF Publish, Start
  <1>2. CASE Abort \/ Mkarchiso
    BY <1>2 DEF Abort, Mkarchiso, Over
  <1>3. CASE Clean \/ Makepkg \/ Sync
    BY <1>3 DEF Clean, Makepkg, Sync
  <1>4. CASE Place
    BY <1>4 DEF Place, Over
  <1>5. CASE Fetch \/ Verify
    BY <1>5 DEF Fetch, Verify, Retry
  <1>6. CASE Resolve \/ Locals \/ Check \/ Sweep \/ Gates \/ Unindex \/ RepoAdd \/ ExpectedPackages
    BY <1>6 DEF Resolve, Locals, Check, Sweep, Gates, Unindex, RepoAdd, ExpectedPackages
  <1>7. CASE Delete
    BY <1>7 DEF Delete, Over
  <1>8. CASE Rest \/ UNCHANGED vars
    BY <1>8 DEF Rest, vars
  <1> QED
    BY <1>1, <1>2, <1>3, <1>4, <1>5, <1>6, <1>7, <1>8 DEF Next

\* The versions stay as assumed.
LEMMA VersionedNext == IInv /\ [Next]_vars => Versioned'
  <1> SUFFICES ASSUME IInv, [Next]_vars PROVE Versioned'
    OBVIOUS
  <1>0. TypeOK /\ Versioned
    BY DEF IInv
  <1>1. \A p \in Packages : published'[p].ver \in PublishedOf[p]
    <2>1. CASE Publish
      <3>1. PICK p \in Packages, v \in Versions :
              v \in PublishedOf[p] /\ published' = [published EXCEPT ![p] = [ver |-> v, bytes |-> stamp + 1]]
        BY <2>1 DEF Publish
      <3> QED BY <1>0, <3>1 DEF TypeOK, Versioned
    <2> QED BY <1>0, <2>1, Setters DEF Versioned
  <1>2. \A p \in Packages : synced'[p].ver \in PublishedOf[p]
    BY <1>0, Setters, OldestType DEF Over, Sync, Versioned
  <1>3. \A p \in LocalPackages : made'[p].ver = LocalOf[p]
    <2> TAKE p \in LocalPackages
    <2>1. CASE Over
      BY <2>1 DEF Over, NothingMade
    <2>2. CASE Makepkg
      BY <2>2 DEF Makepkg
    <2> QED BY <1>0, <2>1, <2>2, Setters DEF Versioned
  <1> QED BY <1>1, <1>2, <1>3 DEF Versioned

\* Signatures are put beside a package with it, and taken away with it or for
\* a new one.
LEMMA SignedNext == IInv /\ [Next]_vars => Signed'
  <1> SUFFICES ASSUME IInv, [Next]_vars, NEW f \in Files, archives'[f] # Absent
               PROVE  sigs'[f] \in {Absent, archives'[f]}
    BY DEF Signed, Present
  <1>0. TypeOK /\ (archives[f] # Absent => sigs[f] \in {Absent, archives[f]})
    BY DEF IInv, Signed, Present
  <1>1. CASE Clean
    BY <1>0, <1>1 DEF Clean, TypeOK
  <1>2. CASE Place
    BY <1>0, <1>2 DEF Place, TypeOK
  <1>3. CASE Fetch
    BY <1>0, <1>3 DEF Fetch, TypeOK
  <1>4. CASE Verify
    BY <1>0, <1>4 DEF Verify, TypeOK
  <1>5. CASE Delete
    BY <1>0, <1>5 DEF Delete, TypeOK
  <1>6. CASE Sweep
    BY <1>0, <1>6 DEF Sweep, TypeOK, Present, cache
  <1> QED BY <1>0, <1>1, <1>2, <1>3, <1>4, <1>5, <1>6, Setters

\* Where the parts come from that follow the packages of the checkout.
LEMMA Came ==
  ASSUME [Next]_vars
  PROVE  /\ pc' \in Downloading \cup Fetched /\ ~ Start /\ ~ Place =>
              pc \in Downloading \cup Fetched /\ ~ Clean /\ ~ Makepkg
         /\ pc' \in Fetched /\ ~ Verify =>
              pc \in Fetched /\ ~ Clean /\ ~ Makepkg /\ ~ Place /\ ~ Sync /\ ~ Fetch /\ ~ Start
         /\ pc' \in Checked /\ ~ Resolve /\ ~ Locals => pc \in Checked
         /\ pc' \in Checked => Resolve \/ Locals \/ required' = required
  <1> USE DEF Downloading, Fetched, Resolved, Checked, Goto
  <1>1. CASE Publish \/ Start
    BY <1>1 DEF Publish, Start, shell, Clean, Makepkg, Place, Sync, Fetch
  <1>2. CASE Abort \/ Mkarchiso
    BY <1>2 DEF Abort, Mkarchiso, Over
  <1>3. CASE Clean \/ Makepkg
    BY <1>3 DEF Clean, Makepkg
  <1>4. CASE Sync
    BY <1>4 DEF Sync, Clean, Makepkg
  <1>5. CASE Place
    BY <1>5 DEF Place, Over
  <1>6. CASE Fetch
    BY <1>6 DEF Fetch, Retry, Clean, Makepkg
  <1>7. CASE Verify
    BY <1>7 DEF Verify, Retry, Clean, Makepkg
  <1>8. CASE Resolve \/ Locals
    BY <1>8 DEF Resolve, Locals, Clean, Makepkg, Place, Sync, Fetch, Start
  <1>9. CASE Check \/ Sweep \/ Gates \/ Unindex \/ RepoAdd \/ ExpectedPackages
    BY <1>9
    DEF Check, Sweep, Gates, Unindex, RepoAdd, ExpectedPackages, Clean, Makepkg, Place, Sync, Fetch, Start, shell
  <1>10. CASE Delete
    BY <1>10 DEF Delete, Over, Clean, Makepkg, Place, Sync, Fetch, Start, shell
  <1>11. CASE Rest \/ UNCHANGED vars
    BY <1>11 DEF Rest, vars, shell, Clean, Makepkg, Place, Sync, Fetch, Start
  <1> QED
    BY <1>1, <1>2, <1>3, <1>4, <1>5, <1>6, <1>7, <1>8, <1>9, <1>10, <1>11 DEF Next

\* A package of the checkout stays in place: it is not missing, so pacman does
\* not fetch over it; it is not selected, so pacman does not compare it; and
\* the pruner is given its name.
LEMMA PlacedNext == IInv /\ [Next]_vars => Placed'
  <1> SUFFICES ASSUME IInv, [Next]_vars, local', pc' \in Downloading \cup Fetched, NEW p \in LocalPackages
               PROVE  archives'[MadeFile(p)'] = made'[p].bytes
    BY DEF Placed
  <1>0. TypeOK /\ Versioned /\ Placed /\ Required /\ pc' # "idle"
    BY DEF IInv, Downloading, Fetched, Resolved
  <1>1. CASE Start
    BY <1>1 DEF Start, Downloading, Fetched, Resolved
  <1>2. CASE Place
    <2>1. pc' = "sync"
      BY <1>2 DEF Place, Goto, Over, Downloading, Fetched, Resolved
    <2>2. /\ \A q \in LocalPackages : archives[<<q, made[q].ver>>] = made[q].bytes
          /\ archives' = archives /\ made' = made
      BY <1>2, <2>1 DEF Place, Goto, Over, shell
    <2> QED BY <2>2 DEF MadeFile
  <1>3. CASE ~ Start /\ ~ Place
    <2>1. pc \in Downloading \cup Fetched /\ ~ Clean /\ ~ Makepkg
      BY <1>3, Came
    <2>2. local /\ lists' = lists /\ made' = made
      BY <1>0, <1>3, <2>1, Setters
    <2>3. archives[MadeFile(p)] = made[p].bytes
      BY <1>0, <2>1, <2>2 DEF Placed
    <2>4. MadeFile(p) \in Files /\ made[p].bytes \in Package
      BY <1>0, MirrorAssumption DEF TypeOK, Release, MadeFile, Files
    <2>5. MadeFile(p) \in Present
      BY <2>3, <2>4 DEF Present, Package, Absent
    <2>6. archives'[MadeFile(p)] = archives[MadeFile(p)]
      <3>1. CASE Fetch
        BY <3>1, <2>4, <2>5 DEF Fetch
      <3>2. CASE Verify
        BY <3>2, <1>0, <2>2, <2>4, LocalNotSelected DEF Verify
      <3>3. CASE Delete
        <4>1. MadeFile(p) \in required
          BY <3>3, <1>0, <2>2 DEF Delete, Required, Checked, MadeFiles
        <4> QED BY <3>3, <1>0, <4>1 DEF Delete, TypeOK
      <3> QED BY <1>3, <2>1, <3>1, <3>2, <3>3, Setters, <1>0 DEF Over
    <2> QED BY <2>2, <2>3, <2>6 DEF MadeFile
  <1> QED BY <1>1, <1>2, <1>3

\* The selection stays in the mirror from the download on.
LEMMA SelectedNext == IInv /\ [Next]_vars => Selected'
  <1> SUFFICES ASSUME IInv, [Next]_vars, pc' \in Fetched, NEW f \in Selection(synced)'
               PROVE  archives'[f] = synced'[f[1]].bytes
    BY DEF Selected, Has
  <1>0. TypeOK /\ Selected /\ Required /\ pc' # "idle"
    BY DEF IInv, Fetched, Resolved
  <1>1. CASE Verify
    <2>1. \A g \in Selection(synced) : archives[g] = synced[g[1]].bytes
      BY <1>1 DEF Verify, Retry, Fetched, Resolved
    <2>2. archives' = archives /\ synced' = synced /\ UNCHANGED <<lists, local>>
      <3>1. archives' = [g \in Files |-> archives[g]]
        BY <1>1, <2>1 DEF Verify
      <3> QED BY <1>0, <1>1, <3>1 DEF Verify, Retry, Goto, shell, build, TypeOK
    <2> QED BY <2>1, <2>2, SameSelection
  <1>2. CASE ~ Verify
    <2>1. pc \in Fetched /\ ~ Clean /\ ~ Place /\ ~ Sync /\ ~ Fetch /\ ~ Start
      BY <1>2, Came
    <2>2. synced' = synced /\ UNCHANGED <<lists, local>>
      BY <1>0, <2>1, Setters
    <2>3. f \in Selection(synced) /\ f \in Files
      BY <1>0, <2>2, SameSelection, SelectionFiles DEF TypeOK
    <2>4. archives[f] = synced[f[1]].bytes
      BY <1>0, <2>1, <2>3 DEF Selected, Has
    <2>5. archives'[f] = archives[f]
      <3>1. CASE Delete
        <4>1. f \in required
          BY <3>1, <1>0, <2>3 DEF Delete, Required, Checked
        <4> QED BY <3>1, <1>0, <4>1, <2>3 DEF Delete, TypeOK
      <3> QED BY <1>2, <2>1, <3>1, Setters
    <2> QED BY <2>2, <2>4, <2>5
  <1> QED BY <1>1, <1>2

\* The packages of the checkout are found, each as the only one of its name.
LEMMA FoundLocals ==
  ASSUME IInv, Locals, local
  PROVE  /\ {f \in Present : f[1] \in LocalPackages /\ Readable(f)} = MadeFiles
         /\ \A f \in Selection(synced) : f[1] \in LocalPackages => f = MadeFile(f[1])
  <1>0. TypeOK /\ Signed /\ Placed /\ Selected /\ pc = "locals"
    BY DEF IInv, Locals
  <1>1. ASSUME NEW p \in LocalPackages
        PROVE  MadeFile(p) \in FilesOf(p) /\ Readable(MadeFile(p))
    <2>1. archives[MadeFile(p)] = made[p].bytes
      BY <1>0 DEF Placed, Fetched, Resolved
    <2>2. MadeFile(p) \in Files /\ made[p].bytes \in Package /\ MadeFile(p)[1] = p
      BY <1>0, MirrorAssumption DEF TypeOK, Release, MadeFile, Files
    <2>3. MadeFile(p) \in Present
      BY <2>1, <2>2 DEF Present, Package, Absent
    <2> QED BY <1>0, <2>1, <2>2, <2>3 DEF Readable, FilesOf, Signed
  <1>2. \A p \in LocalPackages : \A f \in FilesOf(p) : Readable(f) => f = MadeFile(p)
    BY <1>1 DEF Locals, ExactlyOne
  <1>3. ASSUME NEW f \in Selection(synced) PROVE f \in FilesOf(f[1]) /\ Readable(f)
    <2>1. f \in Files /\ f[1] \in Packages
      BY <1>0, SelectionFiles DEF TypeOK
    <2>2. archives[f] \in Package
      BY <1>0, <2>1 DEF Selected, Fetched, Resolved, Has, TypeOK, Release
    <2>3. f \in Present
      BY <2>1, <2>2 DEF Present, Package, Absent
    <2> QED BY <1>0, <2>2, <2>3 DEF FilesOf, Readable, Signed
  <1>4. \A f \in Present : f \in FilesOf(f[1])
    BY DEF FilesOf
  <1>5. \A p \in LocalPackages : MadeFile(p)[1] = p /\ MadeFile(p) \in Present
    BY <1>1 DEF MadeFile, FilesOf
  <1> QED BY <1>1, <1>2, <1>3, <1>4, <1>5 DEF MadeFiles

\* The pruner is given the selection and the packages of the checkout, at most
\* one file of each of those.
LEMMA RequiredNext == IInv /\ [Next]_vars => Required'
  <1> SUFFICES ASSUME IInv, [Next]_vars PROVE Required'
    OBVIOUS
  <1>0. TypeOK /\ Required
    BY DEF IInv
  <1>1. pc' = "locals" => local' /\ required' = Selection(synced)'
    <2>1. CASE Resolve
      BY <2>1, SameSelection DEF Resolve, Goto, build
    <2>2. CASE pc = "locals" /\ pc' = "locals"
      <3>1. ~ Resolve /\ ~ Locals /\ ~ Sync /\ ~ Start /\ pc' # "idle"
        BY <2>2 DEF Resolve, Locals, Goto, Sync, Start
      <3>2. required' = required /\ synced' = synced /\ UNCHANGED <<lists, local>>
        BY <3>1, Setters
      <3> QED BY <1>0, <2>2, <3>2, SameSelection DEF Required
    <2> QED BY <2>1, <2>2, Order
  <1>2. CASE pc' \in Checked /\ Resolve
    <2>1. ~ local /\ required' = Selection(synced) /\ synced' = synced /\ UNCHANGED <<lists, local>>
      BY <1>2 DEF Resolve, Goto, Checked, build
    <2> QED BY <1>2, <2>1, SameSelection DEF Required, MadeFiles, Checked
  <1>3. CASE pc' \in Checked /\ Locals
    <2>1. /\ required' = required \cup {f \in Present : f[1] \in LocalPackages /\ Readable(f)}
          /\ synced' = synced /\ made' = made /\ UNCHANGED <<lists, local>> /\ pc = "locals"
      BY <1>3 DEF Locals, Goto, build
    <2>2. required = Selection(synced) /\ Selection(synced)' = Selection(synced) /\ MadeFiles' = MadeFiles
      BY <1>0, <2>1, SameSelection DEF Required, MadeFiles, MadeFile
    <2>3. local
      BY <1>0, <1>3 DEF Locals, Required
    <2>4. required' = Selection(synced)' \cup MadeFiles'
      BY <1>3, <2>1, <2>2, <2>3, FoundLocals
    <2>5. \A f \in required' : f[1] \in LocalPackages => f = MadeFile(f[1])
      BY <1>3, <2>2, <2>3, <2>4, FoundLocals DEF MadeFiles, MadeFile
    <2> QED BY <1>3, <2>1, <2>4, <2>5 DEF Required, MadeFile, Checked
  <1>4. CASE pc' \in Checked /\ ~ Resolve /\ ~ Locals
    <2>1. pc \in Checked /\ required' = required
      BY <1>4, Came
    <2>2. ~ Sync /\ ~ Makepkg /\ ~ Start /\ pc' # "idle"
      BY <1>4, <2>1 DEF Checked, Sync, Makepkg, Start
    <2>3. synced' = synced /\ made' = made /\ UNCHANGED <<lists, local>>
      BY <2>2, Setters
    <2>4. Selection(synced)' = Selection(synced) /\ MadeFiles' = MadeFiles
      BY <2>3, SameSelection DEF MadeFiles, MadeFile
    <2>5. required' = Selection(synced)' \cup MadeFiles'
      BY <1>0, <2>1, <2>4 DEF Required
    <2>6. \A f \in required' : f[1] \in LocalPackages /\ local' => f = MadeFile(f[1])'
      BY <1>0, <2>1, <2>3 DEF Required, MadeFile
    <2> QED BY <1>4, <2>5, <2>6 DEF Required, Checked
  <1>5. pc' \in {"clean", "makepkg", "place"} => local'
    <2>1. CASE Start
      BY <2>1 DEF Start
    <2>2. CASE pc \in {"clean", "makepkg", "place"} /\ ~ Start /\ pc' # "idle"
      BY <1>0, <2>2, Setters DEF Required
    <2>3. Clean \/ Makepkg \/ Place => pc \in {"clean", "makepkg", "place"}
      BY DEF Clean, Makepkg, Place
    <2> QED BY <2>1, <2>2, <2>3, Order
  <1> QED BY <1>1, <1>2, <1>3, <1>4, <1>5 DEF Required

\* Only the indexing changes the index.
LEMMA Indexers ==
  ASSUME [Next]_vars
  PROVE  Unindex \/ RepoAdd \/ index' = index
  <1> USE DEF repositories, cache
  <1>1. CASE Publish \/ Start \/ Abort \/ Mkarchiso
    BY <1>1 DEF Publish, Start, Abort, Mkarchiso
  <1>2. CASE Clean \/ Makepkg \/ Place \/ Sync \/ Fetch \/ Verify \/ Resolve \/ Locals
    BY <1>2 DEF Clean, Makepkg, Place, Sync, Fetch, Verify, Resolve, Locals
  <1>3. CASE Check \/ Delete \/ Sweep \/ Gates \/ ExpectedPackages \/ Rest \/ UNCHANGED vars
    BY <1>3 DEF Check, Delete, Sweep, Gates, ExpectedPackages, Rest, vars
  <1> QED BY <1>1, <1>2, <1>3 DEF Next

\* What the pruner left is still what there is, and what the index lists.
LEMMA TidyNext == IInv /\ [Next]_vars => Tidy'
  <1> SUFFICES ASSUME IInv, [Next]_vars PROVE Tidy'
    OBVIOUS
  <1>0. TypeOK /\ Tidy
    BY DEF IInv
  <1> USE DEF repositories, cache, build, shell, Goto
  <1>1. pc' \in Pruned => Delete \/ pc \in Pruned
    BY Order DEF Pruned, Sweep, Gates, Unindex, RepoAdd, ExpectedPackages
  <1>2. pc \in Pruned /\ pc' \in Pruned => UNCHANGED <<archives, required>>
    <2> SUFFICES ASSUME pc \in Pruned, pc' \in Pruned PROVE UNCHANGED <<archives, required>>
      OBVIOUS
    <2>1. ~ Clean /\ ~ Place /\ ~ Fetch /\ ~ Verify /\ ~ Delete /\ ~ Resolve /\ ~ Locals /\ pc' # "idle"
      BY DEF Pruned, Clean, Place, Fetch, Verify, Delete, Resolve, Locals
    <2> QED BY <2>1, Setters
  <1>3. pc' \in Pruned => (Present \subseteq required)'
    <2>1. CASE Delete
      BY <1>0, <2>1 DEF Delete, Over, Pruned, Present
    <2> QED BY <1>0, <1>1, <1>2, <2>1 DEF Tidy, Present
  <1>4. pc' \in Swept => Sweep \/ pc \in Swept
    BY Order DEF Swept, Gates, Unindex, RepoAdd, ExpectedPackages
  <1>5. pc' \in Swept => (\A f \in Files \ Present : sigs[f] = Absent)'
    <2>1. CASE Sweep
      BY <1>0, <2>1 DEF Sweep, Swept, Present
    <2>2. CASE pc \in Swept /\ pc' \in Swept
      <3>1. ~ Clean /\ ~ Place /\ ~ Fetch /\ ~ Verify /\ ~ Delete /\ ~ Sweep
        BY <2>2 DEF Swept, Clean, Place, Fetch, Verify, Delete, Sweep
      <3>2. UNCHANGED <<archives, sigs>>
        BY <3>1, Setters
      <3> QED BY <1>0, <2>2, <3>2 DEF Tidy, Present
    <2> QED BY <1>4, <2>1, <2>2
  <1>6. pc' = "repo-add" => index' = {}
    <2>1. CASE Unindex
      BY <2>1 DEF Unindex
    <2>2. CASE pc = "repo-add" /\ pc' = "repo-add"
      BY <1>0, <2>2, Indexers DEF Tidy, Unindex, RepoAdd
    <2> QED BY <2>1, <2>2, Order
  <1>7. pc' \in {"expected", "image"} => index' = Indexed'
    <2>1. CASE RepoAdd
      BY <1>0, <2>1 DEF RepoAdd, Indexed, Present, Tidy
    <2>2. CASE pc \in {"expected", "image"} /\ pc' \in {"expected", "image"}
      <3>1. index' = index /\ archives' = archives
        BY <1>2, <2>2, Indexers DEF Pruned, Unindex, RepoAdd
      <3>2. Indexed' = Indexed
        BY <3>1 DEF Indexed, Present
      <3> QED BY <1>0, <2>2, <3>1, <3>2 DEF Tidy
    <2> QED BY <2>1, <2>2, Order DEF ExpectedPackages
  <1>8. pc' = "image" => Resolves'
    <2>1. CASE ExpectedPackages
      BY <2>1 DEF ExpectedPackages, Resolves
    <2>2. CASE pc = "image" /\ pc' = "image"
      <3>1. index' = index /\ lists' = lists
        BY <2>2, Indexers, Setters DEF Start, Unindex, RepoAdd
      <3> QED BY <1>0, <2>2, <3>1 DEF Tidy, Resolves
    <2> QED BY <2>1, <2>2, Order
  <1> QED BY <1>3, <1>5, <1>6, <1>7, <1>8 DEF Tidy

\* One retry is enough, as long as no transfer fails and nothing is published:
\* the databases then stay as they are, what the first try fetched is right,
\* and what was wrong it deleted.
LEMMA RetriedNext == IInv /\ [Next]_vars => Retried'
  <1> SUFFICES ASSUME IInv, [Next]_vars PROVE Retried'
    OBVIOUS
  <1>0. TypeOK /\ Retried
    BY DEF IInv
  <1> USE DEF repositories, cache, build, shell, Goto, Retried, Downloading
  <1>1. CASE Publish
    <2>1. Selection(synced)' = Selection(synced) /\ Present' = Present
      BY <1>1, SameSelection DEF Publish, Present
    <2> QED BY <1>0, <1>1, <2>1 DEF Publish
  <1>2. CASE Start
    BY <1>0, <1>2 DEF Start
  <1>3. CASE Over
    BY <1>3 DEF Over
  <1>4. CASE Clean \/ Makepkg
    BY <1>0, <1>4 DEF Clean, Makepkg
  <1>5. CASE Place /\ ~ Over
    <2>1. pc' \in {"place", "sync"} /\ retried' = retried /\ calm' = calm /\ pc = "place"
      BY <1>5 DEF Place
    <2> QED BY <1>0, <2>1
  <1>6. CASE Sync
    <2>1. archives' = archives /\ published' = published /\ UNCHANGED <<lists, local, retried, calm>>
      BY <1>6 DEF Sync
    <2>2. Selection(published)' = Selection(published) /\ Present' = Present
      BY <2>1, SameSelection DEF Present
    <2> QED BY <1>0, <1>6, <2>1, <2>2 DEF Sync, Has
  <1>7. CASE Fetch
    <2>0. pc' = "verify" => (Selection(synced) \subseteq Present)'
      <3> SUFFICES ASSUME pc' = "verify" PROVE (Selection(synced) \subseteq Present)'
        OBVIOUS
      <3>1. /\ archives' = [f \in Files |-> IF f \in Selection(synced) \ Present
                                             THEN published[f[1]].bytes ELSE archives[f]]
            /\ UNCHANGED <<synced, lists, local>>
        BY <1>7 DEF Fetch, Retry
      <3>2. Selection(synced)' = Selection(synced)
        BY <3>1, SameSelection
      <3>3. ASSUME NEW f \in Selection(synced) PROVE f \in Files /\ archives'[f] # Absent
        <4>1. f \in Files /\ f[1] \in Packages
          BY <1>0, SelectionFiles DEF TypeOK
        <4>2. published[f[1]].bytes # Absent
          BY <1>0, <4>1 DEF TypeOK, Release, Package, Absent
        <4> QED BY <3>1, <4>1, <4>2 DEF Present
      <3> QED BY <3>2, <3>3 DEF Present
    <2>1. CASE calm'
      <3>1. PICK got \in SUBSET (Selection(synced) \ Present) :
              /\ archives' = [f \in Files |-> IF f \in got THEN published[f[1]].bytes ELSE archives[f]]
              /\ pc' = "verify" /\ calm /\ UNCHANGED <<shell, build, published>>
        BY <1>7, <2>1 DEF Fetch, Retry
      <3>2. synced = published /\ pc = "fetch"
        BY <1>0, <1>7, <3>1 DEF Fetch
      <3>3. Selection(published)' = Selection(published)
        BY <3>1, SameSelection
      <3>4. ASSUME retried, NEW f \in Selection(published), archives'[f] # Absent
            PROVE  archives'[f] = published[f[1]].bytes
        <4>1. f \in Files
          BY <1>0, SelectionFiles DEF TypeOK
        <4>2. CASE f \in got
          BY <3>1, <4>1, <4>2
        <4>3. CASE f \notin got
          BY <1>0, <3>1, <3>2, <3>4, <4>1, <4>3 DEF Present, Has
        <4> QED BY <4>2, <4>3
      <3> QED BY <1>0, <2>0, <3>1, <3>2, <3>3, <3>4 DEF Has, Present
    <2> QED BY <1>0, <1>7, <2>0, <2>1 DEF Fetch, Retry
  <1>8. CASE Verify
    <2>1. CASE calm'
      <3>1. /\ archives' = [f \in Files |-> IF f \in Selection(synced) /\ archives[f] # synced[f[1]].bytes
                                             THEN Absent ELSE archives[f]]
            /\ UNCHANGED <<lists, local, published, synced>> /\ calm /\ pc = "verify"
        BY <1>8, <2>1 DEF Verify, Retry
      <3>2. synced = published /\ Selection(published)' = Selection(published) /\ Selection(published) \subseteq Files
        BY <1>0, <3>1, SameSelection, SelectionFiles DEF TypeOK
      <3>3. ASSUME NEW f \in Selection(published), archives'[f] # Absent
            PROVE  archives'[f] = published[f[1]].bytes
        BY <3>1, <3>2, <3>3
      <3>4. ASSUME retried, pc' # "resolve" PROVE FALSE
        <4>1. PICK f \in Selection(synced) : archives[f] # synced[f[1]].bytes
          BY <1>8, <3>4 DEF Verify
        <4>2. archives[f] = Absent
          BY <1>0, <3>1, <3>2, <3>4, <4>1 DEF Present, Has, Absent
        <4> QED BY <1>0, <3>1, <4>1, <4>2 DEF Present
      <3> QED BY <1>0, <1>8, <3>1, <3>2, <3>3, <3>4 DEF Verify, Retry, Has, Present
    <2> QED BY <1>0, <1>8, <2>1 DEF Verify, Retry
  <1>9. CASE Resolve \/ Locals \/ Check \/ Sweep \/ Gates \/ Unindex \/ RepoAdd \/ ExpectedPackages
    BY <1>0, <1>9 DEF Resolve, Locals, Check, Sweep, Gates, Unindex, RepoAdd, ExpectedPackages
  <1>10. CASE Delete /\ ~ Over
    BY <1>0, <1>10 DEF Delete
  <1>11. CASE Rest \/ UNCHANGED vars
    <2>1. UNCHANGED vars
      BY <1>11 DEF Rest
    <2>2. UNCHANGED <<Selection(published), Selection(synced), Present>>
      BY <2>1, SameSelection DEF vars, Present
    <2> QED BY <1>0, <2>1, <2>2 DEF vars, Has
  <1> QED
    BY <1>1, <1>2, <1>3, <1>4, <1>5, <1>6, <1>7, <1>8, <1>9, <1>10, <1>11 DEF Next, Abort, Mkarchiso

-----------------------------------------------------------------------------
\* Every state of a build is one of the inductive invariant.
THEOREM InductiveInvariant == Spec => []IInv
  <1>1. IInv /\ [Next]_vars => IInv'
    BY TypeNext, VersionedNext, SignedNext, PlacedNext, SelectedNext, RequiredNext, TidyNext, RetriedNext DEF IInv
  <1> QED BY InitIInv, <1>1, PTL DEF Spec

\* The scripts' variables and the cache keep their types, for any packages,
\* lists, number of builds and history of the repositories; the download is
\* given up only after its retry (build-iso.sh's loop of two tries).
THEOREM TypeCorrect == Spec => []TypeOK
  <1>1. IInv => TypeOK
    BY DEF IInv
  <1> QED BY InductiveInvariant, <1>1, PTL

\* The index in an image is of the files in it, and an offline install finds
\* there all that its packages depend on: the check that build-iso.sh makes
\* before mkarchiso is of the mirror that mkarchiso copies.
THEOREM ImageInstallsCorrect == Spec => []ImageInstalls
  <1>1. IInv => ImageInstalls
    BY DEF IInv, Tidy, ImageInstalls
  <1> QED BY InductiveInvariant, <1>1, PTL

\* An image built from a checkout has the checkout's packages and no others of
\* their names: find_offline_package and the loop before it demand one file.
LEMMA LocalsInImage == IInv /\ pc = "image" => LocalWins
  <1>1. ASSUME IInv, pc = "image", local, NEW p \in LocalPackages
        PROVE  FilesOf(p) = {MadeFile(p)} /\ archives[MadeFile(p)] = made[p].bytes
    <2>0. TypeOK /\ Placed /\ Required /\ Tidy
      BY <1>1 DEF IInv
    <2>1. archives[MadeFile(p)] = made[p].bytes
      BY <1>1, <2>0 DEF Placed, Fetched, Resolved
    <2>2. MadeFile(p) \in required /\ MadeFile(p)[1] = p
      BY <1>1, <2>0 DEF Required, MadeFiles, MadeFile, Checked
    <2>3. MadeFile(p) \in Present
      BY <1>1, <2>2, Held DEF Checked
    <2>4. \A f \in Present : f[1] = p => f = MadeFile(p)
      BY <1>1, <2>0 DEF Required, Tidy, Pruned, Checked
    <2> QED BY <2>1, <2>2, <2>3, <2>4 DEF FilesOf
  <1> QED BY <1>1 DEF LocalWins, MadeFile

\* What an earlier or a killed build left in the cache gets into no image: the
\* pruner's list is the selection as it was downloaded and the packages of the
\* checkout, one file each; no other file has the name of one of those.
THEOREM ImageExactCorrect == Spec => []ImageExact
  <1>1. ASSUME IInv, pc = "image" PROVE ImageExact
    <2>0. TypeOK /\ Signed /\ Required /\ Tidy /\ pc \in Checked
      BY <1>1 DEF IInv, Checked
    <2>1. required = Selection(synced) \cup MadeFiles /\ Present \subseteq required
      BY <1>1, <2>0 DEF Required, Tidy, Pruned
    <2>2. Selection(synced) \subseteq Present
      BY <1>1, <2>0, <2>1, Held
    <2>3. \A f \in Present :
            \/ f \in Selection(synced) /\ archives[f] = synced[f[1]].bytes
            \/ local /\ f[1] \in LocalPackages /\ archives[f] = made[f[1]].bytes
      BY <1>1, <2>0, <2>1, Held DEF Has
    <2>4. ASSUME NEW f \in Present, NEW g \in Present, f[1] = g[1] PROVE f = g
      <3>1. \A h \in Present : h[1] \in LocalPackages /\ local => h = MadeFile(h[1])
        BY <2>0, <2>1 DEF Required
      <3>2. \A h \in Present : ~ (h[1] \in LocalPackages /\ local) => h = <<h[1], synced[h[1]].ver>>
        BY <2>0, <2>1, SelectionFiles, Held, <1>1 DEF TypeOK
      <3> QED BY <2>4, <3>1, <3>2
    <2>5. \A f \in Files : sigs[f] \in {Absent, archives[f]}
      BY <1>1, <2>0 DEF Tidy, Swept, Signed
    <2> QED BY <1>1, <2>2, <2>3, <2>4, <2>5, LocalsInImage DEF ImageExact
  <1>2. IInv => ImageExact
    BY <1>1 DEF ImageExact
  <1> QED BY InductiveInvariant, <1>2, PTL

\* Without a failed transfer or a publication, the second try of the download
\* succeeds, whatever the cache held: the first deleted all that was wrong.
THEOREM RetryEnoughCorrect == Spec => []RetryEnough
  <1>1. IInv => RetryEnough
    BY DEF IInv, Retried, RetryEnough
  <1> QED BY InductiveInvariant, <1>1, PTL

\* A step takes a file out of the mirror only to build it again, because its
\* checksum is wrong, or when the whole selection is there without it.
LEMMA KeptByStep ==
  ASSUME IInv, [Next]_vars, NEW f \in Present, f \notin Present'
  PROVE  \/ local /\ f[1] \in LocalPackages
         \/ pc = "verify" /\ archives[f] # synced[f[1]].bytes
         \/ /\ f \notin Selection(synced)
            /\ \A g \in Selection(synced) : archives'[g] = synced[g[1]].bytes
  <1>0. TypeOK /\ Required /\ f \in Files /\ archives[f] # Absent /\ archives'[f] = Absent
    BY DEF IInv, Present
  <1>1. CASE Clean
    <2>1. f[1] \in LocalPackages
      BY <1>0, <1>1 DEF Clean, TypeOK
    <2>2. local
      BY <1>0, <1>1 DEF Clean, Required
    <2> QED BY <2>1, <2>2
  <1>2. CASE Place
    <2>1. Torn # Absent /\ \A p \in LocalPackages : made[p].bytes # Absent
      BY <1>0, MirrorAssumption DEF TypeOK, Release, Package, Absent, Torn
    <2> QED BY <1>0, <1>2, <2>1 DEF Place, TypeOK
  <1>3. CASE Fetch
    <2>1. published[f[1]].bytes # Absent
      BY <1>0 DEF TypeOK, Files, Release, Package, Absent
    <2> QED BY <1>0, <1>3, <2>1 DEF Fetch
  <1>4. CASE Verify
    BY <1>0, <1>4 DEF Verify
  <1>5. CASE Delete
    <2>1. PICK h \in Present \ required : archives' = [archives EXCEPT ![h] = Absent]
      BY <1>0, <1>5 DEF Delete
    <2>2. h = f
      BY <1>0, <2>1 DEF TypeOK
    <2>3. pc \in Checked /\ required = Selection(synced) \cup MadeFiles
      BY <1>0, <1>5 DEF Delete, Checked, Required
    <2>4. \A g \in Selection(synced) : g # f /\ g \in Files /\ archives[g] = synced[g[1]].bytes
      BY <1>0, <2>1, <2>2, <2>3, SelectionFiles DEF IInv, Selected, Checked, Fetched, Resolved, Has, TypeOK
    <2>5. \A g \in Selection(synced) : archives'[g] = synced[g[1]].bytes
      BY <1>0, <2>1, <2>2, <2>4 DEF TypeOK
    <2> QED BY <2>1, <2>2, <2>3, <2>5
  <1> QED BY <1>0, <1>1, <1>2, <1>3, <1>4, <1>5, Setters

\* The cache is not emptied for a build that then fails: neither the download
\* nor the pruner takes out what this build still needs and has right.
THEOREM WarmCacheKeptCorrect == Spec => WarmCacheKept
  <1>1. IInv /\ [Next]_vars =>
          [\A f \in Present \ Present' :
             \/ local /\ f[1] \in LocalPackages
             \/ pc = "verify" /\ archives[f] # synced[f[1]].bytes
             \/ /\ f \notin Selection(synced)
                /\ \A g \in Selection(synced) : archives'[g] = synced[g[1]].bytes]_vars
    BY KeptByStep
  <1> QED BY InductiveInvariant, <1>1, PTL DEF Spec, WarmCacheKept
=============================================================================
