------------------------------ MODULE FileProofs ------------------------------
(***************************************************************************)
(* Proofs about the parts of the runtime that meet in files: the witness   *)
(* artifact, for every set of writers; the content store, for every set of *)
(* publishers and objects and every setup; the messages of launcher and    *)
(* worker, for any attempts and fields; and the command line that starts   *)
(* them, for any arguments.                                                *)
(***************************************************************************)
EXTENDS ContentStore, WitnessFile, WorkerProtocol, Cli, FiniteSetTheorems, TLAPS

-----------------------------------------------------------------------------
(* The witness artifact: what write_exclusive_and_hash promises survives     *)
(* other writers, errors, kills and losses of power.                         *)


\* Where a writer can be, and what its file can be.
Progress == {"start", "created", "written", "synced", "linked", "unlinked", "done", "failed", "dead"}
FileStates == {"absent", "partial", "written", "synced"}

LinkTypeOK ==
    /\ writer \in [Writers -> Progress]
    /\ inode \in [Writers -> FileStates]
    /\ path \in Writers \cup {NoFile}
    /\ disk \in Writers \cup {NoFile}
    /\ answered \subseteq Writers

\* A writer's progress says what is in its file.
FileFollowsWriter ==
    \A w \in Writers :
        /\ writer[w] = "start" => inode[w] = "absent"
        /\ writer[w] = "created" => inode[w] = "partial"
        /\ writer[w] = "written" => inode[w] = "written"
        /\ writer[w] \in {"synced", "linked", "unlinked", "done"} => inode[w] = "synced"

\* What the path names now, or will name after a loss of power, is synced.
NamedIsSynced ==
    /\ path # NoFile => inode[path] = "synced"
    /\ disk # NoFile => inode[disk] = "synced"

\* Between the link and the directory's sync the path is the writer's own: that
\* is why removing it after an error takes nobody else's file away.
LinkIsOwn == \A w \in Writers : writer[w] \in {"linked", "unlinked"} => path = w

\* A digest is returned once the name is on the disk, and its writer is through.
AnsweredIsDurable == \A w \in answered : path = w /\ disk = w /\ writer[w] = "done"

LinkInv ==
    /\ LinkTypeOK /\ FileFollowsWriter /\ NamedIsSynced /\ LinkIsOwn /\ AnsweredIsDurable
    /\ ReadersSeeWhole

-----------------------------------------------------------------------------
\* The strengthened invariant holds when nobody has written yet.
LEMMA LinkInvInit ==
    ASSUME LinkInit
    PROVE  LinkInv
  BY NoFileAssumption
     DEF LinkInit, LinkInv, LinkTypeOK, Progress, FileStates, FileFollowsWriter, NamedIsSynced,
         LinkIsOwn, AnsweredIsDurable, ReadersSeeWhole

\* Every step of a writer or a reader, every kill and every loss of power keeps it.
LEMMA LinkInvStep ==
    ASSUME LinkInv, [LinkNext]_linkVars
    PROVE  LinkInv'
  <1> USE NoFileAssumption
      DEF LinkInv, LinkTypeOK, Progress, FileStates, FileFollowsWriter, NamedIsSynced, LinkIsOwn,
          AnsweredIsDurable, ReadersSeeWhole, Goto, TempFileGuard
  <1>1. ASSUME NEW w \in Writers, create_unique_temp(w)
        PROVE  LinkInv'
    BY <1>1 DEF create_unique_temp
  <1>2. ASSUME NEW w \in Writers, write_all(w)
        PROVE  LinkInv'
    BY <1>2 DEF write_all
  <1>3. ASSUME NEW w \in Writers, sync_all(w)
        PROVE  LinkInv'
    BY <1>3 DEF sync_all
  <1>4. ASSUME NEW w \in Writers, fail_before_link(w)
        PROVE  LinkInv'
    BY <1>4 DEF fail_before_link
  <1>5. ASSUME NEW w \in Writers, hard_link(w)
        PROVE  LinkInv'
    BY <1>5 DEF hard_link
  <1>6. ASSUME NEW w \in Writers, remove_temp(w)
        PROVE  LinkInv'
    BY <1>6 DEF remove_temp
  <1>7. ASSUME NEW w \in Writers, sync_parent(w)
        PROVE  LinkInv'
    BY <1>7 DEF sync_parent
  <1>8. ASSUME NEW w \in Writers, killed(w)
        PROVE  LinkInv'
    BY <1>8 DEF killed
  <1>9. ASSUME read_bounded
        PROVE  LinkInv'
    BY <1>9 DEF read_bounded
  <1>10. ASSUME power_lost
         PROVE  LinkInv'
    <2>1. PICK lost \in SUBSET {w \in Writers : inode[w] = "written"} :
              inode' = [w \in Writers |-> IF w \in lost THEN "partial" ELSE inode[w]]
      BY <1>10 DEF power_lost
    <2>2. path' = disk' /\ disk' \in {path, disk} /\ UNCHANGED <<answered, read>>
      BY <1>10 DEF power_lost
    <2>3. writer' = [w \in Writers |-> IF writer[w] \in {"start", "done", "failed"}
                                       THEN writer[w] ELSE "dead"]
      BY <1>10 DEF power_lost
    <2>4. \A w \in Writers : inode[w] \in {"absent", "partial", "synced"} => inode'[w] = inode[w]
      BY <2>1
    <2>5. LinkTypeOK' /\ FileFollowsWriter' /\ LinkIsOwn'
      BY <2>1, <2>2, <2>3, <2>4
    <2>6. NamedIsSynced'
      BY <2>2, <2>4
    <2>7. AnsweredIsDurable' /\ ReadersSeeWhole'
      BY <2>2, <2>3
    <2> QED
      BY <2>5, <2>6, <2>7
  <1>11. CASE UNCHANGED linkVars
    BY <1>11 DEF linkVars
  <1> QED
    BY <1>1, <1>2, <1>3, <1>4, <1>5, <1>6, <1>7, <1>8, <1>9, <1>10, <1>11 DEF LinkNext

\* The strengthened invariant holds in every behaviour.
THEOREM LinkInvariant == LinkSpec => []LinkInv
  BY LinkInvInit, LinkInvStep, PTL DEF LinkSpec

\* write_exclusive_and_hash: a call that has returned the digest leaves its file
\* at the path for good, the path never names a file that is not wholly on the
\* disk, and no reader sees a part of one, for any number of writers.
THEOREM ArtifactsStayWhole == LinkSpec => []ArtifactsWhole
  <1>1. LinkInv => ArtifactsWhole
    BY DEF LinkInv, LinkTypeOK, FileFollowsWriter, NamedIsSynced, AnsweredIsDurable, ArtifactsWhole,
           ReturnedStays, SurvivesWhole
  <1> QED
    BY <1>1, LinkInvariant, PTL

-----------------------------------------------------------------------------
(* The content store: what it keeps whatever is killed, written late or      *)
(* damaged, and what it keeps of its promise (module AtomicStore) when the   *)
(* power is lost.                                                            *)


\* A publisher that has read the store's identity and is not through.
Opened == {"open", "staged", "written", "validated", "checked", "copying", "copied", "existing",
           "renamed", "verified", "synced", "published"}

\* Where a publisher can be whose copy has got its name.
Named == {"renamed", "verified", "synced", "published"} \cup Terminal

\* Only a publisher's copy gets a name in objects/, under its own digest, and
\* only by its rename; a name on the disk is one that is in the directory.
NamesAreCopies ==
    \A d \in Objects :
        /\ durable.objects[d] \in {None, objects[d]}
        /\ objects[d] # None =>
              \E p \in Publishers : objects[d] = Copy(p) /\ Want[p] = d /\ pc[p] \in Named

\* A copy is synced as it is written: no worker has a descriptor of it.
CopiesSynced ==
    \A p \in Publishers :
        /\ durable.content[Copy(p)] = content[Copy(p)]
        /\ pc[p] = "copied" => content[Copy(p)] = Want[p]

\* The name a publisher has made is its own until it is through.
OwnName ==
    \A p \in Publishers : pc[p] \in {"renamed", "verified", "synced"} => objects[Want[p]] = Copy(p)

\* What is not a stage file is on the disk, in staging/ or in quarantine/.
ForeignSynced == Foreign \subseteq durable.staging \cup quarantine

\* The marker is written once, by the publisher that created it.
MarkerOwned ==
    /\ \A p \in Publishers : pc[p] = "marking" => marker = "empty"
    /\ \A p \in Publishers : pc[p] = "marked" => marker = p
    /\ \A p, q \in Publishers :
          pc[p] \in {"marking", "marked"} /\ pc[q] \in {"marking", "marked"} => p = q

\* An open store has an identity, a published object an inode.
HandlesHeld ==
    \A p \in Publishers :
        /\ pc[p] \in Opened => identity[p] # "absent"
        /\ pc[p] = "published" => pinned[p] # None

StoreInv ==
    /\ setup \in StoreSetups
    /\ StoreTypeOK /\ ObjectsIntact /\ ForeignKept
    /\ NamesAreCopies /\ CopiesSynced /\ OwnName /\ ForeignSynced /\ MarkerOwned /\ HandlesHeld

-----------------------------------------------------------------------------
(* The operators the steps are built from *)

\* The inodes of different publishers, and the two of one, are different; none
\* of them is None.
LEMMA InodeFacts ==
    /\ None \notin Inodes
    /\ \A p \in Publishers : Stage(p) \in Inodes /\ Copy(p) \in Inodes
    /\ \A p, q \in Publishers : Stage(p) # Copy(q)
    /\ \A p, q \in Publishers : Stage(p) = Stage(q) => p = q
    /\ \A p, q \in Publishers : Copy(p) = Copy(q) => p = q
    /\ \A p \in Publishers : Copy(p)[1] = p /\ Stage(p)[1] = p
  BY DEF None, Inodes, Stage, Copy

\* What a member of StoreSetups is like.
LEMMA SetupFacts ==
    ASSUME setup \in StoreSetups
    PROVE  /\ Want \in [Publishers -> Objects]
           /\ Fresh \in BOOLEAN /\ MaxPowerLosses \in Nat
           /\ Foreign \cap Inodes = {}
  BY SetupAssumption DEF Want, Fresh, MaxPowerLosses, Foreign, Inodes

\* The setup never changes.
LEMMA SetupStays ==
    ASSUME UNCHANGED setup
    PROVE  /\ Want' = Want /\ Foreign' = Foreign /\ Fresh' = Fresh
           /\ MaxPowerLosses' = MaxPowerLosses
  BY DEF Want, Fresh, MaxPowerLosses, Foreign

\* The parts of the disk's state have their types.
LEMMA DurableFacts ==
    ASSUME StoreTypeOK
    PROVE  /\ durable.content \in [Inodes -> Objects \cup {"torn"}]
           /\ durable.staging \subseteq Inodes \cup Foreign
           /\ durable.objects \in [Objects -> Inodes \cup {None}]
           /\ durable.marker \in Markers
           /\ durable = [content |-> durable.content, staging |-> durable.staging,
                         objects |-> durable.objects, marker |-> durable.marker]
  BY DEF StoreTypeOK

\* The invariant holds in a store that nobody has opened yet.
LEMMA StoreInvInit ==
    ASSUME StoreInit
    PROVE  StoreInv
  <1> USE SetupAssumption, NameAssumption, SetupFacts, InodeFacts DEF StoreInit
  <1>1. StoreTypeOK
    BY DEF StoreTypeOK, Phases, Markers
  <1>2. durable.objects = objects /\ durable.content = content /\ durable.staging = staging
    OBVIOUS
  <1>3. NamesAreCopies /\ CopiesSynced /\ OwnName /\ MarkerOwned /\ HandlesHeld
    BY <1>2 DEF NamesAreCopies, CopiesSynced, OwnName, MarkerOwned, HandlesHeld, Opened
  <1> QED
    BY <1>1, <1>2, <1>3 DEF StoreInv, ObjectsIntact, ForeignKept, ForeignSynced

-----------------------------------------------------------------------------
(* What a step keeps that leaves a part of the state alone *)

\* What the names in objects/ and the bytes behind them say of each other.
FilesInv == ObjectsIntact /\ NamesAreCopies /\ CopiesSynced /\ OwnName

\* A step that gives no name and writes to no copy, and takes no
\* publisher past its copy or its rename.
LEMMA FilesFrame ==
    ASSUME FilesInv, UNCHANGED <<setup, objects, decayed>>,
           \A q \in Publishers :
              /\ content'[Copy(q)] = content[Copy(q)]
              /\ durable'.content[Copy(q)] = durable.content[Copy(q)],
           \A d \in Objects : durable'.objects[d] \in {durable.objects[d], objects[d]},
           \A q \in Publishers :
              pc'[q] # pc[q] =>
                 /\ pc[q] \in Named => pc'[q] \in Named
                 /\ pc'[q] \in {"renamed", "verified", "synced"} =>
                       pc[q] \in {"renamed", "verified", "synced"}
                 /\ pc'[q] # "copied"
    PROVE  FilesInv'
  <1> USE SetupStays
  <1>1. ObjectsIntact'
    BY DEF FilesInv, ObjectsIntact, NamesAreCopies
  <1>2. NamesAreCopies'
    BY DEF FilesInv, NamesAreCopies
  <1>3. CopiesSynced' /\ OwnName'
    BY DEF FilesInv, CopiesSynced, OwnName
  <1> QED
    BY <1>1, <1>2, <1>3 DEF FilesInv

\* A step that leaves the marker alone.
LEMMA MarkerFrame ==
    ASSUME MarkerOwned, marker' = marker,
           \A q \in Publishers : pc'[q] = pc[q] \/ pc'[q] \notin {"marking", "marked"}
    PROVE  MarkerOwned'
  BY DEF MarkerOwned

\* A step of an open publisher that pins nothing.
LEMMA HandlesFrame ==
    ASSUME HandlesHeld, UNCHANGED <<identity, pinned>>,
           \A q \in Publishers :
              pc'[q] # pc[q] => (pc[q] \in Opened \/ pc'[q] \notin Opened) /\ pc'[q] # "published"
    PROVE  HandlesHeld'
  BY DEF HandlesHeld

\* A step that removes no entry of staging/ but the stage files of publishers.
LEMMA ForeignFrame ==
    ASSUME setup \in StoreSetups, UNCHANGED <<setup, quarantine>>, ForeignKept, ForeignSynced,
           staging \ Inodes \subseteq staging',
           durable'.staging \in {durable.staging, staging'}
    PROVE  ForeignKept' /\ ForeignSynced'
  BY SetupFacts, SetupStays DEF ForeignKept, ForeignSynced

-----------------------------------------------------------------------------
(* The invariant, step by step *)

\* Opening the store: the marker is created, written, synced or read.
LEMMA OpeningKeepsStoreInv ==
    ASSUME StoreInv, UNCHANGED setup, NEW p \in Publishers,
           create_marker(p) \/ write_marker(p) \/ sync_marker(p) \/ read_marker(p)
    PROVE  StoreInv'
  <1> USE NameAssumption, SetupFacts, SetupStays, InodeFacts, DurableFacts
      DEF StoreInv, Goes
  <1>1. FilesInv
    BY DEF FilesInv
  <1>2. StoreTypeOK => pc \in [Publishers -> Phases]
    BY DEF StoreTypeOK
  <1>3. CASE create_marker(p)
    <2>1. StoreTypeOK'
      BY <1>3 DEF create_marker, StoreTypeOK, Phases, Markers
    <2>2. MarkerOwned'
      BY <1>2, <1>3 DEF create_marker, MarkerOwned
    <2>3. FilesInv'
      BY <1>1, <1>2, <1>3, FilesFrame DEF create_marker, Named, Terminal
    <2>4. HandlesHeld'
      BY <1>2, <1>3 DEF create_marker, HandlesHeld, Opened
    <2> QED
      BY <1>3, <2>1, <2>2, <2>3, <2>4, ForeignFrame DEF create_marker, FilesInv
  <1>4. CASE write_marker(p)
    <2>1. StoreTypeOK'
      BY <1>4 DEF write_marker, StoreTypeOK, Phases, Markers
    <2>2. MarkerOwned'
      BY <1>2, <1>4 DEF write_marker, MarkerOwned
    <2>3. FilesInv'
      BY <1>1, <1>2, <1>4, FilesFrame DEF write_marker, Named, Terminal
    <2>4. HandlesHeld'
      BY <1>2, <1>4 DEF write_marker, HandlesHeld, Opened
    <2> QED
      BY <1>4, <2>1, <2>2, <2>3, <2>4, ForeignFrame DEF write_marker, FilesInv
  <1>5. CASE sync_marker(p)
    <2>1. marker = p
      BY <1>5 DEF sync_marker, MarkerOwned
    <2>2. StoreTypeOK'
      BY <1>5, <2>1 DEF sync_marker, StoreTypeOK, Phases, Markers
    <2>3. /\ durable'.objects = durable.objects /\ durable'.content = durable.content
          /\ durable'.staging = durable.staging
      BY <1>5 DEF sync_marker
    <2>4. MarkerOwned'
      BY <1>2, <1>5, MarkerFrame DEF sync_marker
    <2>5. FilesInv'
      BY <1>1, <1>2, <1>5, <2>3, FilesFrame DEF sync_marker, Named, Terminal
    <2>6. HandlesHeld'
      BY <1>2, <1>5, <2>1 DEF sync_marker, HandlesHeld, Opened, StoreTypeOK
    <2> QED
      BY <1>5, <2>2, <2>3, <2>4, <2>5, <2>6, ForeignFrame DEF sync_marker, FilesInv
  <1>6. CASE read_marker(p)
    <2>1. StoreTypeOK'
      BY <1>6 DEF read_marker, StoreTypeOK, Phases, Terminal, Markers
    <2>2. MarkerOwned'
      BY <1>2, <1>6, MarkerFrame DEF read_marker
    <2>3. FilesInv'
      BY <1>1, <1>2, <1>6, FilesFrame DEF read_marker, Named, Terminal
    <2>4. HandlesHeld'
      BY <1>2, <1>6 DEF read_marker, HandlesHeld, Opened, StoreTypeOK
    <2> QED
      BY <1>6, <2>1, <2>2, <2>3, <2>4, ForeignFrame DEF read_marker, FilesInv
  <1> QED
    BY <1>3, <1>4, <1>5, <1>6

\* Staging, writing, validating, and copying for publication.
LEMMA StagingKeepsStoreInv ==
    ASSUME StoreInv, UNCHANGED setup, NEW p \in Publishers,
           \/ stage(p) \/ write(p) \/ validate(p) \/ check_validated(p) \/ open_copy(p)
           \/ copy_for_publication(p)
    PROVE  StoreInv'
  <1> USE NameAssumption, SetupFacts, SetupStays, InodeFacts, DurableFacts
      DEF StoreInv, Goes
  <1>1. FilesInv
    BY DEF FilesInv
  <1>2. StoreTypeOK => pc \in [Publishers -> Phases] /\ content \in [Inodes -> Objects \cup {"torn"}]
    BY DEF StoreTypeOK
  <1>3. CASE stage(p)
    <2>1. StoreTypeOK'
      BY <1>3 DEF stage, StoreTypeOK, Phases
    <2>2. MarkerOwned' /\ HandlesHeld'
      BY <1>2, <1>3, MarkerFrame, HandlesFrame DEF stage, Opened
    <2>3. FilesInv'
      BY <1>1, <1>2, <1>3, FilesFrame DEF stage, Named, Terminal
    <2> QED
      BY <1>3, <2>1, <2>2, <2>3, ForeignFrame DEF stage, FilesInv
  <1>4. CASE write(p)
    <2>1. StoreTypeOK'
      BY <1>4 DEF write, StoreTypeOK, Phases
    <2>2. MarkerOwned' /\ HandlesHeld'
      BY <1>2, <1>4, MarkerFrame, HandlesFrame DEF write, Opened
    <2>3. FilesInv'
      BY <1>1, <1>2, <1>4, FilesFrame DEF write, Named, Terminal
    <2> QED
      BY <1>4, <2>1, <2>2, <2>3, ForeignFrame DEF write, FilesInv
  <1>5. CASE validate(p)
    <2>1. CASE pc'[p] = "validated"
      <3>1. /\ pc' = [pc EXCEPT ![p] = "validated"] /\ pc[p] = "written"
            /\ durable' = [durable EXCEPT !.content[Stage(p)] = content[Stage(p)]]
            /\ UNCHANGED <<identity, pinned, content, staging, objects, quarantine, marker,
                           rows, decayed, losses>>
        BY <1>2, <1>5, <2>1 DEF validate
      <3>2. /\ durable'.objects = durable.objects /\ durable'.staging = durable.staging
            /\ durable'.marker = durable.marker
            /\ durable'.content = [durable.content EXCEPT ![Stage(p)] = content[Stage(p)]]
            /\ durable' = [content |-> durable'.content, staging |-> durable'.staging,
                           objects |-> durable'.objects, marker |-> durable'.marker]
        BY <3>1
      <3>3. StoreTypeOK'
        BY <3>1, <3>2 DEF StoreTypeOK, Phases
      <3>4. MarkerOwned' /\ HandlesHeld'
        BY <1>2, <3>1, MarkerFrame, HandlesFrame DEF Opened
      <3>5. FilesInv'
        BY <1>1, <1>2, <3>1, <3>2, FilesFrame DEF Named, Terminal
      <3> QED
        BY <3>1, <3>2, <3>3, <3>4, <3>5, ForeignFrame DEF FilesInv
    <2>2. CASE pc'[p] # "validated"
      <3>1. /\ pc' = [pc EXCEPT ![p] = "failed"] /\ pc[p] = "written"
            /\ staging' = staging \ {Stage(p)} /\ durable' = SyncStaging
            /\ UNCHANGED <<identity, pinned, content, objects, quarantine, marker,
                           rows, decayed, losses>>
        BY <1>2, <1>5, <2>2 DEF validate
      <3>2. /\ durable'.objects = durable.objects /\ durable'.staging = staging'
            /\ durable'.content = durable.content
        BY <3>1 DEF SyncStaging
      <3>3. StoreTypeOK'
        BY <3>1 DEF StoreTypeOK, Phases, Terminal, SyncStaging
      <3>4. MarkerOwned' /\ HandlesHeld'
        BY <1>2, <3>1, MarkerFrame, HandlesFrame DEF Opened
      <3>5. FilesInv'
        BY <1>1, <1>2, <3>1, <3>2, FilesFrame DEF Named, Terminal
      <3> QED
        BY <3>1, <3>2, <3>3, <3>4, <3>5, ForeignFrame DEF FilesInv
    <2> QED
      BY <2>1, <2>2
  <1>6. CASE check_validated(p)
    <2>1. StoreTypeOK'
      BY <1>6 DEF check_validated, fileVars, StoreTypeOK, Phases, Terminal
    <2>2. MarkerOwned' /\ HandlesHeld'
      BY <1>2, <1>6, MarkerFrame, HandlesFrame DEF check_validated, fileVars, Opened
    <2>3. FilesInv'
      BY <1>1, <1>2, <1>6, FilesFrame DEF check_validated, fileVars, Named, Terminal
    <2> QED
      BY <1>6, <2>1, <2>2, <2>3, ForeignFrame DEF check_validated, fileVars, FilesInv
  <1>7. CASE open_copy(p)
    <2>1. StoreTypeOK'
      BY <1>7 DEF open_copy, StoreTypeOK, Phases
    <2>2. MarkerOwned' /\ HandlesHeld'
      BY <1>2, <1>7, MarkerFrame, HandlesFrame DEF open_copy, Opened
    <2>3. FilesInv'
      BY <1>1, <1>2, <1>7, FilesFrame DEF open_copy, Named, Terminal
    <2> QED
      BY <1>7, <2>1, <2>2, <2>3, ForeignFrame DEF open_copy, FilesInv
  <1>8. CASE copy_for_publication(p)
    <2>1. CASE pc'[p] = "copied"
      <3>1. /\ pc' = [pc EXCEPT ![p] = "copied"] /\ pc[p] = "copying"
            /\ content' = [content EXCEPT ![Copy(p)] = Want[p]]
            /\ durable' = [durable EXCEPT !.content[Copy(p)] = Want[p]]
            /\ UNCHANGED <<identity, pinned, staging, objects, quarantine, marker,
                           rows, decayed, losses>>
        BY <1>2, <1>8, <2>1 DEF copy_for_publication
      <3>2. /\ durable'.objects = durable.objects /\ durable'.staging = durable.staging
            /\ durable'.marker = durable.marker
            /\ durable'.content = [durable.content EXCEPT ![Copy(p)] = Want[p]]
            /\ durable' = [content |-> durable'.content, staging |-> durable'.staging,
                           objects |-> durable'.objects, marker |-> durable'.marker]
        BY <3>1
      <3>3. StoreTypeOK'
        BY <3>1, <3>2 DEF StoreTypeOK, Phases
      <3>4. MarkerOwned' /\ HandlesHeld'
        BY <1>2, <3>1, MarkerFrame, HandlesFrame DEF Opened
      \* The copy has no name yet.
      <3>5. \A d \in Objects : objects[d] # Copy(p)
        BY <3>1 DEF NamesAreCopies, Named, Terminal
      <3>6. ObjectsIntact'
        BY <1>2, <3>1, <3>5 DEF ObjectsIntact, StoreTypeOK
      <3>7. NamesAreCopies' /\ OwnName'
        <4>1. \A q \in Publishers : pc[q] \in Named => pc'[q] \in Named
          BY <1>2, <3>1 DEF Named, Terminal
        <4>2. NamesAreCopies'
          BY <3>1, <3>2, <4>1 DEF NamesAreCopies
        <4>3. OwnName'
          BY <1>2, <3>1 DEF OwnName
        <4> QED
          BY <4>2, <4>3
      <3>8. CopiesSynced'
        BY <1>2, <3>1, <3>2 DEF CopiesSynced
      <3> QED
        BY <3>1, <3>2, <3>3, <3>4, <3>6, <3>7, <3>8, ForeignFrame
    <2>2. CASE pc'[p] # "copied"
      <3>1. /\ pc' = [pc EXCEPT ![p] = "failed"] /\ pc[p] = "copying"
            /\ staging' = staging \ {Copy(p)}
            /\ UNCHANGED <<identity, pinned, content, objects, quarantine, marker, durable,
                           rows, decayed, losses>>
        BY <1>2, <1>8, <2>2 DEF copy_for_publication
      <3>2. StoreTypeOK'
        BY <3>1 DEF StoreTypeOK, Phases, Terminal
      <3>3. MarkerOwned' /\ HandlesHeld'
        BY <1>2, <3>1, MarkerFrame, HandlesFrame DEF Opened
      <3>4. FilesInv'
        BY <1>1, <1>2, <3>1, FilesFrame DEF Named, Terminal
      <3> QED
        BY <3>1, <3>2, <3>3, <3>4, ForeignFrame DEF FilesInv
    <2> QED
      BY <2>1, <2>2
  <1> QED
    BY <1>3, <1>4, <1>5, <1>6, <1>7, <1>8

\* Publishing: the rename, the object that is there already, the reread, the
\* sync of objects/, the end of the staged file, and the row.
LEMMA PublishingKeepsStoreInv ==
    ASSUME StoreInv, UNCHANGED setup, NEW p \in Publishers,
           \/ rename_copy(p) \/ accept_existing(p) \/ verify_final(p) \/ sync_objects(p)
           \/ unlink_stage(p) \/ commit(p)
    PROVE  StoreInv'
  <1> USE NameAssumption, SetupFacts, SetupStays, InodeFacts, DurableFacts
      DEF StoreInv, Goes
  <1>1. FilesInv
    BY DEF FilesInv
  <1>2. StoreTypeOK => pc \in [Publishers -> Phases] /\ objects \in [Objects -> Inodes \cup {None}]
    BY DEF StoreTypeOK
  <1>3. CASE rename_copy(p)
    <2> USE <1>3 DEF rename_copy, rename
    <2>1. StoreTypeOK'
      BY DEF StoreTypeOK, Phases, Terminal
    <2>2. MarkerOwned' /\ HandlesHeld'
      BY <1>2, MarkerFrame, HandlesFrame DEF Opened
    <2>3. ForeignKept' /\ ForeignSynced'
      BY ForeignFrame
    <2>4. CASE objects' = objects
      <3>1. FilesInv'
        BY <1>1, <1>2, <2>4, FilesFrame DEF Named, Terminal
      <3> QED
        BY <2>1, <2>2, <2>3, <3>1 DEF FilesInv
    <2>5. CASE objects' # objects
      <3>1. /\ objects[Want[p]] = None /\ objects' = [objects EXCEPT ![Want[p]] = Copy(p)]
            /\ pc[p] = "copied" /\ pc' = [pc EXCEPT ![p] = "renamed"]
            /\ UNCHANGED <<content, durable, decayed>>
        BY <2>5
      <3>2. /\ objects'[Want[p]] = Copy(p) /\ content[Copy(p)] = Want[p]
            /\ \A d \in Objects : d # Want[p] => objects'[d] = objects[d]
        BY <1>2, <3>1 DEF CopiesSynced
      <3>3. \A q \in Publishers : q # p => pc'[q] = pc[q]
        BY <1>2, <3>1
      <3>4. pc'[p] = "renamed" /\ Want[p] \in Objects
        BY <1>2, <3>1
      <3>5. ObjectsIntact'
        BY <3>1, <3>2 DEF ObjectsIntact
      <3>6. NamesAreCopies'
        <4> SUFFICES ASSUME NEW d \in Objects
                     PROVE  /\ durable.objects[d] \in {None, objects'[d]}
                            /\ objects'[d] # None =>
                                 \E q \in Publishers :
                                    objects'[d] = Copy(q) /\ Want[q] = d /\ pc'[q] \in Named
          BY <3>1 DEF NamesAreCopies
        <4>1. CASE d = Want[p]
          BY <3>1, <3>2, <3>4, <4>1 DEF NamesAreCopies, Named
        <4>2. CASE d # Want[p]
          BY <3>1, <3>2, <3>3, <3>4, <4>2 DEF NamesAreCopies, Named
        <4> QED
          BY <4>1, <4>2
      <3>7. CopiesSynced'
        BY <3>1, <3>3, <3>4 DEF CopiesSynced
      <3>8. OwnName'
        BY <1>2, <3>1, <3>2, <3>3 DEF OwnName
      <3> QED
        BY <2>1, <2>2, <2>3, <3>5, <3>6, <3>7, <3>8
    <2> QED
      BY <2>4, <2>5
  <1>4. CASE accept_existing(p)
    <2> USE <1>4 DEF accept_existing, fileVars, SyncStaging
    <2>1. StoreTypeOK'
      <3>1. StoreTypeOK => pinned' \in [Publishers -> Inodes \cup {None}]
        BY <1>2 DEF StoreTypeOK
      <3>2. pc' \in [Publishers -> Phases]
        BY <1>2 DEF Phases, Terminal
      <3>3. StoreTypeOK => staging' \subseteq Inodes \cup Foreign
        BY DEF StoreTypeOK
      <3> QED
        BY <3>1, <3>2, <3>3 DEF StoreTypeOK
    <2>2. MarkerOwned'
      BY <1>2, MarkerFrame
    <2>3. HandlesHeld'
      BY <1>2 DEF HandlesHeld, Opened, StoreTypeOK
    <2>4. /\ durable'.objects = durable.objects /\ durable'.content = durable.content
          /\ durable'.staging \in {durable.staging, staging'}
      OBVIOUS
    <2>5. FilesInv'
      BY <1>1, <1>2, <2>4, FilesFrame DEF Named, Terminal
    <2>6. ForeignKept' /\ ForeignSynced'
      BY <2>4, ForeignFrame
    <2> QED
      BY <2>1, <2>2, <2>3, <2>5, <2>6 DEF FilesInv
  <1>5. CASE verify_final(p)
    <2> USE <1>5 DEF verify_final, fileVars, SyncObjects
    <2>1. StoreTypeOK'
      <3>1. pc' \in [Publishers -> Phases]
        BY <1>2 DEF Phases, Terminal
      <3>2. objects' \in [Objects -> Inodes \cup {None}]
        BY <1>2
      <3> QED
        BY <3>1, <3>2 DEF StoreTypeOK
    <2>2. MarkerOwned' /\ HandlesHeld'
      BY <1>2, MarkerFrame, HandlesFrame DEF Opened
    <2>3. durable'.content = durable.content /\ durable'.staging = durable.staging
      OBVIOUS
    <2>4. ForeignKept' /\ ForeignSynced'
      BY <2>3, ForeignFrame
    <2>5. CASE pc'[p] = "verified"
      <3>1. FilesInv'
        BY <1>1, <1>2, <2>5, FilesFrame DEF Named, Terminal
      <3> QED
        BY <2>1, <2>2, <2>4, <3>1 DEF FilesInv
    <2>6. CASE pc'[p] # "verified"
      <3>1. /\ objects' = [objects EXCEPT ![Want[p]] = None]
            /\ pc[p] = "renamed" /\ pc' = [pc EXCEPT ![p] = "failed"]
            /\ durable'.objects = objects'
            /\ UNCHANGED <<content, decayed>>
        BY <1>2, <2>6
      <3>2. \A d \in Objects : objects'[d] = IF d = Want[p] THEN None ELSE objects[d]
        BY <1>2, <3>1
      <3>3. \A q \in Publishers : pc'[q] = IF q = p THEN "failed" ELSE pc[q]
        BY <1>2, <3>1
      <3>4. objects[Want[p]] = Copy(p)
        BY <3>1 DEF OwnName
      <3>5. ObjectsIntact'
        BY <3>1, <3>2 DEF ObjectsIntact
      <3>6. NamesAreCopies'
        BY <3>1, <3>2, <3>3 DEF NamesAreCopies, Named, Terminal
      <3>7. CopiesSynced'
        BY <2>3, <3>1, <3>3 DEF CopiesSynced
      <3>8. OwnName'
        BY <3>2, <3>3, <3>4 DEF OwnName
      <3> QED
        BY <2>1, <2>2, <2>4, <3>5, <3>6, <3>7, <3>8
    <2> QED
      BY <2>5, <2>6
  <1>6. CASE sync_objects(p)
    <2> USE <1>6 DEF sync_objects, SyncObjects
    <2>1. StoreTypeOK'
      BY DEF StoreTypeOK, Phases, Terminal
    <2>2. MarkerOwned' /\ HandlesHeld'
      BY <1>2, MarkerFrame, HandlesFrame DEF Opened
    <2>3. /\ durable'.objects = objects /\ durable'.content = durable.content
          /\ durable'.staging = durable.staging
      OBVIOUS
    <2>4. FilesInv'
      BY <1>1, <1>2, <2>3, FilesFrame DEF Named, Terminal
    <2>5. ForeignKept' /\ ForeignSynced'
      BY <2>3, ForeignFrame
    <2> QED
      BY <2>1, <2>2, <2>4, <2>5 DEF FilesInv
  <1>7. CASE unlink_stage(p)
    <2> USE <1>7 DEF unlink_stage, fileVars, SyncStaging
    <2>1. StoreTypeOK'
      BY DEF StoreTypeOK, Phases, Terminal
    <2>2. MarkerOwned'
      BY <1>2, MarkerFrame
    <2>3. HandlesHeld'
      BY <1>2 DEF HandlesHeld, Opened, StoreTypeOK
    <2>4. /\ durable'.objects = durable.objects /\ durable'.content = durable.content
          /\ durable'.staging \in {durable.staging, staging'}
      OBVIOUS
    <2>5. FilesInv'
      BY <1>1, <1>2, <2>4, FilesFrame DEF Named, Terminal
    <2>6. ForeignKept' /\ ForeignSynced'
      BY <2>4, ForeignFrame
    <2> QED
      BY <2>1, <2>2, <2>3, <2>5, <2>6 DEF FilesInv
  <1>8. CASE commit(p)
    <2> USE <1>8 DEF commit, fileVars
    <2>1. identity[p] \in Publishers \cup {"old"}
      BY DEF StoreTypeOK, HandlesHeld, Opened, Markers
    <2>2. StoreTypeOK'
      BY <2>1 DEF StoreTypeOK, Phases, Terminal, Rows
    <2>3. MarkerOwned' /\ HandlesHeld'
      BY <1>2, MarkerFrame, HandlesFrame DEF Opened
    <2>4. FilesInv'
      BY <1>1, <1>2, FilesFrame DEF Named, Terminal
    <2>5. ForeignKept' /\ ForeignSynced'
      BY ForeignFrame
    <2> QED
      BY <2>2, <2>3, <2>4, <2>5 DEF FilesInv
  <1> QED
    BY <1>3, <1>4, <1>5, <1>6, <1>7, <1>8

\* recover_stale, a worker's late write, a kill, damage by the medium, a loss
\* of power.
LEMMA WorldKeepsStoreInv ==
    ASSUME StoreInv, UNCHANGED setup,
           \/ \E p \in Publishers : late_write(p) \/ kill(p)
           \/ \E n \in Inodes \cup Foreign : recover_stale(n)
           \/ \E d \in Objects : decay(d)
           \/ power_loss
    PROVE  StoreInv'
  <1> USE NameAssumption, SetupFacts, SetupStays, InodeFacts, DurableFacts
      DEF StoreInv
  <1>1. FilesInv
    BY DEF FilesInv
  <1>2. StoreTypeOK => /\ pc \in [Publishers -> Phases]
                       /\ content \in [Inodes -> Objects \cup {"torn"}]
                       /\ objects \in [Objects -> Inodes \cup {None}]
    BY DEF StoreTypeOK
  <1>3. ASSUME NEW p \in Publishers, late_write(p)
        PROVE  StoreInv'
    <2> USE <1>3 DEF late_write, procVars
    <2>1. StoreTypeOK'
      BY DEF StoreTypeOK
    <2>2. MarkerOwned' /\ HandlesHeld'
      BY MarkerFrame, HandlesFrame
    <2>3. FilesInv'
      BY <1>1, <1>2, FilesFrame
    <2> QED
      BY <2>1, <2>2, <2>3, ForeignFrame DEF FilesInv
  <1>4. ASSUME NEW p \in Publishers, kill(p)
        PROVE  StoreInv'
    <2> USE <1>4 DEF kill, fileVars
    <2>1. StoreTypeOK'
      BY DEF StoreTypeOK, Phases, Terminal
    <2>2. MarkerOwned' /\ HandlesHeld'
      BY <1>2, MarkerFrame, HandlesFrame DEF Opened
    <2>3. FilesInv'
      BY <1>1, <1>2, FilesFrame DEF Named, Terminal
    <2> QED
      BY <2>1, <2>2, <2>3, ForeignFrame DEF FilesInv
  <1>5. ASSUME NEW n \in Inodes \cup Foreign, recover_stale(n)
        PROVE  StoreInv'
    <2> USE <1>5 DEF recover_stale, procVars, SyncStaging
    <2>1. /\ durable'.objects = durable.objects /\ durable'.content = durable.content
          /\ durable'.staging = staging'
      OBVIOUS
    <2>2. StoreTypeOK'
      BY DEF StoreTypeOK
    <2>3. MarkerOwned' /\ HandlesHeld'
      BY MarkerFrame, HandlesFrame
    <2>4. FilesInv'
      BY <1>1, <2>1, FilesFrame
    <2>5. ForeignKept' /\ ForeignSynced'
      BY <2>1 DEF ForeignKept, ForeignSynced
    <2> QED
      BY <2>2, <2>3, <2>4, <2>5 DEF FilesInv
  <1>6. ASSUME NEW d \in Objects, decay(d)
        PROVE  StoreInv'
    <2> USE <1>6 DEF decay, procVars
    <2>1. PICK p \in Publishers : objects[d] = Copy(p) /\ Want[p] = d /\ pc[p] \in Named
      BY DEF NamesAreCopies
    <2>2. /\ content' = [content EXCEPT ![Copy(p)] = "torn"]
          /\ durable'.content = [durable.content EXCEPT ![Copy(p)] = "torn"]
          /\ durable'.objects = durable.objects /\ durable'.staging = durable.staging
          /\ durable'.marker = durable.marker
          /\ durable' = [content |-> durable'.content, staging |-> durable'.staging,
                         objects |-> durable'.objects, marker |-> durable'.marker]
          /\ decayed' = decayed \cup {Copy(p)} /\ objects' = objects /\ pc' = pc
      BY <2>1
    <2>3. StoreTypeOK'
      <3>1. /\ content' \in [Inodes -> Objects \cup {"torn"}]
            /\ durable'.content \in [Inodes -> Objects \cup {"torn"}]
            /\ decayed' \subseteq Inodes
        BY <1>2, <2>2 DEF StoreTypeOK
      <3>2. durable' \in [content : [Inodes -> Objects \cup {"torn"}],
                          staging : SUBSET (Inodes \cup Foreign),
                          objects : [Objects -> Inodes \cup {None}],
                          marker : Markers]
        BY <2>2, <3>1
      <3>3. UNCHANGED <<pc, identity, pinned, staging, objects, quarantine, marker, rows, losses>>
        OBVIOUS
      <3> QED
        BY ONLY StoreTypeOK, SetupStays, UNCHANGED setup, <3>1, <3>2, <3>3 DEF StoreTypeOK
    <2>4. MarkerOwned' /\ HandlesHeld'
      BY MarkerFrame, HandlesFrame
    <2>5. ObjectsIntact'
      BY <1>2, <2>2 DEF ObjectsIntact
    <2>6. NamesAreCopies' /\ OwnName'
      BY <2>2 DEF NamesAreCopies, OwnName
    <2>7. CopiesSynced'
      BY <1>2, <2>1, <2>2 DEF CopiesSynced, Named, Terminal
    <2>8. ForeignKept' /\ ForeignSynced'
      BY <2>2, ForeignFrame
    <2> QED
      BY <2>3, <2>4, <2>5, <2>6, <2>7, <2>8
  <1>7. CASE power_loss
    <2>1. /\ losses < MaxPowerLosses /\ losses' = losses + 1
          /\ pc' = [p \in Publishers |->
                      IF pc[p] \in Terminal \cup {"closed"} THEN pc[p] ELSE "dead"]
          /\ marker' \in {marker, durable.marker}
          /\ durable' = [content |-> content', staging |-> staging', objects |-> objects',
                         marker |-> marker']
          /\ UNCHANGED <<identity, pinned, quarantine, rows, decayed>>
      BY <1>7 DEF power_loss
    <2>2. /\ content' \in [Inodes -> Objects \cup {"torn"}]
          /\ \A i \in Inodes : content'[i] \in {content[i], durable.content[i]}
      <3> PICK lost \in SUBSET {i \in Inodes : content[i] # durable.content[i]} :
             content' = [i \in Inodes |-> IF i \in lost THEN durable.content[i] ELSE content[i]]
        BY <1>7 DEF power_loss
      <3> QED
        BY <1>2
    <2>3. /\ staging \cap durable.staging \subseteq staging'
          /\ staging' \subseteq staging \cup durable.staging
      BY <1>7 DEF power_loss
    <2>4. /\ objects' \in [Objects -> Inodes \cup {None}]
          /\ \A d \in Objects : objects'[d] \in {objects[d], durable.objects[d]}
      <3> PICK lost \in SUBSET {d \in Objects : objects[d] # durable.objects[d]} :
             objects' = [d \in Objects |-> IF d \in lost THEN durable.objects[d] ELSE objects[d]]
        BY <1>7 DEF power_loss
      <3> QED
        BY <1>2
    <2>5. /\ durable'.objects = objects' /\ durable'.content = content'
          /\ durable'.staging = staging' /\ durable'.marker = marker'
      BY <2>1
    <2>6. \A p \in Publishers : /\ pc'[p] \in Terminal \cup {"closed"}
                                /\ pc[p] \in Terminal => pc'[p] = pc[p]
                                /\ pc[p] # "closed" => pc'[p] \in Terminal
      BY <1>2, <2>1 DEF Terminal
    <2>7. StoreTypeOK'
      <3>1. pc' \in [Publishers -> Phases]
        BY <1>2, <2>1 DEF Phases, Terminal
      <3>2. losses' \in 0..MaxPowerLosses
        BY <2>1 DEF StoreTypeOK
      <3>3. marker' \in Markers /\ staging' \subseteq Inodes \cup Foreign
        BY <2>1, <2>3 DEF StoreTypeOK
      <3> QED
        BY <2>1, <2>2, <2>4, <2>5, <3>1, <3>2, <3>3 DEF StoreTypeOK
    <2>8. MarkerOwned' /\ HandlesHeld' /\ OwnName'
      BY <2>6 DEF MarkerOwned, HandlesHeld, OwnName, Opened, Terminal
    <2>9. \A d \in Objects : objects'[d] \in {None, objects[d]}
      BY <2>4 DEF NamesAreCopies
    <2>10. \A p \in Publishers : content'[Copy(p)] = content[Copy(p)]
      BY <2>2 DEF CopiesSynced
    <2>11. NamesAreCopies'
      <3>1. \A p \in Publishers : pc[p] \in Named => pc'[p] \in Named
        BY <2>6 DEF Named, Terminal
      <3> QED
        BY <2>5, <2>9, <3>1 DEF NamesAreCopies
    <2>12. ObjectsIntact'
      BY <2>1, <2>9, <2>10 DEF ObjectsIntact, NamesAreCopies
    <2>13. CopiesSynced'
      BY <2>5, <2>6 DEF CopiesSynced, Terminal
    <2>14. ForeignKept' /\ ForeignSynced'
      BY <2>1, <2>3, <2>5 DEF ForeignKept, ForeignSynced
    <2> QED
      BY <2>7, <2>8, <2>11, <2>12, <2>13, <2>14
  <1> QED
    BY <1>3, <1>4, <1>5, <1>6, <1>7

\* The invariant holds in every behaviour of the store.
THEOREM StoreInvariant == StoreSpec => []StoreInv
  <1>1. StoreInv /\ [StoreNext]_storeVars => StoreInv'
    <2> SUFFICES ASSUME StoreInv, [StoreNext]_storeVars
                 PROVE  StoreInv'
      OBVIOUS
    <2>1. CASE StoreNext
      BY <2>1, OpeningKeepsStoreInv, StagingKeepsStoreInv, PublishingKeepsStoreInv,
         WorldKeepsStoreInv DEF StoreNext, StoreStep, PublisherStep
    <2>2. CASE UNCHANGED storeVars
      <3>1. StoreTypeOK => StoreTypeOK'
        BY <2>2, SetupStays DEF storeVars, StoreTypeOK
      <3> QED
        BY <2>2, <3>1, SetupStays
           DEF storeVars, StoreInv, ObjectsIntact, ForeignKept, NamesAreCopies, CopiesSynced,
               OwnName, ForeignSynced, MarkerOwned, HandlesHeld
    <2> QED
      BY <2>1, <2>2
  <1> QED
    BY StoreInvInit, <1>1, PTL DEF StoreSpec

\* publish, reopen and recover_stale, whatever the setup: the files of the store
\* have their types, what is under a digest's name are that digest's bytes, and
\* nothing in staging/ that the store did not create is lost.
THEOREM StoreKeepsFiles == StoreSpec => [](StoreTypeOK /\ ObjectsIntact /\ ForeignKept)
  BY StoreInvariant, PTL DEF StoreInv

\* A name in objects/ never leads to other bytes, and is only taken away when its
\* bytes are damaged or nobody relies on it, whatever the setup.
THEOREM NamesNeverReplaced == StoreSpec => NeverReplaced
  <1> DEFINE Kept(d) ==
        \/ objects'[d] = objects[d]
        \/ /\ objects'[d] = None
           /\ \/ objects[d] \in decayed
              \/ \A p \in Publishers : Want[p] = d => pc'[p] \in Terminal \cup {"closed"}
  <1>1. ASSUME StoreInv, StoreNext, NEW d \in Objects, objects[d] # None
        PROVE  Kept(d)
    <2> USE <1>1, SetupFacts, InodeFacts, DurableFacts DEF StoreInv
    <2>1. objects \in [Objects -> Inodes \cup {None}] /\ pc \in [Publishers -> Phases]
      BY DEF StoreTypeOK
    <2>2. ASSUME NEW p \in Publishers, rename_copy(p)
          PROVE  Kept(d)
      BY <2>1, <2>2 DEF rename_copy, rename
    \* Only damaged bytes make the reread fail: the name was this publisher's.
    <2>3. ASSUME NEW p \in Publishers, verify_final(p)
          PROVE  Kept(d)
      <3>1. CASE d = Want[p] /\ objects' # objects
        <4>1. pc[p] = "renamed" /\ ~(objects[d] = Copy(p) /\ content[Copy(p)] = d)
              /\ objects' = [objects EXCEPT ![d] = None]
          BY <2>3, <3>1 DEF verify_final, verify_envelope, Goes, fileVars
        <4>2. objects[d] = Copy(p)
          BY <3>1, <4>1 DEF OwnName
        <4> QED
          BY <2>1, <4>1, <4>2 DEF ObjectsIntact
      <3>2. CASE d # Want[p] \/ objects' = objects
        BY <2>1, <2>3, <3>2 DEF verify_final, fileVars
      <3> QED
        BY <3>1, <3>2
    <2>4. CASE power_loss
      <3>1. objects'[d] \in {objects[d], durable.objects[d]}
        BY <2>1, <2>4 DEF power_loss
      <3>2. \A p \in Publishers : pc'[p] \in Terminal \cup {"closed"}
        BY <2>4 DEF power_loss, Terminal
      <3> QED
        BY <3>1, <3>2 DEF NamesAreCopies
    <2>5. ASSUME NEW p \in Publishers, PublisherStep(p), ~rename_copy(p), ~verify_final(p)
          PROVE  objects' = objects
      BY <2>5 DEF PublisherStep, create_marker, write_marker, sync_marker, read_marker, stage, write,
         validate, check_validated, open_copy, copy_for_publication, accept_existing, sync_objects,
         unlink_stage, commit, fileVars
    <2>6. ASSUME NEW p \in Publishers, late_write(p) \/ kill(p)
          PROVE  objects' = objects
      BY <2>6 DEF late_write, kill, fileVars
    <2>7. ASSUME NEW n \in Inodes \cup Foreign, recover_stale(n)
          PROVE  objects' = objects
      BY <2>7 DEF recover_stale
    <2>8. ASSUME NEW e \in Objects, decay(e)
          PROVE  objects' = objects
      BY <2>8 DEF decay
    <2> QED
      BY <2>2, <2>3, <2>4, <2>5, <2>6, <2>7, <2>8 DEF StoreNext, StoreStep
  <1>2. StoreInv /\ [StoreNext]_storeVars =>
            [\A d \in Objects : objects[d] # None => Kept(d)]_storeVars
    BY <1>1
  <1> QED
    BY <1>2, StoreInvariant, PTL DEF StoreSpec, NeverReplaced

-----------------------------------------------------------------------------
(* What is promised to the rows *)

\* The circumstances under which the code keeps its promise through a loss of
\* power.  accept_existing does not sync objects/ for an object that another
\* publisher has just named, and read_marker does not sync the marker it reads: a
\* row that rests on either may outlive it.
SyncedByItself(s) ==
    s.losses = 0 \/ (~s.fresh /\ \A p, q \in Publishers : s.want[p] = s.want[q] => p = q)

\* Who has read the identity, and every row, has read the marker that is there;
\* where power may be lost, it is the one the store was opened with before.
MarkerStays ==
    /\ MaxPowerLosses > 0 => marker = "old" /\ durable.marker = "old"
    /\ \A p \in Publishers : identity[p] # "absent" => identity[p] = marker
    /\ \A r \in rows : r.store = marker

\* The name of what a publisher has synced, and of what a row names, stays where
\* it is needed: in the directory and, should the power be lost, on the disk.
Lasting(d) ==
    objects[d] # None /\ (MaxPowerLosses > 0 => durable.objects[d] # None)

NamesStay ==
    /\ \A p \in Publishers :
          MaxPowerLosses > 0 /\ pc[p] \in {"synced", "published"} =>
              Damaged(Want[p]) \/ durable.objects[Want[p]] # None
    /\ \A p \in Publishers : MaxPowerLosses > 0 => pc[p] # "existing"
    /\ \A r \in rows : Damaged(r.object) \/ Lasting(r.object)

PromiseInv == StoreInv /\ MarkerStays /\ NamesStay

\* SyncedByItself in terms of the current setup.
LEMMA ApartFacts ==
    ASSUME \A s \in StoreSetups : SyncedByItself(s), setup \in StoreSetups, MaxPowerLosses > 0
    PROVE  ~Fresh /\ \A p, q \in Publishers : Want[p] = Want[q] => p = q
  BY SetupFacts DEF SyncedByItself, MaxPowerLosses, Fresh, Want

\* Damage is not undone.
LEMMA DamageStays ==
    ASSUME UNCHANGED setup, decayed \subseteq decayed'
    PROVE  \A d : Damaged(d) => Damaged(d)'
  BY SetupStays DEF Damaged

\* A step that touches neither the marker nor who has read it.
LEMMA MarkerStaysFrame ==
    ASSUME MarkerStays, UNCHANGED <<setup, marker, identity, rows>>,
           durable'.marker = durable.marker
    PROVE  MarkerStays'
  BY SetupStays DEF MarkerStays

\* A step that takes no name away and brings nobody to rely on one.
LEMMA NamesStayFrame ==
    ASSUME StoreInv, NamesStay, UNCHANGED <<setup, rows, objects>>, decayed \subseteq decayed',
           rows \subseteq Rows, Want \in [Publishers -> Objects],
           \A d \in Objects : durable'.objects[d] \in {durable.objects[d], objects[d]},
           \A q \in Publishers :
              pc'[q] = pc[q] \/ pc'[q] \notin {"synced", "published", "existing"}
    PROVE  NamesStay'
  <1> USE SetupStays, DamageStays
  <1>1. \A d \in Objects : durable.objects[d] # None => durable'.objects[d] # None
    BY DEF StoreInv, NamesAreCopies
  <1>2. \A p \in Publishers :
           (MaxPowerLosses > 0 /\ pc[p] \in {"synced", "published"} =>
              Damaged(Want[p]) \/ durable.objects[Want[p]] # None)'
    BY <1>1 DEF NamesStay
  <1>3. \A p \in Publishers : (MaxPowerLosses > 0 => pc[p] # "existing")'
    BY DEF NamesStay
  <1>4. \A r \in rows' : (Damaged(r.object) \/ Lasting(r.object))'
    BY <1>1 DEF NamesStay, Lasting, Rows
  <1> QED
    BY <1>2, <1>3, <1>4 DEF NamesStay

\* A new store has promised nothing.
LEMMA PromiseInvInit ==
    ASSUME \A s \in StoreSetups : SyncedByItself(s), StoreInit
    PROVE  PromiseInv
  <1>1. StoreInv /\ setup \in StoreSetups
    BY StoreInvInit DEF StoreInv
  <1>2. MarkerStays
    BY <1>1, ApartFacts DEF StoreInit, MarkerStays
  <1>3. NamesStay
    BY DEF StoreInit, NamesStay
  <1> QED
    BY <1>1, <1>2, <1>3 DEF PromiseInv

\* Opening the store keeps the promise.
LEMMA OpeningKeepsPromise ==
    ASSUME PromiseInv, UNCHANGED setup, NEW p \in Publishers,
           create_marker(p) \/ write_marker(p) \/ sync_marker(p) \/ read_marker(p)
    PROVE  MarkerStays' /\ NamesStay'
  <1> USE NameAssumption, SetupFacts, SetupStays, DurableFacts DEF PromiseInv, StoreInv, Goes
  <1>1. /\ pc \in [Publishers -> Phases] /\ identity \in [Publishers -> Markers \ {"empty"}]
        /\ rows \subseteq Rows
    BY DEF StoreTypeOK
  <1>2. \A r \in rows : r.store \notin {"absent", "empty"}
    BY <1>1 DEF Rows
  <1>3. CASE create_marker(p)
    <2>1. MarkerStays'
      BY <1>1, <1>2, <1>3 DEF create_marker, MarkerStays
    <2> QED
      BY <1>1, <1>3, <2>1, NamesStayFrame DEF create_marker
  <1>4. CASE write_marker(p)
    <2>1. marker = "empty"
      BY <1>4 DEF write_marker, MarkerOwned
    <2>2. MarkerStays'
      BY <1>1, <1>2, <1>4, <2>1 DEF write_marker, MarkerStays
    <2> QED
      BY <1>1, <1>4, <2>2, NamesStayFrame DEF write_marker
  <1>5. CASE sync_marker(p)
    <2>1. /\ durable'.objects = durable.objects /\ durable'.marker = marker
      BY <1>5 DEF sync_marker
    <2>2. MarkerStays'
      BY <1>1, <1>5, <2>1 DEF sync_marker, MarkerStays
    <2> QED
      BY <1>1, <1>5, <2>1, <2>2, NamesStayFrame DEF sync_marker
  <1>6. CASE read_marker(p)
    <2>1. MarkerStays'
      BY <1>1, <1>6 DEF read_marker, MarkerStays
    <2> QED
      BY <1>1, <1>6, <2>1, NamesStayFrame DEF read_marker
  <1> QED
    BY <1>3, <1>4, <1>5, <1>6

\* So does staging, where nobody relies on a name yet.
LEMMA StagingKeepsPromise ==
    ASSUME PromiseInv, UNCHANGED setup, NEW p \in Publishers,
           \/ stage(p) \/ write(p) \/ validate(p) \/ check_validated(p) \/ open_copy(p)
           \/ copy_for_publication(p)
    PROVE  MarkerStays' /\ NamesStay'
  <1>1. /\ pc \in [Publishers -> Phases] /\ rows \subseteq Rows /\ Want \in [Publishers -> Objects]
    BY SetupFacts DEF PromiseInv, StoreInv, StoreTypeOK
  <1>2. UNCHANGED <<objects, rows, decayed, marker, identity>>
    BY DEF stage, write, validate, check_validated, open_copy, copy_for_publication, fileVars
  <1>3. \A q \in Publishers : pc'[q] = pc[q] \/ pc'[q] \notin {"synced", "published", "existing"}
    BY <1>1 DEF Goes, stage, write, validate, check_validated, open_copy, copy_for_publication
  <1>4. durable'.objects = durable.objects /\ durable'.marker = durable.marker
    <2>1. CASE validate(p)
      BY <2>1, DurableFacts DEF validate, SyncStaging, PromiseInv, StoreInv
    <2>2. CASE copy_for_publication(p)
      BY <2>2, DurableFacts DEF copy_for_publication, PromiseInv, StoreInv
    <2>3. CASE stage(p) \/ write(p) \/ check_validated(p) \/ open_copy(p)
      BY <2>3 DEF stage, write, check_validated, open_copy, fileVars
    <2> QED
      BY <2>1, <2>2, <2>3
  <1> QED
    BY <1>1, <1>2, <1>3, <1>4, MarkerStaysFrame, NamesStayFrame DEF PromiseInv

\* Publishing keeps the promise: the name is synced before a row may rest on it.
LEMMA PublishingKeepsPromise ==
    ASSUME \A s \in StoreSetups : SyncedByItself(s),
           PromiseInv, UNCHANGED setup, NEW p \in Publishers,
           \/ rename_copy(p) \/ accept_existing(p) \/ verify_final(p) \/ sync_objects(p)
           \/ unlink_stage(p) \/ commit(p)
    PROVE  MarkerStays' /\ NamesStay'
  <1> USE SetupFacts, SetupStays, InodeFacts, DurableFacts DEF PromiseInv, StoreInv, Goes
  <1>1. /\ pc \in [Publishers -> Phases] /\ rows \subseteq Rows /\ Want \in [Publishers -> Objects]
        /\ objects \in [Objects -> Inodes \cup {None}]
    BY DEF StoreTypeOK
  <1>2. \A r \in rows : r.object \in Objects
    BY <1>1 DEF Rows
  <1>3. CASE rename_copy(p)
    <2> USE <1>3 DEF rename_copy, rename
    \* A name that is there belongs to a publisher of the same object.
    <2>1. MaxPowerLosses > 0 => pc'[p] # "existing"
      <3> SUFFICES ASSUME MaxPowerLosses > 0, pc'[p] = "existing"
                   PROVE  FALSE
        OBVIOUS
      <3>1. pc[p] = "copied" /\ objects[Want[p]] # None
        BY <1>1
      <3>2. PICK q \in Publishers : Want[q] = Want[p] /\ pc[q] \in Named
        BY <1>1, <3>1 DEF NamesAreCopies
      <3> QED
        BY <3>1, <3>2, ApartFacts DEF Named, Terminal
    <2>2. \A d \in Objects : objects[d] # None => objects'[d] = objects[d]
      BY <1>1
    <2>3. UNCHANGED <<durable, rows, decayed, marker, identity>>
      OBVIOUS
    <2>4. \A q \in Publishers : pc'[q] = pc[q] \/ (q = p /\ pc'[q] \notin {"synced", "published"})
      BY <1>1
    <2>5. NamesStay'
      BY <1>1, <1>2, <2>1, <2>2, <2>3, <2>4, DamageStays DEF NamesStay, Lasting
    <2> QED
      BY <2>3, <2>5, MarkerStaysFrame
  <1>4. CASE accept_existing(p)
    <2> USE <1>4 DEF accept_existing, fileVars, SyncStaging
    <2>1. MaxPowerLosses = 0
      BY DEF NamesStay
    <2>2. UNCHANGED <<objects, rows, decayed, marker, identity>>
      OBVIOUS
    <2>3. durable'.marker = durable.marker
      OBVIOUS
    <2>4. NamesStay'
      BY <2>1, <2>2, DamageStays DEF NamesStay, Lasting
    <2> QED
      BY <2>2, <2>3, <2>4, MarkerStaysFrame
  <1>5. CASE verify_final(p)
    <2> USE <1>5 DEF verify_final, fileVars, SyncObjects
    <2>1. UNCHANGED <<rows, decayed, marker, identity>>
      OBVIOUS
    <2>2. durable'.marker = durable.marker
      OBVIOUS
    <2>3. \A q \in Publishers :
             pc'[q] = pc[q] \/ pc'[q] \notin {"synced", "published", "existing"}
      BY <1>1
    <2>4. CASE objects' = objects
      <3>1. \A d \in Objects : durable'.objects[d] \in {durable.objects[d], objects[d]}
        BY <2>4
      <3> QED
        BY <1>1, <2>1, <2>2, <2>3, <2>4, <3>1, MarkerStaysFrame, NamesStayFrame
    <2>5. CASE objects' # objects
      <3>1. /\ objects' = [objects EXCEPT ![Want[p]] = None] /\ durable'.objects = objects'
            /\ pc[p] = "renamed"
            /\ ~(objects[Want[p]] = Copy(p) /\ content[Copy(p)] = Want[p])
        BY <2>5 DEF verify_envelope
      <3>2. objects[Want[p]] = Copy(p)
        BY <3>1 DEF OwnName
      <3>3. Copy(p) \in decayed
        BY <1>1, <3>1, <3>2 DEF ObjectsIntact
      <3>4. Damaged(Want[p])
        BY <3>3 DEF Damaged
      <3>5. \A d \in Objects : ~Damaged(d) =>
                (objects'[d] = objects[d] /\ (durable.objects[d] # None => durable'.objects[d] # None))
        BY <1>1, <3>1, <3>4 DEF NamesAreCopies
      <3>6. NamesStay'
        BY <1>1, <1>2, <2>1, <2>3, <3>5, DamageStays DEF NamesStay, Lasting
      <3> QED
        BY <2>1, <2>2, <3>6, MarkerStaysFrame
    <2> QED
      BY <2>4, <2>5
  <1>6. CASE sync_objects(p)
    <2> USE <1>6 DEF sync_objects, SyncObjects
    <2>1. UNCHANGED <<objects, rows, decayed, marker, identity>>
      OBVIOUS
    <2>2. durable'.objects = objects /\ durable'.marker = durable.marker
      OBVIOUS
    <2>3. objects[Want[p]] # None
      BY DEF OwnName
    <2>4. \A d \in Objects : durable.objects[d] # None => durable'.objects[d] # None
      BY <2>2 DEF NamesAreCopies
    <2>5. \A q \in Publishers : pc'[q] = pc[q] \/ (q = p /\ pc'[q] = "synced")
      BY <1>1
    <2>6. NamesStay'
      BY <1>1, <1>2, <2>1, <2>2, <2>3, <2>4, <2>5, DamageStays DEF NamesStay, Lasting
    <2> QED
      BY <2>1, <2>2, <2>6, MarkerStaysFrame
  <1>7. CASE unlink_stage(p)
    <2> USE <1>7 DEF unlink_stage, fileVars, SyncStaging
    <2>1. UNCHANGED <<objects, rows, decayed, marker, identity>>
      OBVIOUS
    <2>2. durable'.objects = durable.objects /\ durable'.marker = durable.marker
      OBVIOUS
    <2>3. \A q \in Publishers :
             pc'[q] = pc[q] \/ (q = p /\ pc[q] = "synced" /\ pc'[q] \in {"published", "failed"})
      BY <1>1
    <2>4. NamesStay'
      BY <1>1, <1>2, <2>1, <2>2, <2>3, DamageStays DEF NamesStay, Lasting
    <2> QED
      BY <2>1, <2>2, <2>4, MarkerStaysFrame
  <1>8. CASE commit(p)
    <2> USE <1>8 DEF commit, fileVars
    <2>1. UNCHANGED <<objects, decayed, marker, identity, durable>>
      OBVIOUS
    <2>2. \A q \in Publishers : pc'[q] = pc[q] \/ pc'[q] \in {"committed", "failed"}
      BY <1>1
    <2>3. \A r \in rows' :
             \/ r \in rows
             \/ r.object = Want[p] /\ r.store = identity[p] /\ ensure_verified(p)
      OBVIOUS
    <2>4. ensure_verified(p) => Damaged(Want[p]) \/ Lasting(Want[p])
      BY <1>1 DEF ensure_verified, HandlesHeld, NamesStay, Lasting
    <2>5. identity[p] = marker
      BY DEF HandlesHeld, Opened, MarkerStays
    <2>6. MarkerStays'
      BY <2>1, <2>3, <2>5 DEF MarkerStays
    <2>7. NamesStay'
      BY <1>1, <1>2, <2>1, <2>2, <2>3, <2>4, DamageStays DEF NamesStay, Lasting
    <2> QED
      BY <2>6, <2>7
  <1> QED
    BY <1>3, <1>4, <1>5, <1>6, <1>7, <1>8

\* And so does the rest of the world: where the power may be lost, what a row
\* rests on has been synced.
LEMMA WorldKeepsPromise ==
    ASSUME PromiseInv, UNCHANGED setup,
           \/ \E p \in Publishers : late_write(p) \/ kill(p)
           \/ \E n \in Inodes \cup Foreign : recover_stale(n)
           \/ \E d \in Objects : decay(d)
           \/ power_loss
    PROVE  MarkerStays' /\ NamesStay'
  <1> USE SetupFacts, SetupStays, DurableFacts DEF PromiseInv, StoreInv
  <1>1. /\ pc \in [Publishers -> Phases] /\ rows \subseteq Rows /\ Want \in [Publishers -> Objects]
        /\ objects \in [Objects -> Inodes \cup {None}] /\ losses \in 0..MaxPowerLosses
    BY DEF StoreTypeOK
  <1>2. ASSUME NEW p \in Publishers, late_write(p) \/ kill(p)
        PROVE  MarkerStays' /\ NamesStay'
    <2>1. \A q \in Publishers : pc'[q] = pc[q] \/ pc'[q] = "dead"
      BY <1>1, <1>2 DEF late_write, kill, procVars
    <2> QED
      BY <1>1, <1>2, <2>1, MarkerStaysFrame, NamesStayFrame DEF late_write, kill, procVars, fileVars
  <1>3. ASSUME NEW n \in Inodes \cup Foreign, recover_stale(n)
        PROVE  MarkerStays' /\ NamesStay'
    <2>1. durable'.objects = durable.objects /\ durable'.marker = durable.marker
      BY <1>3 DEF recover_stale, SyncStaging
    <2> QED
      BY <1>1, <1>3, <2>1, MarkerStaysFrame, NamesStayFrame DEF recover_stale, procVars
  <1>4. ASSUME NEW d \in Objects, decay(d)
        PROVE  MarkerStays' /\ NamesStay'
    <2>1. durable'.objects = durable.objects /\ durable'.marker = durable.marker
      BY <1>4 DEF decay
    <2> QED
      BY <1>1, <1>4, <2>1, MarkerStaysFrame, NamesStayFrame DEF decay, procVars
  <1>5. CASE power_loss
    <2>1. /\ MaxPowerLosses > 0
          /\ marker' \in {marker, durable.marker}
          /\ durable' = [content |-> content', staging |-> staging', objects |-> objects',
                         marker |-> marker']
          /\ UNCHANGED <<identity, rows, decayed>>
      BY <1>1, <1>5 DEF power_loss
    <2>2. \A d \in Objects : objects'[d] \in {objects[d], durable.objects[d]}
      BY <1>1, <1>5 DEF power_loss
    <2>3. \A p \in Publishers : pc'[p] \in Terminal \cup {"closed"}
      BY <1>5 DEF power_loss, Terminal
    <2>4. MarkerStays'
      BY <2>1 DEF MarkerStays
    <2>5. \A r \in rows : Damaged(r.object) \/ objects'[r.object] # None
      BY <1>1, <2>1, <2>2 DEF NamesStay, Lasting, Rows
    <2>6. NamesStay'
      BY <2>1, <2>3, <2>5, DamageStays DEF NamesStay, Lasting, Terminal
    <2> QED
      BY <2>4, <2>6
  <1> QED
    BY <1>2, <1>3, <1>4, <1>5

\* The stronger invariant holds in every behaviour of a store that syncs what it
\* relies on by itself.
THEOREM PromiseInvariant ==
    ASSUME \A s \in StoreSetups : SyncedByItself(s)
    PROVE  StoreSpec => []PromiseInv
  <1>1. PromiseInv /\ StoreInv' /\ [StoreNext]_storeVars => PromiseInv'
    <2> SUFFICES ASSUME PromiseInv, StoreInv', [StoreNext]_storeVars
                 PROVE  MarkerStays' /\ NamesStay'
      BY DEF PromiseInv
    <2>1. CASE StoreNext
      BY <2>1, OpeningKeepsPromise, StagingKeepsPromise, PublishingKeepsPromise, WorldKeepsPromise
         DEF StoreNext, StoreStep, PublisherStep
    <2>2. CASE UNCHANGED storeVars
      BY <2>2, SetupStays DEF storeVars, PromiseInv, MarkerStays, NamesStay, Lasting, Damaged
    <2> QED
      BY <2>1, <2>2
  <1>2. StoreInit => PromiseInv
    BY PromiseInvInit
  <1> QED
    BY <1>1, <1>2, StoreInvariant, PTL DEF StoreSpec

\* Bytes under a name are right unless the object is damaged.
LEMMA NamedOrDamaged ==
    ASSUME StoreInv, NEW d \in Objects, objects[d] # None, content[objects[d]] # d
    PROVE  Damaged(d)
  <1>1. objects[d] \in decayed
    BY DEF StoreInv, ObjectsIntact
  <1>2. PICK p \in Publishers : objects[d] = Copy(p) /\ Want[p] = d
    BY DEF StoreInv, NamesAreCopies
  <1> QED
    BY <1>1, <1>2, InodeFacts DEF Damaged

\* What is promised to the rows is kept in every state: reopen_persisted finds
\* what a committed row names, through kills, late writers and losses of power.
THEOREM StoreStaysSound ==
    ASSUME \A s \in StoreSetups : SyncedByItself(s)
    PROVE  StoreSpec => []StoreSound
  <1>1. PromiseInv => StoreSound
    <2> SUFFICES ASSUME PromiseInv, NEW r \in rows, ~Damaged(r.object)
                 PROVE  reopen_persisted(r)
      BY DEF PromiseInv, StoreInv, StoreSound, CommittedReopens
    <2>1. r.object \in Objects
      BY DEF PromiseInv, StoreInv, StoreTypeOK, Rows
    <2>2. objects[r.object] # None /\ marker = r.store
      BY DEF PromiseInv, NamesStay, Lasting, MarkerStays
    <2> QED
      BY <2>1, <2>2, NamedOrDamaged
         DEF PromiseInv, reopen_persisted, open_verified, verify_envelope
  <1> QED
    BY <1>1, PromiseInvariant, PTL

-----------------------------------------------------------------------------
(* The store implements its promise *)

\* The refinement mapping of ContentStore's Promise.
Present == {d \in Objects : objects[d] # None /\ content[objects[d]] = d}
Promised == {r.object : r \in {s \in rows : ~Damaged(s.object)}}

\* A step that names nothing and writes to no copy is invisible to the rows.
LEMMA InvisibleStep ==
    ASSUME StoreInv, UNCHANGED <<setup, objects, decayed, rows>>,
           \A q \in Publishers : content'[Copy(q)] = content[Copy(q)]
    PROVE  UNCHANGED <<Present, Promised>>
  <1>1. Present' = Present
    BY DEF StoreInv, NamesAreCopies, Present
  <1>2. Promised' = Promised
    BY SetupStays DEF Promised, Damaged
  <1> QED
    BY <1>1, <1>2

\* The next-state relation of AtomicStore under the mapping.
AtomicStep ==
    \/ \E d \in Objects :
         \/ Present' = Present \cup {d} /\ Promised' = Promised
         \/ d \in Present /\ Promised' = Promised \cup {d} /\ Present' = Present
         \/ Present' = Present \ {d} /\ Promised' = Promised \ {d}
    \/ \E D \in SUBSET Objects :
         D \subseteq Present \ Promised /\ Present' = Present \ D /\ Promised' = Promised
    \/ UNCHANGED <<Present, Promised>>

\* The steps that the rows can see, and what they see: the rename makes an object
\* appear, the commit promises it, damage spoils it, and a loss of power makes
\* vanish only what no row was promised.
LEMMA StepsKeepPromise ==
    ASSUME PromiseInv, StoreNext
    PROVE  AtomicStep
  <1> USE SetupFacts, InodeFacts, DurableFacts DEF PromiseInv, StoreInv, Goes
  <1>0. UNCHANGED setup /\ Want' = Want
    BY SetupStays DEF StoreNext
  <1>1. /\ pc \in [Publishers -> Phases] /\ rows \subseteq Rows /\ Want \in [Publishers -> Objects]
        /\ objects \in [Objects -> Inodes \cup {None}] /\ losses \in 0..MaxPowerLosses
        /\ content \in [Inodes -> Objects \cup {"torn"}]
    BY DEF StoreTypeOK
  <1>2. Present \subseteq Objects /\ Promised \subseteq Objects
    BY <1>1 DEF Present, Promised, Rows
  <1>3. ASSUME NEW p \in Publishers, rename_copy(p)
        PROVE  AtomicStep
    <2> USE <1>3 DEF rename_copy, rename
    <2>1. UNCHANGED <<content, decayed, rows>>
      OBVIOUS
    <2>2. CASE objects' = objects
      BY <1>0, <2>1, <2>2, InvisibleStep DEF AtomicStep
    <2>3. CASE objects' # objects
      <3>1. objects' = [objects EXCEPT ![Want[p]] = Copy(p)] /\ content[Copy(p)] = Want[p]
        BY <2>3 DEF CopiesSynced
      <3>2. Present' = Present \cup {Want[p]}
        BY <1>1, <2>1, <3>1 DEF Present
      <3>3. Promised' = Promised
        BY <1>0, <2>1 DEF Promised, Damaged
      <3> QED
        BY <1>1, <3>2, <3>3 DEF AtomicStep
    <2> QED
      BY <2>2, <2>3
  <1>4. ASSUME NEW p \in Publishers, verify_final(p)
        PROVE  AtomicStep
    <2> USE <1>4 DEF verify_final, fileVars
    <2>1. UNCHANGED <<content, decayed, rows>>
      OBVIOUS
    <2>2. CASE objects' = objects
      BY <1>0, <2>1, <2>2, InvisibleStep DEF AtomicStep
    <2>3. CASE objects' # objects
      <3>1. /\ objects' = [objects EXCEPT ![Want[p]] = None] /\ pc[p] = "renamed"
            /\ ~(objects[Want[p]] = Copy(p) /\ content[Copy(p)] = Want[p])
        BY <2>3 DEF verify_envelope
      <3>2. objects[Want[p]] = Copy(p)
        BY <3>1 DEF OwnName
      <3>3. Present' = Present
        BY <1>1, <2>1, <3>1, <3>2 DEF Present
      <3>4. Promised' = Promised
        BY <1>0, <2>1 DEF Promised, Damaged
      <3> QED
        BY <3>3, <3>4 DEF AtomicStep
    <2> QED
      BY <2>2, <2>3
  <1>5. ASSUME NEW p \in Publishers, commit(p)
        PROVE  AtomicStep
    <2> USE <1>5 DEF commit, fileVars
    <2>1. UNCHANGED <<content, objects, decayed>>
      OBVIOUS
    <2>2. Present' = Present
      BY <2>1 DEF Present
    <2>3. CASE ensure_verified(p) /\ ~Damaged(Want[p])
      <3>1. Want[p] \in Present
        BY <1>1, <2>3 DEF ensure_verified, verify_envelope, HandlesHeld, Present
      <3>2. rows' = rows \cup {[object |-> Want[p], store |-> identity[p]]}
        BY <2>3
      <3>3. \A d : Damaged(d)' <=> Damaged(d)
        BY <1>0, <2>1 DEF Damaged
      <3>4. Promised' = Promised \cup {Want[p]}
        <4>1. \A d : d \in Promised' <=> \E r \in rows' : d = r.object /\ ~Damaged(r.object)
          BY <3>3 DEF Promised
        <4>2. \A d : d \in Promised <=> \E r \in rows : d = r.object /\ ~Damaged(r.object)
          BY DEF Promised
        <4>3. PICK row \in rows' : row.object = Want[p] /\ rows' = rows \cup {row}
          BY <3>2
        <4> QED
          BY <2>3, <4>1, <4>2, <4>3
      <3> QED
        BY <1>1, <2>2, <3>1, <3>4 DEF AtomicStep
    <2>4. CASE ~ensure_verified(p) \/ Damaged(Want[p])
      <3>1. \A r \in rows' : r \in rows \/ Damaged(r.object)
        BY <2>4
      <3>2. rows \subseteq rows'
        OBVIOUS
      <3>3. Promised' = Promised
        BY <1>0, <2>1, <3>1, <3>2 DEF Promised, Damaged
      <3> QED
        BY <2>2, <3>3 DEF AtomicStep
    <2> QED
      BY <2>3, <2>4
  <1>6. ASSUME NEW d \in Objects, decay(d)
        PROVE  AtomicStep
    <2> USE <1>6 DEF decay
    <2>1. PICK p \in Publishers : objects[d] = Copy(p) /\ Want[p] = d
      BY DEF NamesAreCopies
    <2>2. /\ content' = [content EXCEPT ![Copy(p)] = "torn"] /\ decayed' = decayed \cup {Copy(p)}
          /\ UNCHANGED <<objects, rows>>
      BY <2>1
    <2>3. \A e \in Objects : e # d => objects[e] # Copy(p)
      BY <2>1 DEF NamesAreCopies
    <2>4. Present' = Present \ {d}
      BY <1>1, <2>1, <2>2, <2>3, NameAssumption DEF Present
    <2>5. \A e : Damaged(e)' <=> Damaged(e) \/ e = d
      BY <1>0, <2>1, <2>2 DEF Damaged
    <2>6. Promised' = Promised \ {d}
      BY <2>2, <2>5 DEF Promised
    <2> QED
      BY <2>4, <2>6 DEF AtomicStep
  <1>7. CASE power_loss
    <2> DEFINE D == {d \in Present : objects'[d] = None}
    <2>1. MaxPowerLosses > 0 /\ UNCHANGED <<rows, decayed>>
      BY <1>1, <1>7 DEF power_loss
    <2>2. \A d \in Objects : objects'[d] \in {objects[d], durable.objects[d]}
      BY <1>1, <1>7 DEF power_loss
    <2>3. \A p \in Publishers : content'[Copy(p)] = content[Copy(p)]
      <3> PICK lost \in SUBSET {i \in Inodes : content[i] # durable.content[i]} :
             content' = [i \in Inodes |-> IF i \in lost THEN durable.content[i] ELSE content[i]]
        BY <1>7 DEF power_loss
      <3> QED
        BY DEF CopiesSynced
    <2>4. \A d \in Objects : objects'[d] \in {None, objects[d]}
      BY <2>2 DEF NamesAreCopies
    <2>5. Present' = Present \ D
      BY <2>3, <2>4 DEF Present, NamesAreCopies
    <2>6. Promised' = Promised
      BY <1>0, <2>1 DEF Promised, Damaged
    <2>7. \A d \in Promised : objects'[d] # None
      BY <1>2, <2>1, <2>2 DEF Promised, NamesStay, Lasting
    <2>8. D \subseteq Present \ Promised /\ D \in SUBSET Objects
      BY <1>2, <2>7
    <2> QED
      BY <2>5, <2>6, <2>8 DEF AtomicStep
  <1>8. ASSUME NEW p \in Publishers, PublisherStep(p), ~rename_copy(p), ~verify_final(p), ~commit(p)
        PROVE  AtomicStep
    <2>1. UNCHANGED <<objects, decayed, rows>>
      BY <1>8 DEF PublisherStep, create_marker, write_marker, sync_marker, read_marker, stage, write,
         validate, check_validated, open_copy, copy_for_publication, accept_existing, sync_objects,
         unlink_stage, fileVars
    <2>2. CASE copy_for_publication(p)
      \* The copy has no name yet.
      <3>0. pc[p] \notin Named
        BY <2>2 DEF copy_for_publication, Named, Terminal
      <3>1. \A e \in Objects : objects[e] # None => objects[e] # Copy(p)
        BY <3>0 DEF NamesAreCopies
      <3>2. \A i \in Inodes : i # Copy(p) => content'[i] = content[i]
        BY <1>1, <2>2 DEF copy_for_publication
      <3>3. Present' = Present
        BY <1>1, <2>1, <3>1, <3>2 DEF Present
      <3>4. Promised' = Promised
        BY <1>0, <2>1 DEF Promised, Damaged
      <3> QED
        BY <3>3, <3>4 DEF AtomicStep
    <2>3. CASE ~copy_for_publication(p)
      <3>1. \A q \in Publishers : content'[Copy(q)] = content[Copy(q)]
        BY <1>1, <1>8, <2>3 DEF PublisherStep, create_marker, write_marker, sync_marker,
           read_marker, stage, write, validate, check_validated, open_copy, accept_existing,
           sync_objects, unlink_stage, fileVars
      <3> QED
        BY <1>0, <2>1, <3>1, InvisibleStep DEF AtomicStep
    <2> QED
      BY <2>2, <2>3
  <1>9. ASSUME NEW p \in Publishers, late_write(p) \/ kill(p)
        PROVE  AtomicStep
    <2>1. UNCHANGED <<objects, decayed, rows>>
          /\ \A q \in Publishers : content'[Copy(q)] = content[Copy(q)]
      BY <1>1, <1>9 DEF late_write, kill, fileVars
    <2> QED
      BY <1>0, <2>1, InvisibleStep DEF AtomicStep
  <1>10. ASSUME NEW n \in Inodes \cup Foreign, recover_stale(n)
         PROVE  AtomicStep
    BY <1>0, <1>10, InvisibleStep DEF recover_stale, AtomicStep
  <1> QED
    BY <1>3, <1>4, <1>5, <1>6, <1>7, <1>8, <1>9, <1>10 DEF StoreNext, StoreStep

\* Every step keeps the store's promise: no name is ever given to other bytes, and
\* the store implements AtomicStore, so what a row names is lost only to a bad
\* medium.
THEOREM PromiseIsKept ==
    ASSUME \A s \in StoreSetups : SyncedByItself(s)
    PROVE  StoreSpec => StoreKeepsPromise
  <1>1. StoreInit => Promise!AtomicInit
    BY DEF StoreInit, Promise!AtomicInit
  <1>2. PromiseInv /\ [StoreNext]_storeVars =>
            [Promise!AtomicNext]_<<Present, Promised>>
    <2> SUFFICES ASSUME PromiseInv, [StoreNext]_storeVars
                 PROVE  [Promise!AtomicNext]_<<Present, Promised>>
      OBVIOUS
    <2>1. CASE StoreNext
      BY <2>1, StepsKeepPromise
         DEF AtomicStep, Promise!AtomicNext, Promise!Appear, Promise!Promise, Promise!Spoil,
             Promise!Vanish, Present, Promised
    <2>2. CASE UNCHANGED storeVars
      BY <2>2, SetupStays DEF storeVars, Present, Promised, Damaged
    <2> QED
      BY <2>1, <2>2
  <1> QED
    BY <1>1, <1>2, PromiseInvariant, NamesNeverReplaced, PTL
       DEF StoreSpec, StoreKeepsPromise, ImplementsAtomicStore, Promise!AtomicSpec, Present, Promised

-----------------------------------------------------------------------------
(* The messages between launcher and worker *)

\* A number of a set that no other exceeds is its largest.
LEMMA MaxIs ==
    ASSUME NEW S \in SUBSET Int, NEW m \in S, \A y \in S : m >= y
    PROVE  Max(S) = m
  <1>1. Max(S) \in S /\ \A y \in S : Max(S) >= y
    BY DEF Max
  <1> DEFINE x == Max(S)
  <1>2. x \in Int /\ m \in Int /\ x >= m /\ m >= x
    BY <1>1
  <1> HIDE DEF x
  <1>3. x = m
    BY <1>2
  <1> QED
    BY <1>3 DEF x

\* A number of a set that exceeds no other is its smallest.
LEMMA MinIs ==
    ASSUME NEW S \in SUBSET Int, NEW m \in S, \A y \in S : m <= y
    PROVE  Min(S) = m
  <1>1. Min(S) \in S /\ \A y \in S : Min(S) <= y
    BY DEF Min
  <1> DEFINE x == Min(S)
  <1>2. x \in Int /\ m \in Int /\ x <= m /\ m <= x
    BY <1>1
  <1> HIDE DEF x
  <1>3. x = m
    BY <1>2
  <1> QED
    BY <1>3 DEF x

\* What two sequences joined are.
JoinOf(S, p, q) ==
    /\ p \o q \in Seq(S) /\ Len(p \o q) = Len(p) + Len(q) /\ Len(p) \in Nat /\ Len(q) \in Nat
    /\ \A i \in 1..Len(p) : (p \o q)[i] = p[i]
    /\ \A i \in 1..Len(q) : (p \o q)[Len(p) + i] = q[i]

\* The lengths add up, and each part is found at its place.
LEMMA Joined == \A S : \A p, q \in Seq(S) : JoinOf(S, p, q)
  <1> SUFFICES ASSUME NEW S, NEW p \in Seq(S), NEW q \in Seq(S) PROVE JoinOf(S, p, q)
    OBVIOUS
  <1> QED
    BY DEF JoinOf

\* A field is split where it was joined, if its name has no '=' and its value
\* does not end in a blank.
LEMMA PairFacts ==
    ASSUME NEW S, Equals \in S, NEW k \in Seq(S), NEW v \in Seq(S),
           \A i \in 1..Len(k) : k[i] # Equals, v # <<>> => v[Len(v)] # Blank
    PROVE  LET s == k \o <<Equals>> \o v
           IN  trim_end(s) = s /\ split_field(s) = <<k, v>> /\ Equals \in Range(s)
  <1> DEFINE e == <<Equals>>
             ke == k \o e
             s == ke \o v
  <1>1. k \in Seq(S) /\ v \in Seq(S) /\ e \in Seq(S) /\ Len(e) = 1 /\ e[1] = Equals
    OBVIOUS
  <1>2. /\ ke \in Seq(S) /\ Len(ke) = Len(k) + 1 /\ Len(k) \in Nat
        /\ (\A i \in 1..Len(k) : ke[i] = k[i]) /\ ke[Len(k) + 1] = Equals
    <2>1. /\ k \o e \in Seq(S) /\ Len(k \o e) = Len(k) + Len(e) /\ Len(k) \in Nat
          /\ \A i \in 1..Len(k) : (k \o e)[i] = k[i]
          /\ \A i \in 1..Len(e) : (k \o e)[Len(k) + i] = e[i]
      <3> HIDE DEF e
      <3>1. k \in Seq(S) /\ e \in Seq(S)
        BY <1>1
      <3>2. JoinOf(S, k, e)
        BY <3>1, Joined
      <3> QED
        BY <3>2 DEF JoinOf
    <2>2. 1 \in 1..Len(e)
      BY <1>1
    <2>3. (k \o e)[Len(k) + 1] = e[1]
      BY <2>1, <2>2
    <2> QED
      BY <1>1, <2>1, <2>3
  <1> HIDE DEF e, ke
  <1>3. /\ s \in Seq(S) /\ Len(s) = Len(k) + 1 + Len(v) /\ Len(v) \in Nat
        /\ \A i \in 1..(Len(k) + 1) : s[i] = ke[i]
        /\ \A i \in 1..Len(v) : s[Len(k) + 1 + i] = v[i]
    <2>1. /\ ke \o v \in Seq(S) /\ Len(ke \o v) = Len(ke) + Len(v) /\ Len(ke) \in Nat /\ Len(v) \in Nat
          /\ \A i \in 1..Len(ke) : (ke \o v)[i] = ke[i]
          /\ \A i \in 1..Len(v) : (ke \o v)[Len(ke) + i] = v[i]
      <3>1. JoinOf(S, ke, v)
        BY <1>1, <1>2, Joined
      <3> QED
        BY <3>1 DEF JoinOf
    <2> QED
      BY <1>2, <2>1
  <1>4. /\ (\A i \in 1..Len(k) : s[i] = k[i]) /\ s[Len(k) + 1] = Equals
        /\ DOMAIN s = 1..Len(s) /\ DOMAIN k = 1..Len(k) /\ DOMAIN v = 1..Len(v)
    BY <1>1, <1>2, <1>3
  <1> HIDE DEF s
  <1>5. trim_end(s) = s
    <2> DEFINE T == {0} \cup {i \in DOMAIN s : s[i] # Blank}
    <2>1. s[Len(s)] # Blank /\ Len(s) \in DOMAIN s
      <3>1. CASE v = <<>>
        <4>1. Len(v) = 0 /\ Equals # Blank
          BY <3>1 DEF Equals, Blank
        <4> QED
          BY <1>2, <1>3, <1>4, <4>1
      <3>2. CASE v # <<>>
        <4>1. Len(v) \in 1..Len(v) /\ Len(s) \in DOMAIN s
          BY <1>1, <1>2, <1>3, <1>4, <3>2
        <4>2. s[Len(k) + 1 + Len(v)] = v[Len(v)]
          BY <1>3, <4>1
        <4> QED
          BY <1>3, <3>2, <4>1, <4>2
      <3> QED
        BY <3>1, <3>2
    <2>2. Max(T) = Len(s)
      <3>1. T \in SUBSET Int /\ Len(s) \in T /\ \A y \in T : Len(s) >= y
        BY <1>2, <1>3, <1>4, <2>1
      <3> HIDE DEF T
      <3> QED
        BY <3>1, MaxIs
    <2>3. trim_end(s) = SubSeq(s, 1, Len(s))
      BY <2>2 DEF trim_end
    <2> QED
      BY <1>3, <2>3
  <1>6. split_field(s) = <<k, v>>
    <2> DEFINE T == {i \in DOMAIN s : s[i] = Equals}
    <2>1. FirstEquals(s) = Len(k) + 1
      <3>1. \A i \in 1..Len(k) : s[i] # Equals
        BY <1>4 DEF Range
      <3>2. T \in SUBSET Int /\ Len(k) + 1 \in T /\ \A y \in T : Len(k) + 1 <= y
        BY <1>2, <1>3, <1>4, <3>1
      <3> HIDE DEF T
      <3>3. Min(T) = Len(k) + 1
        BY <3>2, MinIs
      <3> QED
        BY <3>3 DEF FirstEquals, T
    <2>2. SubSeq(s, 1, Len(k)) = k
      <3>1. /\ SubSeq(s, 1, Len(k)) \in Seq(S) /\ Len(SubSeq(s, 1, Len(k))) = Len(k)
            /\ \A i \in 1..Len(k) : SubSeq(s, 1, Len(k))[i] = s[i]
        BY <1>2, <1>3
      <3> QED
        BY <1>1, <1>4, <3>1
    <2>3. SubSeq(s, Len(k) + 2, Len(s)) = v
      <3> DEFINE u == SubSeq(s, Len(k) + 2, Len(s))
      <3>1. /\ u \in Seq(S) /\ Len(u) = Len(v)
            /\ \A i \in 1..Len(v) : u[i] = s[Len(k) + 1 + i]
        BY <1>2, <1>3
      <3> HIDE DEF u
      <3>2. \A i \in 1..Len(v) : u[i] = v[i]
        BY <1>3, <3>1
      <3>3. u = v
        BY <1>1, <3>1, <3>2
      <3> QED
        BY <3>3 DEF u
    <2>4. FirstEquals(s) - 1 = Len(k) /\ FirstEquals(s) + 1 = Len(k) + 2
      BY <1>2, <2>1
    <2> QED
      BY <2>2, <2>3, <2>4 DEF split_field, FieldOf
  <1>7. Equals \in Range(s)
    BY <1>2, <1>3, <1>4 DEF Range
  <1> QED
    BY <1>5, <1>6, <1>7 DEF s, ke, e

\* SetToSeq lists each element of a finite set once.
LEMMA ListFacts ==
    ASSUME NEW S, IsFiniteSet(S)
    PROVE  /\ Cardinality(S) \in Nat /\ SetToSeq(S) \in [1..Cardinality(S) -> S]
           /\ (\A i, k \in 1..Cardinality(S) : SetToSeq(S)[i] = SetToSeq(S)[k] => i = k)
           /\ \A x \in S : \E i \in 1..Cardinality(S) : SetToSeq(S)[i] = x
  <1> DEFINE D == 1..Cardinality(S)
             f == SetToSeq(S)
  <1>1. Cardinality(S) \in Nat
    BY FS_CardinalityType
  <1>2. IsFiniteSet(D) /\ Cardinality(D) = Cardinality(S)
    BY <1>1, FS_Interval
  <1>3. ExistsBijection(D, S)
    <2> HIDE DEF D
    <2> QED
      BY <1>2, FS_SameCardinalityBij
  <1>4. PICK g : g \in Bijection(D, S)
    BY <1>3 DEF ExistsBijection
  <1>5. g \in [D -> S] /\ IsInjective(g)
    BY <1>4 DEF Bijection, Injection, IsInjective
  <1>6. f \in [D -> S] /\ IsInjective(f)
    BY <1>5 DEF SetToSeq
  <1> HIDE DEF D, f
  <1>7. f \in Injection(D, S)
    BY <1>6 DEF Injection, IsInjective
  <1>8. f \in Surjection(D, S)
    BY <1>2, <1>7, FS_Injection
  <1>9. \A i, k \in D : f[i] = f[k] => i = k
    BY <1>6 DEF IsInjective
  <1>10. \A x \in S : \E i \in D : f[i] = x
    BY <1>8 DEF Surjection
  <1> QED
    BY <1>1, <1>6, <1>9, <1>10 DEF D, f

\* The k-th line of an interval of lines.
LEMMA NthFacts ==
    ASSUME NEW b \in Nat, NEW n \in Nat
    PROVE  Cardinality((b + 1)..(b + n)) = n /\ \A k \in 1..n : Nth((b + 1)..(b + n), k) = b + k
  <1> DEFINE I == (b + 1)..(b + n)
  <1>1. Cardinality(I) = n
    BY FS_Interval
  <1>2. ASSUME NEW i \in I PROVE Cardinality({m \in I : m <= i}) = i - b
    <2>1. {m \in I : m <= i} = (b + 1)..i /\ i \in Int /\ b + 1 \in Int /\ ~(b + 1 > i)
      OBVIOUS
    <2>2. Cardinality((b + 1)..i) = i - (b + 1) + 1
      BY <2>1, FS_Interval
    <2>3. i - (b + 1) + 1 = i - b
      BY <2>1
    <2> HIDE DEF I
    <2> QED
      BY <2>1, <2>2, <2>3
  <1>3. ASSUME NEW k \in 1..n PROVE Nth(I, k) = b + k
    <2>1. b + k \in I /\ Cardinality({m \in I : m <= b + k}) = k
      BY <1>2
    <2> HIDE DEF I
    <2>2. Nth(I, k) \in I /\ Cardinality({m \in I : m <= Nth(I, k)}) = k
      BY <2>1 DEF Nth
    <2> DEFINE x == Nth(I, k)
    <2>3. x \in Int /\ x - b = k
      BY <1>2, <2>2 DEF I
    <2> HIDE DEF x
    <2>4. x = b + k
      BY <2>3
    <2> QED
      BY <2>4 DEF x
  <1> QED
    BY <1>1, <1>3

\* A sequence over a set is one over every larger set.
LEMMA Wider == \A S, T : S \subseteq T => \A p \in Seq(S) : p \in Seq(T)
  OBVIOUS

Pair(fields, i) == LET field == SetToSeq(fields)[i] IN field[1] \o <<Equals>> \o field[2]

\* The fields that come back from the wire: a name with '=' is split too early,
\* and a blank at the end of a value is trimmed.
Recoverable(fields) ==
    \A f \in fields : Equals \notin Range(f[1]) /\ (f[2] # <<>> => f[2][Len(f[2])] # Blank)

\* A field that is Recoverable is read by decode as encode wrote it.
LEMMA FieldPair ==
    ASSUME NEW fields \in JobFields, Recoverable(fields), NEW i \in 1..Cardinality(fields)
    PROVE  split_field(trim_end(Pair(fields, i))) = SetToSeq(fields)[i] /\ Equals \in Range(Pair(fields, i))
  <1> DEFINE f == SetToSeq(fields)[i]
             k == f[1]
             v == f[2]
             S == Range(k) \cup Range(v) \cup {Equals}
  <1>1. f \in fields
    BY FieldsAssumption, ListFacts
  <1>2. f = <<k, v>> /\ k \in Seq(Range(k)) /\ v \in Seq(Range(v))
    BY <1>1, FieldsAssumption
  <1>3. Equals \notin Range(k) /\ (v # <<>> => v[Len(v)] # Blank)
    BY <1>1 DEF Recoverable
  <1>4. Pair(fields, i) = k \o <<Equals>> \o v
    BY DEF Pair
  <1> HIDE DEF f, k, v
  <1>5. Range(k) \subseteq S /\ Range(v) \subseteq S /\ Equals \in S
    OBVIOUS
  <1> HIDE DEF S
  <1>6. k \in Seq(S) /\ v \in Seq(S)
    BY <1>2, <1>5, Wider
  <1>7. \A x \in 1..Len(k) : k[x] # Equals
    BY <1>3, <1>6 DEF Range
  <1>8. LET s == k \o <<Equals>> \o v
        IN  trim_end(s) = s /\ split_field(s) = <<k, v>> /\ Equals \in Range(s)
    BY <1>3, <1>5, <1>6, <1>7, PairFacts
  <1> QED
    BY <1>2, <1>4, <1>8 DEF f

\* The lines of a spec.
SpecLines(text, a, fields, placement, n, d) ==
    /\ DOMAIN text = 1..(n + d + 4) /\ Len(text) = n + d + 4
    /\ text[1] = Line("zkie-worker-spec", Token(1)) /\ text[2] = Line("attempt_id", Token(a))
    /\ \A i \in 1..n : text[2 + i] = Line("job_field", Pair(fields, i))
    /\ text[n + 3] = Line("output_dir", Token(placement[1])) /\ text[n + 4] = Line("rayon_threads", Token(placement[2]))
    /\ \A i \in 1..d : text[n + 4 + i] = Line("cuda_device", Token(placement[3][i]))

\* encode writes these lines in this order, for every number of fields and devices.
LEMMA SpecShape ==
    ASSUME NEW a, NEW fields \in JobFields, NEW placement \in Placements
    PROVE  SpecLines(encode_spec(worker_spec(a, fields, placement)), a, fields, placement,
                     Cardinality(fields), Len(placement[3]))
  <1> DEFINE n == Cardinality(fields)
             devices == placement[3]
             d == Len(devices)
             p == <<Line("zkie-worker-spec", Token(1)), Line("attempt_id", Token(a))>>
             q == [i \in 1..n |-> Line("job_field", Pair(fields, i))]
             r == <<Line("output_dir", Token(placement[1])), Line("rayon_threads", Token(placement[2]))>>
             t == [i \in 1..d |-> Line("cuda_device", Token(devices[i]))]
             S == {p[1], p[2], r[1], r[2]} \cup {q[i] : i \in 1..n} \cup {t[i] : i \in 1..d}
             pq == p \o q
             pqr == pq \o r
             text == pqr \o t
  <1>1. n \in Nat /\ d \in Nat /\ DOMAIN devices = 1..d
    <2>1. IsFiniteSet(fields) /\ devices \in Seq(Range(devices))
      BY FieldsAssumption, PlacementsAssumption
    <2> QED
      BY <2>1, FS_CardinalityType
  <1>2. encode_spec(worker_spec(a, fields, placement)) = text
    BY <1>1 DEF encode_spec, worker_spec, Pair
  <1>3. Len(p) = 2 /\ Len(r) = 2 /\ p \in Seq(S) /\ r \in Seq(S)
    <2> HIDE DEF q, t
    <2>1. p = <<p[1], p[2]>> /\ r = <<r[1], r[2]>> /\ Len(p) = 2 /\ Len(r) = 2
      OBVIOUS
    <2>2. p[1] \in S /\ p[2] \in S /\ r[1] \in S /\ r[2] \in S
      OBVIOUS
    <2> HIDE DEF p, r, S
    <2>3. \A x, y \in S : <<x, y>> \in Seq(S)
      OBVIOUS
    <2>4. <<p[1], p[2]>> \in Seq(S) /\ <<r[1], r[2]>> \in Seq(S)
      BY <2>2, <2>3
    <2> QED
      BY <2>1, <2>4, Zenon
  <1>4. /\ q \in Seq(S) /\ Len(q) = n /\ (\A i \in 1..n : q[i] = Line("job_field", Pair(fields, i)))
        /\ t \in Seq(S) /\ Len(t) = d /\ (\A i \in 1..d : t[i] = Line("cuda_device", Token(devices[i])))
    <2>1. /\ \A i \in 1..n : q[i] = Line("job_field", Pair(fields, i))
          /\ \A i \in 1..d : t[i] = Line("cuda_device", Token(devices[i]))
      OBVIOUS
    <2>2. DOMAIN q = 1..n /\ DOMAIN t = 1..d /\ q = [i \in 1..n |-> q[i]] /\ t = [i \in 1..d |-> t[i]]
      OBVIOUS
    <2> HIDE DEF p, q, r, t
    <2>3. (\A i \in 1..n : q[i] \in S) /\ (\A i \in 1..d : t[i] \in S)
      OBVIOUS
    <2> HIDE DEF n, d, S
    <2>4. q \in [1..n -> S] /\ t \in [1..d -> S]
      BY <2>2, <2>3
    <2>5. q \in Seq(S) /\ t \in Seq(S) /\ Len(q) = n /\ Len(t) = d
      BY <1>1, <2>4
    <2> QED
      BY <2>1, <2>5
  <1>5. /\ p[1] = Line("zkie-worker-spec", Token(1)) /\ p[2] = Line("attempt_id", Token(a))
        /\ r[1] = Line("output_dir", Token(placement[1])) /\ r[2] = Line("rayon_threads", Token(placement[2]))
    OBVIOUS
  <1> HIDE DEF n, d, devices, p, q, r, t, S, pq, pqr
  <1>6. JoinOf(S, p, q)
    BY <1>3, <1>4, Joined
  <1>7. /\ pq \in Seq(S) /\ Len(pq) = n + 2 /\ pq[1] = p[1] /\ pq[2] = p[2]
        /\ \A i \in 1..n : pq[2 + i] = q[i]
    BY <1>1, <1>3, <1>4, <1>6 DEF JoinOf, pq
  <1>8. JoinOf(S, pq, r)
    BY <1>3, <1>7, Joined
  <1>9. /\ pqr \in Seq(S) /\ Len(pqr) = n + 4 /\ \A i \in 1..(n + 2) : pqr[i] = pq[i]
        /\ pqr[n + 3] = r[1] /\ pqr[n + 4] = r[2]
    <2>1. /\ pqr \in Seq(S) /\ Len(pqr) = n + 4 /\ (\A i \in 1..(n + 2) : pqr[i] = pq[i])
          /\ \A i \in 1..2 : pqr[n + 2 + i] = r[i]
      BY <1>1, <1>3, <1>7, <1>8 DEF JoinOf, pqr
    <2>2. pqr[n + 2 + 1] = r[1] /\ pqr[n + 2 + 2] = r[2] /\ n + 2 + 1 = n + 3 /\ n + 2 + 2 = n + 4
      BY <1>1, <2>1
    <2> QED
      BY <2>1, <2>2
  <1>10. JoinOf(S, pqr, t)
    BY <1>4, <1>9, Joined
  <1>11. /\ text \in Seq(S) /\ Len(text) = n + 4 + d /\ (\A i \in 1..(n + 4) : text[i] = pqr[i])
         /\ \A i \in 1..d : text[n + 4 + i] = t[i]
    BY <1>1, <1>4, <1>9, <1>10 DEF JoinOf
  <1> HIDE DEF text
  <1>12. DOMAIN text = 1..(n + d + 4) /\ Len(text) = n + d + 4
    BY <1>1, <1>11
  <1>13. text[1] = p[1] /\ text[2] = p[2] /\ text[n + 3] = r[1] /\ text[n + 4] = r[2]
    <2>1. 1 \in 1..(n + 2) /\ 2 \in 1..(n + 2) /\ 1 \in 1..(n + 4) /\ 2 \in 1..(n + 4) /\ n + 3 \in 1..(n + 4) /\ n + 4 \in 1..(n + 4)
      BY <1>1
    <2> QED
      BY <1>7, <1>9, <1>11, <2>1
  <1>14. \A i \in 1..n : text[2 + i] = q[i]
    <2>1. \A i \in 1..n : 2 + i \in 1..(n + 2) /\ 2 + i \in 1..(n + 4)
      BY <1>1
    <2> QED
      BY <1>7, <1>9, <1>11, <2>1
  <1>15. SpecLines(text, a, fields, placement, n, d)
    BY <1>4, <1>5, <1>11, <1>12, <1>13, <1>14 DEF SpecLines, devices
  <1> QED
    BY <1>2, <1>15 DEF n, d, devices

\* A line that alone has its key has the last value of it.
LEMMA OnlyLine ==
    ASSUME NEW text, NEW key, NEW i \in Nat, LinesOf(text, key) = {i}
    PROVE  LastValue(text, key) = text[i][2]
  <1>1. Max({i}) = i
    BY MaxIs
  <1> QED
    BY <1>1 DEF LastValue

\* decode gives back the spec that encode was given, fields and devices included.
LEMMA SpecRoundTrip ==
    ASSUME NEW a, NEW fields \in JobFields, NEW placement \in Placements, Recoverable(fields),
           Validate(worker_spec(a, fields, placement))
    PROVE  LET spec == worker_spec(a, fields, placement)
           IN  decode_spec(encode_spec(spec)) = [ok |-> TRUE, spec |-> spec]
  <1> DEFINE spec == worker_spec(a, fields, placement)
             text == encode_spec(spec)
             n == Cardinality(fields)
             devices == placement[3]
             d == Len(devices)
             list == SetToSeq(fields)
  <1>1. /\ IsFiniteSet(fields) /\ n \in Nat /\ list \in [1..n -> fields]
        /\ (\A i, k \in 1..n : list[i] = list[k] => i = k) /\ \A x \in fields : \E i \in 1..n : list[i] = x
    BY FieldsAssumption, ListFacts
  <1>2. SpecLines(text, a, fields, placement, n, d)
    BY SpecShape
  <1>3. /\ d \in Nat /\ DOMAIN devices = 1..d /\ devices = [i \in 1..d |-> devices[i]]
    <2>1. devices \in Seq(Range(devices))
      BY PlacementsAssumption
    <2> QED
      BY <2>1
  <1>4. spec = [version |-> 1, attempt |-> a, fields |-> fields,
                absolute |-> placement[1], threads |-> placement[2], devices |-> devices]
    BY DEF worker_spec
  <1> HIDE DEF spec, text, n, d, list, devices
  <1>5. /\ DOMAIN text = 1..(n + d + 4) /\ Len(text) = n + d + 4
        /\ text[1][1] = "zkie-worker-spec" /\ text[1][2] = Token(1)
        /\ text[2][1] = "attempt_id" /\ text[2][2] = Token(a)
        /\ (\A i \in 1..n : text[2 + i][1] = "job_field" /\ text[2 + i][2] = Pair(fields, i))
        /\ text[n + 3][1] = "output_dir" /\ text[n + 3][2] = Token(placement[1])
        /\ text[n + 4][1] = "rayon_threads" /\ text[n + 4][2] = Token(placement[2])
        /\ \A i \in 1..d : text[n + 4 + i][1] = "cuda_device" /\ text[n + 4 + i][2] = Token(devices[i])
    BY <1>2 DEF SpecLines, Line, devices
  <1>6. \A i \in DOMAIN text : \/ i = 1 \/ i = 2 \/ i = n + 3 \/ i = n + 4
                               \/ \E k \in 1..n : i = 2 + k
                               \/ \E k \in 1..d : i = n + 4 + k
    <2> SUFFICES ASSUME NEW i \in 1..(n + d + 4), i > 2, i # n + 3, i # n + 4
                 PROVE  (\E k \in 1..n : i = 2 + k) \/ (\E k \in 1..d : i = n + 4 + k)
      BY <1>5
    <2>1. CASE i <= n + 2
      <3>1. i - 2 \in 1..n /\ i = 2 + (i - 2)
        BY <1>1, <2>1
      <3> QED
        BY <3>1
    <2>2. CASE i > n + 4
      <3>1. i - (n + 4) \in 1..d /\ i = n + 4 + (i - (n + 4))
        BY <1>1, <1>3, <2>2
      <3> QED
        BY <3>1
    <2> QED
      BY <1>1, <2>1, <2>2
  <1>7. /\ LinesOf(text, "attempt_id") = {2} /\ LinesOf(text, "output_dir") = {n + 3}
        /\ LinesOf(text, "rayon_threads") = {n + 4}
    <2>1. 2 \in DOMAIN text /\ n + 3 \in DOMAIN text /\ n + 4 \in DOMAIN text
      BY <1>1, <1>3, <1>5
    <2>2. \A i \in DOMAIN text : /\ text[i][1] = "attempt_id" => i = 2
                                 /\ text[i][1] = "output_dir" => i = n + 3
                                 /\ text[i][1] = "rayon_threads" => i = n + 4
      BY <1>5, <1>6
    <2> QED
      BY <1>5, <2>1, <2>2 DEF LinesOf
  <1>8. LinesOf(text, "job_field") = {2 + k : k \in 1..n}
    <2>1. \A k \in 1..n : 2 + k \in DOMAIN text
      BY <1>1, <1>3, <1>5
    <2>2. \A i \in DOMAIN text : text[i][1] = "job_field" => \E k \in 1..n : i = 2 + k
      BY <1>5, <1>6
    <2> QED
      BY <1>5, <2>1, <2>2 DEF LinesOf
  <1>9. LinesOf(text, "cuda_device") = (n + 4 + 1)..(n + 4 + d)
    <2>1. \A k \in 1..d : n + 4 + k \in DOMAIN text
      BY <1>1, <1>3, <1>5
    <2>2. \A i \in DOMAIN text : text[i][1] = "cuda_device" => \E k \in 1..d : i = n + 4 + k
      BY <1>5, <1>6
    <2>3. LinesOf(text, "cuda_device") = {n + 4 + k : k \in 1..d}
      BY <1>5, <2>1, <2>2 DEF LinesOf
    <2>4. ASSUME NEW i \in (n + 4 + 1)..(n + 4 + d) PROVE i \in {n + 4 + k : k \in 1..d}
      <3>1. i - (n + 4) \in 1..d /\ i = n + 4 + (i - (n + 4))
        BY <1>1, <1>3
      <3> QED
        BY <3>1
    <2>5. \A k \in 1..d : n + 4 + k \in (n + 4 + 1)..(n + 4 + d)
      BY <1>1, <1>3
    <2> QED
      BY <2>3, <2>4, <2>5
  <1> DEFINE lines == LinesOf(text, "job_field")
             parsed == [i \in lines |-> split_field(trim_end(text[i][2]))]
             cuda == LinesOf(text, "cuda_device")
  <1>10. \A k \in 1..n : 2 + k \in lines /\ parsed[2 + k] = list[k] /\ Equals \in Range(text[2 + k][2])
    <2> SUFFICES ASSUME NEW k \in 1..n
                 PROVE  2 + k \in lines /\ parsed[2 + k] = list[k] /\ Equals \in Range(text[2 + k][2])
      OBVIOUS
    <2>1. 2 + k \in lines
      BY <1>8
    <2>2. text[2 + k][2] = Pair(fields, k)
      BY <1>5
    <2>3. split_field(trim_end(Pair(fields, k))) = list[k] /\ Equals \in Range(Pair(fields, k))
      BY FieldPair DEF n, list
    <2> QED
      BY <2>1, <2>2, <2>3
  <1>11. \A i \in lines : \E k \in 1..n : i = 2 + k
    BY <1>8
  <1> HIDE DEF lines, parsed
  <1>12. DOMAIN parsed = lines
    BY DEF parsed
  <1>13. WorkerJob(parsed) = fields /\ \A i \in lines : parsed[i] \in fields
    <2>0. ASSUME NEW i \in lines PROVE parsed[i] \in fields
      <3>1. PICK k \in 1..n : i = 2 + k
        BY <1>11
      <3>2. parsed[i] = list[k]
        BY <1>10, <3>1
      <3>3. list[k] \in fields
        BY <1>1, <3>1
      <3> QED
        BY <3>2, <3>3
    <2>1. ASSUME NEW i \in lines, NEW m \in lines, m > i PROVE parsed[m][1] # parsed[i][1]
      <3>1. PICK k \in 1..n : i = 2 + k
        BY <1>11
      <3>2. PICK j \in 1..n : m = 2 + j
        BY <1>11
      <3>3. parsed[i] = list[k] /\ parsed[m] = list[j] /\ k # j /\ list[k] \in fields /\ list[j] \in fields
        BY <1>1, <1>10, <2>1, <3>1, <3>2
      <3>4. list[j] # list[k]
        BY <1>1, <3>3
      <3> QED
        BY <3>3, <3>4, FieldsAssumption
    <2>2. WorkerJob(parsed) = {parsed[i] : i \in lines}
      BY <1>12, <2>1 DEF WorkerJob
    <2>3. {parsed[i] : i \in lines} = fields
      <3>1. \A i \in lines : parsed[i] \in fields
        BY <2>0
      <3>2. \A x \in fields : \E i \in lines : parsed[i] = x
        BY <1>1, <1>10
      <3> QED
        BY <3>1, <3>2
    <2> QED
      BY <2>0, <2>2, <2>3
  <1>14. [k \in 1..Cardinality(cuda) |-> text[Nth(cuda, k)][2][1]] = devices
    <2>1. Cardinality(cuda) = d /\ \A k \in 1..d : Nth(cuda, k) = n + 4 + k
      <3>1. n + 4 \in Nat
        BY <1>1
      <3> QED
        BY <1>3, <1>9, <3>1, NthFacts
    <2>2. \A k \in 1..d : text[Nth(cuda, k)][2][1] = devices[k]
      BY <1>5, <2>1 DEF Token
    <2> HIDE DEF cuda
    <2> QED
      BY <1>3, <2>1, <2>2
  <1>15. /\ LastValue(text, "attempt_id")[1] = a /\ LastValue(text, "output_dir")[1] = placement[1]
         /\ LastValue(text, "rayon_threads")[1] = placement[2]
    <2>1. /\ LastValue(text, "attempt_id") = text[2][2] /\ LastValue(text, "output_dir") = text[n + 3][2]
          /\ LastValue(text, "rayon_threads") = text[n + 4][2]
      <3>0. n + 3 \in Nat /\ n + 4 \in Nat /\ 2 \in Nat
        BY <1>1
      <3>1. LastValue(text, "attempt_id") = text[2][2]
        BY <1>7, <3>0, OnlyLine
      <3>2. LastValue(text, "output_dir") = text[n + 3][2]
        BY <1>7, <3>0, OnlyLine
      <3>3. LastValue(text, "rayon_threads") = text[n + 4][2]
        BY <1>7, <3>0, OnlyLine
      <3> QED
        BY <3>1, <3>2, <3>3
    <2> QED
      BY <1>5, <2>1 DEF Token
  <1> DEFINE decoded == [version |-> text[1][2][1],
                 attempt |-> LastValue(text, "attempt_id")[1],
                 fields |-> WorkerJob(parsed),
                 absolute |-> LastValue(text, "output_dir")[1],
                 threads |-> LastValue(text, "rayon_threads")[1],
                 devices |-> [k \in 1..Cardinality(cuda) |-> text[Nth(cuda, k)][2][1]]]
  <1>16. decoded = spec
    <2>1. text[1][2][1] = 1
      BY <1>5 DEF Token
    <2> HIDE DEF cuda
    <2> QED
      BY <1>4, <1>13, <1>14, <1>15, <2>1, Zenon
  <1> HIDE DEF decoded
  <1>17. Validate(decoded)
    BY <1>16 DEF spec
  <1>18. \A i \in 2..Len(text) : text[i][1] \in SpecKeys
    <2>1. \A i \in 2..Len(text) : i \in DOMAIN text /\ i # 1
      BY <1>1, <1>3, <1>5
    <2> QED
      BY <1>5, <1>6, <2>1 DEF SpecKeys
  <1>19. \A key \in {"attempt_id", "output_dir", "rayon_threads"} : LinesOf(text, key) # {}
    BY <1>7
  <1>20. \A i \in DOMAIN parsed : Equals \in Range(text[i][2])
    BY <1>10, <1>11, <1>12
  <1>21. \A i \in DOMAIN parsed : validate_token(parsed[i][1]) /\ validate_value(parsed[i][2])
    <2>1. \A i \in lines : parsed[i] \in fields
      BY <1>13
    <2> QED
      BY <1>12, <2>1, FieldsAssumption
  <1>22. text # <<>>
    BY <1>1, <1>3, <1>5
  <1>23. decode_spec(text) = [ok |-> TRUE, spec |-> decoded]
    BY <1>5, <1>17, <1>18, <1>19, <1>20, <1>21, <1>22 DEF decode_spec, decoded, parsed, lines, cuda
  <1> QED
    BY <1>16, <1>23 DEF text, spec

\* What a worker can report.
Results == [attempt : Attempts, status : {"succeeded", "failed"}, peak : Peaks]

\* A whole result is read as it was written.
LEMMA ResultRoundTrip ==
    ASSUME NEW r \in Results
    PROVE  decode_result(encode_result(r)) = [ok |-> TRUE, result |-> r]
  <1> DEFINE text == encode_result(r)
  <1>1. r.peak # <<>> /\ r = [attempt |-> r.attempt, status |-> r.status, peak |-> r.peak]
        /\ r.status \in {"succeeded", "failed"}
    BY PeaksAssumption DEF Results
  <1>2. /\ DOMAIN text = 1..4 /\ Len(text) = 4 /\ text # <<>>
        /\ text[1] = Line("zkie-worker-result", Token(1)) /\ text[1][1] = "zkie-worker-result"
        /\ text[2][1] = "attempt_id" /\ text[2][2] = Token(r.attempt)
        /\ text[3][1] = "status" /\ text[3][2] = Token(r.status)
        /\ text[4][1] = "peak_resident_bytes" /\ text[4][2] = r.peak
    BY DEF encode_result, Line
  <1> HIDE DEF text
  <1>3. /\ LinesOf(text, "attempt_id") = {2} /\ LinesOf(text, "status") = {3}
        /\ LinesOf(text, "peak_resident_bytes") = {4}
    BY <1>2 DEF LinesOf
  <1>4. /\ LastValue(text, "attempt_id") = Token(r.attempt) /\ LastValue(text, "status") = Token(r.status)
        /\ LastValue(text, "peak_resident_bytes") = r.peak
    <2>1. LastValue(text, "attempt_id") = text[2][2]
      BY <1>3, OnlyLine
    <2>2. LastValue(text, "status") = text[3][2]
      BY <1>3, OnlyLine
    <2>3. LastValue(text, "peak_resident_bytes") = text[4][2]
      BY <1>3, OnlyLine
    <2> QED
      BY <1>2, <2>1, <2>2, <2>3
  <1>5. Token(r.attempt) # <<>> /\ Token(r.attempt)[1] = r.attempt /\ Token(r.status) # <<>> /\ Token(r.status)[1] = r.status
    BY DEF Token
  <1>6. \A i \in 2..Len(text) : text[i][1] \in ResultKeys
    BY <1>2 DEF ResultKeys
  <1>7. \A key \in ResultKeys : LinesOf(text, key) # {} /\ LastValue(text, key) # <<>>
    BY <1>1, <1>3, <1>4, <1>5 DEF ResultKeys
  <1>8. decode_result(text) = [ok |-> TRUE,
          result |-> [attempt |-> LastValue(text, "attempt_id")[1],
                      status |-> LastValue(text, "status")[1],
                      peak |-> LastValue(text, "peak_resident_bytes")]]
    BY <1>1, <1>2, <1>4, <1>5, <1>6, <1>7 DEF decode_result
  <1> QED
    BY <1>1, <1>4, <1>5, <1>8 DEF text

\* The first lines of a text are those of the text.
LEMMA FrontFacts ==
    \A S : \A s \in Seq(S) : \A m \in Nat : m <= Len(s) =>
        /\ SubSeq(s, 1, m) \in Seq(S) /\ Len(SubSeq(s, 1, m)) = m
        /\ \A i \in 1..m : SubSeq(s, 1, m)[i] = s[i]
  <1> SUFFICES ASSUME NEW S, NEW s \in Seq(S), NEW m \in Nat, m <= Len(s)
               PROVE  /\ SubSeq(s, 1, m) \in Seq(S) /\ Len(SubSeq(s, 1, m)) = m
                      /\ \A i \in 1..m : SubSeq(s, 1, m)[i] = s[i]
    OBVIOUS
  <1>1. Len(s) \in Nat /\ 1 \in Int /\ m \in Int
    OBVIOUS
  <1> QED
    BY <1>1

\* What is left of a result that was cut off names its attempt or is malformed.
LEMMA TruncatedResult ==
    ASSUME NEW r \in Results, NEW text \in Truncations(encode_result(r)), decode_result(text).ok
    PROVE  decode_result(text).result.attempt = r.attempt
  <1> DEFINE whole == encode_result(r)
             S == {whole[1], whole[2], whole[3], whole[4]}
  <1>1. /\ whole \in Seq(S) /\ Len(whole) = 4 /\ whole[1][1] = "zkie-worker-result"
        /\ whole[2][1] = "attempt_id" /\ whole[2][2] = Token(r.attempt)
        /\ whole[3][1] = "status" /\ whole[4][1] = "peak_resident_bytes"
    <2>1. /\ Len(whole) = 4 /\ whole[1][1] = "zkie-worker-result"
          /\ whole[2][1] = "attempt_id" /\ whole[2][2] = Token(r.attempt)
          /\ whole[3][1] = "status" /\ whole[4][1] = "peak_resident_bytes"
      BY DEF encode_result, Line
    <2>2. whole = <<whole[1], whole[2], whole[3], whole[4]>>
      BY DEF encode_result
    <2> HIDE DEF whole
    <2>3. <<whole[1], whole[2], whole[3], whole[4]>> \in Seq(S)
      OBVIOUS
    <2>4. whole \in Seq(S)
      BY <2>2, <2>3, Zenon
    <2> QED
      BY <2>1, <2>4
  <1>2. /\ text # <<>> /\ LinesOf(text, "peak_resident_bytes") # {}
        /\ decode_result(text).result.attempt = LastValue(text, "attempt_id")[1]
    BY DEF decode_result, Malformed, ResultKeys
  <1> HIDE DEF whole, S
  <1>3. PICK n \in 1..4 : \E k \in 0..Len(whole[n][2]) :
            text = Append(SubSeq(whole, 1, n - 1), Line(whole[n][1], SubSeq(whole[n][2], 1, k)))
    BY <1>1, <1>2 DEF Truncations, whole
  <1>3a. PICK k \in 0..Len(whole[n][2]) :
            text = Append(SubSeq(whole, 1, n - 1), Line(whole[n][1], SubSeq(whole[n][2], 1, k)))
    BY <1>3
  <1> DEFINE cut == Line(whole[n][1], SubSeq(whole[n][2], 1, k))
             front == SubSeq(whole, 1, n - 1)
  <1>4. front \in Seq(S) /\ Len(front) = n - 1 /\ \A i \in 1..(n - 1) : front[i] = whole[i]
    <2> DEFINE m == n - 1
    <2>1. m \in Nat /\ m <= 4
      OBVIOUS
    <2> HIDE DEF m
    <2>2. /\ SubSeq(whole, 1, m) \in Seq(S) /\ Len(SubSeq(whole, 1, m)) = m
          /\ \A i \in 1..m : SubSeq(whole, 1, m)[i] = whole[i]
      BY <1>1, <2>1, FrontFacts
    <2> QED
      BY <2>2 DEF m
  <1>5. cut[1] = whole[n][1]
    BY DEF Line
  <1> HIDE DEF front, cut
  <1>6. /\ DOMAIN text = 1..n /\ (\A i \in 1..(n - 1) : text[i] = whole[i]) /\ text[n] = cut
    <2>1. text = Append(front, cut)
      BY <1>3a DEF front, cut
    <2>2. front \in Seq(S \cup {cut})
      BY <1>4, Wider
    <2> HIDE DEF whole
    <2>3. DOMAIN Append(front, cut) = 1..(Len(front) + 1) /\ (\A i \in 1..Len(front) : Append(front, cut)[i] = front[i])
          /\ Append(front, cut)[Len(front) + 1] = cut
      BY <2>2
    <2> QED
      BY <1>4, <2>1, <2>3
  <1>7. \A i \in 1..n : text[i][1] = whole[i][1]
    BY <1>5, <1>6
  <1>8. n = 4
    <2>1. PICK i \in 1..n : text[i][1] = "peak_resident_bytes"
      BY <1>2, <1>6 DEF LinesOf
    <2> QED
      BY <1>1, <1>7, <2>1
  <1>9. LinesOf(text, "attempt_id") = {2}
    BY <1>1, <1>6, <1>7, <1>8 DEF LinesOf
  <1>10. LastValue(text, "attempt_id") = text[2][2]
    BY <1>9, OnlyLine
  <1>11. text[2][2] = Token(r.attempt)
    BY <1>1, <1>6, <1>8
  <1> QED
    BY <1>2, <1>10, <1>11 DEF Token

-----------------------------------------------------------------------------
(* The protocol: whoever dies, and whoever else writes the result file. *)

\* What a launcher can send, and where a worker can be.
Specs == {worker_spec(a, fields, placement) : a \in Attempts, fields \in JobFields, placement \in Placements}
Stages == {"none", "read", "run", "write", "fill", "exit 0", "exit 1"}

\* The spec of attempt a as it was sent.
Sent(a, spec) == spec \in launched /\ spec.attempt = a /\ spec_file[a] = encode_spec(spec)

\* The file of the results is the one of attempt b: whole if b ended well.
FileOf(b) ==
    LET result == worker[b].result IN
    /\ result \in Results /\ result.attempt = b
    /\ \/ worker[b].pc \in {"fill", "exit 0", "exit 1"} /\ result_file = encode_result(result)
       \/ worker[b].pc \in {"fill", "exit 1"} /\ result_file \in Truncations(encode_result(result))

\* The types, and what the histories hold.
ProtocolTypes ==
    /\ launcher \in [pc : {"idle", "wait"}, attempt : Nat]
    /\ DOMAIN spec_file = Attempts
    /\ worker \in [Attempts -> [pc : Stages, spec : Specs \cup {NoSpec}, result : Results \cup {NoResult}]]
    /\ launched \subseteq {spec \in Specs : Validate(spec)}
    /\ produced \subseteq Results
    /\ DOMAIN returned = Attempts

\* Each worker has the spec of its attempt, and a result for it.
WorkersInform ==
    \A a \in Attempts :
        /\ worker[a].spec \in launched \cup {NoSpec}
        /\ worker[a].pc # "none" => \E spec \in Specs : Sent(a, spec)
        /\ worker[a].pc = "run" => worker[a].spec.attempt = a
        /\ worker[a].pc \in {"write", "fill", "exit 0"} =>
            worker[a].result \in Results /\ worker[a].result.attempt = a
        /\ worker[a].pc = "exit 0" => worker[a].result \in produced
        /\ a > launcher.attempt => worker[a].pc = "none"

\* The result file is empty or of one attempt.
FileOwned == result_file = <<>> \/ \E b \in Attempts : FileOf(b)

\* What launch has returned.
ReturnsOwned ==
    \A a \in Attempts :
        \/ returned[a] \in {NoResult, LaunchError}
        \/ returned[a] \in produced /\ returned[a].attempt = a

\* The launcher waits for a worker it has started.
LauncherWaits == launcher.pc = "wait" => launcher.attempt \in Attempts /\ worker[launcher.attempt].pc # "none"

ProtocolInv == ProtocolTypes /\ WorkersInform /\ FileOwned /\ ReturnsOwned /\ LauncherWaits

\* Each spec that validates is decoded from what encode wrote of it.
LEMMA SentIsRead ==
    ASSUME \A fields \in JobFields : Recoverable(fields), NEW spec \in Specs, Validate(spec)
    PROVE  decode_spec(encode_spec(spec)) = [ok |-> TRUE, spec |-> spec]
  <1>1. PICK a \in Attempts, fields \in JobFields, placement \in Placements :
            spec = worker_spec(a, fields, placement)
    BY DEF Specs
  <1> QED
    BY <1>1, SpecRoundTrip

\* A worker that stays as it was keeps its spec, its result and its file.
LEMMA WorkerKept ==
    ASSUME WorkersInform, NEW a \in Attempts, worker'[a] = worker[a], spec_file'[a] = spec_file[a],
           launched \subseteq launched', produced \subseteq produced',
           a > launcher'.attempt => a > launcher.attempt
    PROVE  /\ worker'[a].spec \in launched' \cup {NoSpec}
           /\ worker'[a].pc # "none" => \E spec \in Specs : Sent(a, spec)'
           /\ worker'[a].pc = "run" => worker'[a].spec.attempt = a
           /\ worker'[a].pc \in {"write", "fill", "exit 0"} =>
                worker'[a].result \in Results /\ worker'[a].result.attempt = a
           /\ worker'[a].pc = "exit 0" => worker'[a].result \in produced'
           /\ a > launcher'.attempt => worker'[a].pc = "none"
  <1>1. \A spec \in Specs : Sent(a, spec) => Sent(a, spec)'
    BY DEF Sent
  <1> QED
    BY <1>1 DEF WorkersInform

\* Before the first launch nothing is written and no worker runs.
LEMMA ProtocolStart == ASSUME WorkerInit PROVE ProtocolInv
  <1>1. ProtocolTypes
    <2>1. worker \in [Attempts -> [pc : Stages, spec : Specs \cup {NoSpec}, result : Results \cup {NoResult}]]
      BY DEF WorkerInit, Stages
    <2> QED
      BY <2>1 DEF ProtocolTypes, WorkerInit
  <1>2. WorkersInform
    BY DEF WorkersInform, WorkerInit
  <1> QED
    BY <1>1, <1>2 DEF ProtocolInv, FileOwned, ReturnsOwned, LauncherWaits, WorkerInit

\* A step of the worker of attempt a keeps all but the owner of the file, which
\* depends on what the step writes.
LEMMA WorkerStep ==
    ASSUME ProtocolInv, NEW a \in Attempts,
           NEW w \in [pc : Stages \ {"none"}, spec : Specs \cup {NoSpec}, result : Results \cup {NoResult}],
           worker' = [worker EXCEPT ![a] = w], worker[a].pc # "none",
           UNCHANGED <<launcher, spec_file, launched, returned>>,
           produced \subseteq produced', produced' \subseteq Results,
           w.spec \in launched \cup {NoSpec}, w.pc = "run" => w.spec.attempt = a,
           w.pc \in {"write", "fill", "exit 0"} => w.result \in Results /\ w.result.attempt = a,
           w.pc = "exit 0" => w.result \in produced'
    PROVE  ProtocolTypes' /\ WorkersInform' /\ ReturnsOwned' /\ LauncherWaits'
  <1> USE DEF ProtocolInv
  <1>1. worker' \in [Attempts -> [pc : Stages, spec : Specs \cup {NoSpec}, result : Results \cup {NoResult}]]
        /\ worker'[a] = w /\ \A b \in Attempts : b # a => worker'[b] = worker[b]
    BY DEF ProtocolTypes
  <1>2. ProtocolTypes'
    BY <1>1 DEF ProtocolTypes
  <1>3. WorkersInform'
    <2> SUFFICES ASSUME NEW b \in Attempts
                 PROVE  /\ worker'[b].spec \in launched' \cup {NoSpec}
                        /\ worker'[b].pc # "none" => \E spec \in Specs : Sent(b, spec)'
                        /\ worker'[b].pc = "run" => worker'[b].spec.attempt = b
                        /\ worker'[b].pc \in {"write", "fill", "exit 0"} =>
                                worker'[b].result \in Results /\ worker'[b].result.attempt = b
                        /\ worker'[b].pc = "exit 0" => worker'[b].result \in produced'
                        /\ b > launcher'.attempt => worker'[b].pc = "none"
      BY DEF WorkersInform, Sent
    <2>1. CASE b = a
      <3>1. (\E spec \in Specs : Sent(a, spec)) /\ ~(a > launcher.attempt)
        BY DEF WorkersInform
      <3>2. \A spec \in Specs : Sent(a, spec) => Sent(a, spec)'
        BY DEF Sent
      <3> QED
        BY <1>1, <2>1, <3>1, <3>2
    <2>2. CASE b # a
      BY <1>1, <2>2, WorkerKept
    <2> QED
      BY <2>1, <2>2
  <1>4. ReturnsOwned'
    BY DEF ReturnsOwned
  <1>5. LauncherWaits'
    BY <1>1 DEF LauncherWaits
  <1> QED
    BY <1>2, <1>3, <1>4, <1>5

\* A file keeps its owner while no other worker writes it.
LEMMA FileKept ==
    ASSUME FileOwned, NEW a \in Attempts, UNCHANGED result_file,
           \A b \in Attempts : b # a => worker'[b] = worker[b],
           \/ worker[a].pc \notin {"fill", "exit 0", "exit 1"}
           \/ worker[a].pc = "fill" /\ worker'[a].pc = "exit 1" /\ worker'[a].result = worker[a].result
    PROVE  FileOwned'
  <1>1. CASE result_file = <<>>
    BY <1>1 DEF FileOwned
  <1>2. ASSUME NEW b \in Attempts, FileOf(b) PROVE FileOf(b)'
    <2>1. CASE b = a
      BY <1>2, <2>1 DEF FileOf
    <2>2. CASE b # a
      BY <1>2, <2>2 DEF FileOf
    <2> QED
      BY <2>1, <2>2
  <1> QED
    BY <1>1, <1>2 DEF FileOwned

\* A worker reads the spec that was sent.
LEMMA ReadsStep ==
    ASSUME \A fields \in JobFields : Recoverable(fields), ProtocolInv, NEW a \in Attempts, worker_reads(a)
    PROVE  ProtocolInv'
  <1> DEFINE w == [worker[a] EXCEPT !.pc = "run", !.spec = decode_spec(spec_file[a]).spec]
  <1>1. PICK spec \in Specs : Sent(a, spec)
    BY DEF worker_reads, ProtocolInv, WorkersInform
  <1>2. decode_spec(spec_file[a]) = [ok |-> TRUE, spec |-> spec]
    <2>1. Validate(spec)
      BY <1>1 DEF Sent, ProtocolInv, ProtocolTypes
    <2> QED
      BY <1>1, <2>1, SentIsRead DEF Sent
  <1>3. worker[a] \in [pc : Stages, spec : Specs \cup {NoSpec}, result : Results \cup {NoResult}]
    BY DEF ProtocolInv, ProtocolTypes
  <1>4. w = [worker[a] EXCEPT !.pc = "run", !.spec = spec] /\ decode_spec(spec_file[a]).ok
    BY <1>2
  <1>5. worker' = [worker EXCEPT ![a] = w]
    BY <1>4 DEF worker_reads
  <1> HIDE DEF w
  <1>6. /\ w \in [pc : Stages \ {"none"}, spec : Specs \cup {NoSpec}, result : Results \cup {NoResult}]
        /\ w.pc = "run" /\ w.spec = spec
    BY <1>3, <1>4 DEF Stages
  <1>7. spec \in launched /\ spec.attempt = a
    BY <1>1 DEF Sent
  <1>8. worker[a].pc = "read" /\ UNCHANGED <<launcher, spec_file, result_file, launched, produced, returned>>
    BY DEF worker_reads
  <1>9. produced \subseteq Results
    BY DEF ProtocolInv, ProtocolTypes
  <1>10. ProtocolTypes' /\ WorkersInform' /\ ReturnsOwned' /\ LauncherWaits'
    BY <1>5, <1>6, <1>7, <1>8, <1>9, WorkerStep
  <1>11. FileOwned'
    BY <1>5, <1>8, FileKept DEF ProtocolInv, ProtocolTypes
  <1> QED
    BY <1>10, <1>11 DEF ProtocolInv

\* A worker runs its job and has a result for its attempt.
LEMMA RunsStep ==
    ASSUME ProtocolInv, NEW a \in Attempts, worker_runs(a)
    PROVE  ProtocolInv'
  <1>1. PICK status \in {"succeeded", "failed"}, peak \in Peaks :
            worker' = [worker EXCEPT ![a].pc = "write",
                                 ![a].result = [attempt |-> worker[a].spec.attempt,
                                                status |-> status, peak |-> peak]]
    BY DEF worker_runs
  <1>2. worker[a].spec.attempt = a
    BY DEF worker_runs, ProtocolInv, WorkersInform
  <1> DEFINE result == [attempt |-> a, status |-> status, peak |-> peak]
             w == [worker[a] EXCEPT !.pc = "write", !.result = result]
  <1>3. result \in Results /\ result.attempt = a
    BY DEF Results
  <1> HIDE DEF result
  <1>4. /\ worker \in [Attempts -> [pc : Stages, spec : Specs \cup {NoSpec}, result : Results \cup {NoResult}]]
        /\ worker[a].spec \in launched \cup {NoSpec}
    BY DEF ProtocolInv, ProtocolTypes, WorkersInform
  <1>5. worker' = [worker EXCEPT ![a].pc = "write", ![a].result = result]
    BY <1>1, <1>2 DEF result
  <1>6. worker' = [worker EXCEPT ![a] = w]
    BY <1>4, <1>5
  <1>7. /\ w \in [pc : Stages \ {"none"}, spec : Specs \cup {NoSpec}, result : Results \cup {NoResult}]
        /\ w.pc = "write" /\ w.spec = worker[a].spec /\ w.result = result
    BY <1>3, <1>4 DEF Stages
  <1> HIDE DEF w
  <1>8. worker[a].pc = "run" /\ UNCHANGED <<launcher, spec_file, result_file, launched, produced, returned>>
    BY DEF worker_runs
  <1>9. produced \subseteq Results
    BY DEF ProtocolInv, ProtocolTypes
  <1>10. ProtocolTypes' /\ WorkersInform' /\ ReturnsOwned' /\ LauncherWaits'
    BY <1>3, <1>4, <1>6, <1>7, <1>8, <1>9, WorkerStep
  <1>11. FileOwned'
    BY <1>4, <1>6, <1>8, FileKept DEF ProtocolInv
  <1> QED
    BY <1>10, <1>11 DEF ProtocolInv

\* A worker goes on to a later stage with the same spec and result.
LEMMA StageStep ==
    ASSUME ProtocolInv, NEW a \in Attempts, NEW next \in Stages \ {"none", "run", "write"},
           worker' = [worker EXCEPT ![a].pc = next],
           worker[a].pc # "none", next = "exit 1" \/ worker[a].pc \in {"write", "fill"},
           UNCHANGED <<launcher, spec_file, launched, returned>>,
           produced \subseteq produced', produced' \subseteq Results,
           next = "exit 0" => worker[a].result \in produced'
    PROVE  /\ ProtocolTypes' /\ WorkersInform' /\ ReturnsOwned' /\ LauncherWaits'
           /\ worker'[a].pc = next /\ worker'[a].result = worker[a].result
           /\ \A b \in Attempts : b # a => worker'[b] = worker[b]
  <1> DEFINE w == [worker[a] EXCEPT !.pc = next]
  <1>1. worker \in [Attempts -> [pc : Stages, spec : Specs \cup {NoSpec}, result : Results \cup {NoResult}]]
        /\ worker[a].spec \in launched \cup {NoSpec}
        /\ (worker[a].pc \in {"write", "fill"} => worker[a].result \in Results /\ worker[a].result.attempt = a)
    BY DEF ProtocolInv, ProtocolTypes, WorkersInform
  <1>2. worker' = [worker EXCEPT ![a] = w]
    BY <1>1
  <1>3. /\ w \in [pc : Stages \ {"none"}, spec : Specs \cup {NoSpec}, result : Results \cup {NoResult}]
        /\ w.pc = next /\ w.spec = worker[a].spec /\ w.result = worker[a].result
    BY <1>1
  <1> HIDE DEF w
  <1>4. worker'[a] = w /\ \A b \in Attempts : b # a => worker'[b] = worker[b]
    BY <1>1, <1>2
  <1>5. ProtocolTypes' /\ WorkersInform' /\ ReturnsOwned' /\ LauncherWaits'
    <2>1. w.pc \in {"write", "fill", "exit 0"} => w.result \in Results /\ w.result.attempt = a
      BY <1>1, <1>3
    <2>2. w.spec \in launched \cup {NoSpec} /\ w.pc # "run" /\ (w.pc = "exit 0" => w.result \in produced')
      BY <1>1, <1>3
    <2> QED
      BY <1>2, <1>3, <2>1, <2>2, WorkerStep
  <1> QED
    BY <1>3, <1>4, <1>5

\* A worker truncates the file, and has not filled it yet.
LEMMA TruncatesStep ==
    ASSUME ProtocolInv, NEW a \in Attempts, worker_truncates(a)
    PROVE  ProtocolInv'
  <1>1. produced \subseteq Results /\ worker[a].result \in Results /\ worker[a].result.attempt = a
    BY DEF worker_truncates, ProtocolInv, ProtocolTypes, WorkersInform
  <1>2. /\ ProtocolTypes' /\ WorkersInform' /\ ReturnsOwned' /\ LauncherWaits'
        /\ worker'[a].pc = "fill" /\ worker'[a].result = worker[a].result
    <2>1. "fill" \in Stages \ {"none", "run", "write"}
      BY DEF Stages
    <2> QED
      BY <1>1, <2>1, StageStep DEF worker_truncates
  <1>3. FileOf(a)'
    BY <1>1, <1>2 DEF FileOf, worker_truncates
  <1> QED
    BY <1>2, <1>3 DEF ProtocolInv, FileOwned

\* A worker has written its result in full.
LEMMA WritesStep ==
    ASSUME ProtocolInv, NEW a \in Attempts, worker_writes(a)
    PROVE  ProtocolInv'
  <1> DEFINE next == IF worker[a].result.status = "succeeded" THEN "exit 0" ELSE "exit 1"
  <1>1. produced \subseteq Results /\ worker[a].result \in Results /\ worker[a].result.attempt = a
    BY DEF worker_writes, ProtocolInv, ProtocolTypes, WorkersInform
  <1>2. next \in {"exit 0", "exit 1"} /\ next \in Stages \ {"none", "run", "write"}
    BY DEF Stages
  <1>3. worker' = [worker EXCEPT ![a].pc = next]
    BY DEF worker_writes
  <1> HIDE DEF next
  <1>4. /\ ProtocolTypes' /\ WorkersInform' /\ ReturnsOwned' /\ LauncherWaits'
        /\ worker'[a].pc = next /\ worker'[a].result = worker[a].result
    BY <1>1, <1>2, <1>3, StageStep DEF worker_writes
  <1>5. FileOf(a)'
    BY <1>1, <1>2, <1>4 DEF FileOf, worker_writes
  <1> QED
    BY <1>4, <1>5 DEF ProtocolInv, FileOwned

\* A worker is killed: its file stays as far as it was written.
LEMMA KilledStep ==
    ASSUME ProtocolInv, NEW a \in Attempts, worker_killed(a)
    PROVE  ProtocolInv'
  <1>1. produced \subseteq Results
    BY DEF ProtocolInv, ProtocolTypes
  <1>2. /\ ProtocolTypes' /\ WorkersInform' /\ ReturnsOwned' /\ LauncherWaits'
        /\ worker'[a].pc = "exit 1" /\ worker'[a].result = worker[a].result
        /\ \A b \in Attempts : b # a => worker'[b] = worker[b]
    <2>1. "exit 1" \in Stages \ {"none", "run", "write"}
      BY DEF Stages
    <2> QED
      BY <1>1, <2>1, StageStep DEF worker_killed
  <1>3. FileOwned'
    BY <1>2, FileKept DEF ProtocolInv, worker_killed
  <1> QED
    BY <1>2, <1>3 DEF ProtocolInv

\* launch: a new attempt, whose worker had not begun.
LEMMA LaunchStep == ASSUME ProtocolInv, launch PROVE ProtocolInv'
  <1>0. PICK a \in Attempts : a = launcher.attempt + 1
    BY DEF launch
  <1>1. /\ launcher.attempt \in Nat /\ a \in Nat /\ worker[a].pc = "none"
        /\ launcher \in [pc : {"idle", "wait"}, attempt : Nat]
        /\ worker \in [Attempts -> [pc : Stages, spec : Specs \cup {NoSpec}, result : Results \cup {NoResult}]]
    <2>1. launcher \in [pc : {"idle", "wait"}, attempt : Nat]
      BY DEF ProtocolInv, ProtocolTypes
    <2>2. launcher.attempt \in Nat /\ a > launcher.attempt /\ a \in Nat
      BY <1>0, <2>1
    <2> QED
      BY <2>1, <2>2 DEF ProtocolInv, ProtocolTypes, WorkersInform
  <1>2. PICK fields \in JobFields, placement \in Placements :
            LET spec == worker_spec(a, fields, placement)
            IN  IF Validate(spec)
                THEN /\ spec_file' = [spec_file EXCEPT ![a] = encode_spec(spec)]
                     /\ launched' = launched \cup {spec}
                     /\ worker' = [worker EXCEPT ![a].pc = "read"]
                     /\ launcher' = [pc |-> "wait", attempt |-> a]
                ELSE /\ launcher' = [launcher EXCEPT !.attempt = a]
                     /\ UNCHANGED <<spec_file, launched, worker>>
    BY <1>0 DEF launch
  <1>3. PICK spec \in Specs : spec = worker_spec(a, fields, placement) /\ spec.attempt = a
    BY <1>0, <1>2 DEF Specs, worker_spec
  <1>4. UNCHANGED <<result_file, produced, returned>>
    BY DEF launch
  <1>5. CASE Validate(spec)
    <2>1. /\ spec_file' = [spec_file EXCEPT ![a] = encode_spec(spec)]
          /\ launched' = launched \cup {spec}
          /\ worker' = [worker EXCEPT ![a].pc = "read"]
          /\ launcher' = [pc |-> "wait", attempt |-> a]
      BY <1>2, <1>3, <1>5
    <2>2. a \in Nat /\ launcher'.attempt = a /\ a = launcher.attempt + 1
      BY <1>0, <1>1, <2>1
    <2>3. /\ worker' \in [Attempts -> [pc : Stages, spec : Specs \cup {NoSpec}, result : Results \cup {NoResult}]]
          /\ worker'[a].pc = "read" /\ worker'[a].spec = worker[a].spec
          /\ \A b \in Attempts : b # a => worker'[b] = worker[b]
      BY <1>1, <2>1 DEF Stages
    <2>4. ProtocolTypes'
      BY <1>3, <1>4, <1>5, <2>1, <2>2, <2>3 DEF ProtocolInv, ProtocolTypes
    <2>5. WorkersInform'
      <3> SUFFICES ASSUME NEW b \in Attempts
                   PROVE  /\ worker'[b].spec \in launched' \cup {NoSpec}
                          /\ worker'[b].pc # "none" => \E s \in Specs : Sent(b, s)'
                          /\ worker'[b].pc = "run" => worker'[b].spec.attempt = b
                          /\ worker'[b].pc \in {"write", "fill", "exit 0"} =>
                                  worker'[b].result \in Results /\ worker'[b].result.attempt = b
                          /\ worker'[b].pc = "exit 0" => worker'[b].result \in produced'
                          /\ b > launcher'.attempt => worker'[b].pc = "none"
        BY DEF WorkersInform, Sent
      <3>1. CASE b = a
        <4>1. Sent(a, spec)'
          BY <1>1, <1>3, <2>1 DEF Sent, ProtocolInv, ProtocolTypes
        <4>2. worker'[a].spec \in launched' \cup {NoSpec}
          <5>1. worker[a].spec \in launched \cup {NoSpec}
            BY DEF ProtocolInv, WorkersInform
          <5> QED
            BY <2>1, <2>3, <5>1
        <4>3. ~(a > launcher'.attempt) /\ \E s \in Specs : Sent(a, s)'
          BY <1>3, <2>2, <4>1
        <4> QED
          BY <2>3, <3>1, <4>2, <4>3
      <3>2. CASE b # a
        <4>1. worker'[b] = worker[b] /\ spec_file'[b] = spec_file[b]
          BY <2>1, <2>3, <3>2 DEF ProtocolInv, ProtocolTypes
        <4>2. b > launcher'.attempt => b > launcher.attempt
          BY <1>1, <2>2, AttemptsAssumption
        <4> QED
          BY <1>4, <2>1, <4>1, <4>2, WorkerKept DEF ProtocolInv
      <3> QED
        BY <3>1, <3>2
    <2>6. FileOwned'
      BY <1>1, <1>4, <2>3, FileKept DEF ProtocolInv
    <2> QED
      BY <1>1, <1>4, <2>1, <2>3, <2>4, <2>5, <2>6 DEF ProtocolInv, ReturnsOwned, LauncherWaits
  <1>6. CASE ~Validate(spec)
    <2>1. launcher' = [launcher EXCEPT !.attempt = a] /\ UNCHANGED <<spec_file, launched, worker>>
      BY <1>2, <1>3, <1>6
    <2>2. launcher'.pc = "idle" /\ launcher'.attempt = a /\ launcher' \in [pc : {"idle", "wait"}, attempt : Nat]
      BY <1>1, <2>1 DEF launch
    <2>3. ProtocolTypes'
      BY <1>4, <2>1, <2>2 DEF ProtocolInv, ProtocolTypes
    <2>4. WorkersInform'
      <3>1. \A b \in Attempts : b > launcher'.attempt => b > launcher.attempt
        BY <1>0, <1>1, <2>2, AttemptsAssumption
      <3> QED
        BY <1>4, <2>1, <3>1 DEF ProtocolInv, WorkersInform, Sent
    <2> QED
      BY <1>4, <2>1, <2>2, <2>3, <2>4 DEF ProtocolInv, ReturnsOwned, LauncherWaits, FileOwned, FileOf
  <1> QED
    BY <1>5, <1>6

\* launch returns a result only if the file is the one of its own worker, in full.
LEMMA ReturnsStep == ASSUME ProtocolInv, launch_returns PROVE ProtocolInv'
  <1> DEFINE a == launcher.attempt
             decoded == decode_result(result_file)
             good == worker[a].pc = "exit 0" /\ decoded.ok /\ verify_against(decoded.result, SpecOf(a))
  <1>1. /\ a \in Attempts /\ worker[a].pc \in {"exit 0", "exit 1"} /\ launcher.pc = "wait"
        /\ launcher \in [pc : {"idle", "wait"}, attempt : Nat]
    BY DEF launch_returns, ProtocolInv, LauncherWaits, ProtocolTypes
  <1>2. UNCHANGED <<spec_file, result_file, worker, launched, produced>> /\ launcher' = [launcher EXCEPT !.pc = "idle"]
        /\ returned' = [returned EXCEPT ![a] = IF good THEN decoded.result ELSE LaunchError]
    BY DEF launch_returns
  <1>3. SpecOf(a).attempt = a
    <2>1. \E spec \in launched : spec.attempt = a
      BY <1>1 DEF ProtocolInv, WorkersInform, Sent
    <2> QED
      BY <2>1 DEF SpecOf
  <1>4. ASSUME good PROVE decoded.result \in produced /\ decoded.result.attempt = a
    <2>1. decoded.result.attempt = a
      BY <1>3, <1>4 DEF verify_against
    <2>2. result_file # <<>>
      <3>1. ASSUME result_file = <<>> PROVE decode_result(result_file) = Malformed
        BY <3>1 DEF decode_result
      <3>2. ~Malformed.ok
        BY DEF Malformed
      <3> QED
        BY <1>4, <3>1, <3>2
    <2>3. PICK b \in Attempts : FileOf(b)
      BY <2>2 DEF ProtocolInv, FileOwned
    <2>4. worker[b].result \in Results /\ worker[b].result.attempt = b
      BY <2>3 DEF FileOf
    <2>5. CASE result_file = encode_result(worker[b].result)
      <3>1. decoded.result = worker[b].result
        BY <2>4, <2>5, ResultRoundTrip
      <3>2. b = a /\ worker[a].pc = "exit 0"
        BY <1>4, <2>1, <2>4, <3>1
      <3> QED
        BY <1>1, <2>1, <3>1, <3>2 DEF ProtocolInv, WorkersInform
    <2>6. CASE result_file \in Truncations(encode_result(worker[b].result)) /\ worker[b].pc \in {"fill", "exit 1"}
      <3>1. decoded.result.attempt = b
        BY <1>4, <2>4, <2>6, TruncatedResult
      <3> QED
        BY <1>4, <2>1, <2>6, <3>1
    <2> QED
      BY <2>3, <2>5, <2>6 DEF FileOf
  <1> HIDE DEF good, decoded
  <1>5. /\ launcher' \in [pc : {"idle", "wait"}, attempt : Nat] /\ launcher'.pc = "idle"
        /\ launcher'.attempt = launcher.attempt
    BY <1>1, <1>2
  <1>6. /\ DOMAIN returned' = Attempts /\ (\A b \in Attempts : b # a => returned'[b] = returned[b])
        /\ returned'[a] = IF good THEN decoded.result ELSE LaunchError
    BY <1>1, <1>2 DEF ProtocolInv, ProtocolTypes
  <1>7. ProtocolTypes'
    BY <1>2, <1>5, <1>6 DEF ProtocolInv, ProtocolTypes
  <1>8. WorkersInform'
    BY <1>2, <1>5 DEF ProtocolInv, WorkersInform, Sent
  <1>9. ReturnsOwned'
    <2> SUFFICES ASSUME NEW b \in Attempts
                 PROVE  \/ returned'[b] \in {NoResult, LaunchError}
                        \/ returned'[b] \in produced' /\ returned'[b].attempt = b
      BY DEF ReturnsOwned
    <2>1. CASE b = a
      BY <1>2, <1>4, <1>6, <2>1
    <2>2. CASE b # a
      BY <1>2, <1>6, <2>2 DEF ProtocolInv, ReturnsOwned
    <2> QED
      BY <2>1, <2>2
  <1> QED
    BY <1>2, <1>5, <1>7, <1>8, <1>9 DEF ProtocolInv, FileOwned, FileOf, LauncherWaits

\* The death of a launcher leaves its worker alone.
LEMMA DiesStep == ASSUME ProtocolInv, launcher_dies PROVE ProtocolInv'
  <1>1. /\ launcher' \in [pc : {"idle", "wait"}, attempt : Nat] /\ launcher'.pc = "idle"
        /\ launcher'.attempt = launcher.attempt
    BY DEF launcher_dies, ProtocolInv, ProtocolTypes
  <1>2. UNCHANGED <<spec_file, result_file, worker, launched, produced, returned>>
    BY DEF launcher_dies
  <1>3. ProtocolTypes'
    BY <1>1, <1>2 DEF ProtocolInv, ProtocolTypes
  <1>4. WorkersInform'
    BY <1>1, <1>2 DEF ProtocolInv, WorkersInform, Sent
  <1> QED
    BY <1>1, <1>2, <1>3, <1>4 DEF ProtocolInv, FileOwned, FileOf, ReturnsOwned, LauncherWaits

\* Launcher and worker understand each other: if the names of the job's fields
\* have no '=' and their values do not end in a blank (the others decode does
\* not give back), each worker gets the spec that launch wrote, and launch
\* returns what a worker of this very attempt wrote in full, whoever dies and
\* whatever an earlier worker writes to the same file.
THEOREM MessagesAreKept ==
    ASSUME \A fields \in JobFields : Recoverable(fields)
    PROVE  ProtocolSpec => []MessagesKept
  <1>1. WorkerInit => ProtocolInv
    BY ProtocolStart
  <1>2. ProtocolInv /\ [WorkerNext]_workerVars => ProtocolInv'
    <2> SUFFICES ASSUME ProtocolInv, [WorkerNext]_workerVars PROVE ProtocolInv'
      OBVIOUS
    <2>1. CASE launch
      BY <2>1, LaunchStep
    <2>2. ASSUME NEW a \in Attempts, worker_reads(a) PROVE ProtocolInv'
      BY <2>2, ReadsStep
    <2>3. ASSUME NEW a \in Attempts, worker_runs(a) PROVE ProtocolInv'
      BY <2>3, RunsStep
    <2>4. ASSUME NEW a \in Attempts, worker_truncates(a) PROVE ProtocolInv'
      BY <2>4, TruncatesStep
    <2>5. ASSUME NEW a \in Attempts, worker_writes(a) PROVE ProtocolInv'
      BY <2>5, WritesStep
    <2>6. ASSUME NEW a \in Attempts, worker_killed(a) PROVE ProtocolInv'
      BY <2>6, KilledStep
    <2>7. CASE launch_returns
      BY <2>7, ReturnsStep
    <2>8. CASE launcher_dies
      BY <2>8, DiesStep
    <2>9. CASE UNCHANGED workerVars
      <3>1. UNCHANGED <<launcher, spec_file, result_file, worker, launched, produced, returned>>
        BY <2>9 DEF workerVars
      <3>2. ProtocolTypes'
        BY <3>1 DEF ProtocolInv, ProtocolTypes
      <3>3. WorkersInform'
        BY <3>1 DEF ProtocolInv, WorkersInform, Sent
      <3> QED
        BY <3>1, <3>2, <3>3 DEF ProtocolInv, FileOwned, FileOf, ReturnsOwned, LauncherWaits
    <2> QED
      BY <2>1, <2>2, <2>3, <2>4, <2>5, <2>6, <2>7, <2>8, <2>9 DEF WorkerNext
  <1>3. ProtocolInv => MessagesKept
    <2> SUFFICES ASSUME ProtocolInv PROVE MessagesKept
      OBVIOUS
    <2>1. NoResult \notin produced /\ LaunchError \notin produced
      BY AttemptsAssumption DEF ProtocolInv, ProtocolTypes, Results, NoResult, LaunchError
    <2> QED
      BY <2>1 DEF MessagesKept, SpecReceived, OwnResult, CompleteResult, ProtocolInv, WorkersInform, ReturnsOwned
  <1> QED
    BY <1>1, <1>2, <1>3, PTL DEF ProtocolSpec

-----------------------------------------------------------------------------
(* The command line *)

Configurations ==
    [budget : Nat, hard : Nat, cores : Nat, fan_in : Nat, devices : Seq(Nat), best_effort : BOOLEAN]

\* While arguments are read and when they are accepted, the configuration is
\* what the arguments so far ask for.
AskedSoFar ==
    /\ \A flag \in Amounts : config[flag] = Effective(flag)
    /\ Len(config.devices) = Cardinality(Given("device"))
    /\ \A i \in Given("device") :
        config.devices[Cardinality({k \in Given("device") : k <= i})] = argv[i][2]

\* Of the positions of a flag one is the last.
HasLast(flag) == Given(flag) # {} => Max(Given(flag)) \in Given(flag)

CliInv ==
    /\ argv \in Seq(Arguments) /\ config \in Configurations
    /\ \A flag : HasLast(flag)
    /\ outcome \in {"parsing", "accepted"} => AskedSoFar
    /\ AcceptedIsUsable

\* The positions of a flag are finitely many numbers.
LEMMA GivenFacts ==
    ASSUME argv \in Seq(Arguments), NEW flag
    PROVE  /\ Given(flag) \subseteq 1..Len(argv) /\ IsFiniteSet(Given(flag)) /\ Cardinality(Given(flag)) \in Nat
           /\ \A i \in Nat : IsFiniteSet({k \in Given(flag) : k <= i})
  <1>1. Given(flag) \subseteq 1..Len(argv) /\ Len(argv) \in Nat
    BY DEF Given
  <1>2. IsFiniteSet(1..Len(argv))
    BY <1>1, FS_Interval
  <1>3. IsFiniteSet(Given(flag)) /\ \A i \in Nat : IsFiniteSet({k \in Given(flag) : k <= i})
    BY <1>1, <1>2, FS_Subset
  <1> QED
    BY <1>1, <1>3, FS_CardinalityType

\* One more argument is the last of its flag, and changes no other.
LEMMA OneMore ==
    ASSUME argv \in Seq(Arguments), NEW a \in Arguments, argv' = Append(argv, a), NEW flag
    PROVE  /\ a[1] = flag => Given(flag)' = Given(flag) \cup {Len(argv) + 1} /\ Max(Given(flag)') = Len(argv) + 1
           /\ a[1] # flag => Given(flag)' = Given(flag)
           /\ \A i \in Given(flag) : argv'[i] = argv[i] /\ i <= Len(argv)
           /\ argv'[Len(argv) + 1] = a /\ Len(argv) \in Nat /\ Len(argv) + 1 \notin Given(flag)
  <1>1. /\ Len(argv) \in Nat /\ DOMAIN argv = 1..Len(argv) /\ DOMAIN argv' = 1..(Len(argv) + 1)
        /\ argv'[Len(argv) + 1] = a /\ \A i \in 1..Len(argv) : argv'[i] = argv[i]
    OBVIOUS
  <1>2. Given(flag) \subseteq 1..Len(argv)
    BY <1>1 DEF Given
  <1>3. CASE a[1] = flag
    <2>1. Given(flag)' = Given(flag) \cup {Len(argv) + 1}
      BY <1>1, <1>3 DEF Given
    <2> DEFINE S == Given(flag)'
    <2>2. Len(argv) + 1 \in S /\ \A y \in S : Len(argv) + 1 >= y
      BY <1>1, <1>2, <2>1
    <2>3. S \subseteq Nat
      BY <1>1, <1>2, <2>1
    <2> HIDE DEF S
    <2>4. Max(S) \in S /\ \A y \in S : Max(S) >= y
      BY <2>2 DEF Max
    <2>5. Max(S) = Len(argv) + 1
      <3> DEFINE m == Max(S)
                 n == Len(argv) + 1
      <3>1. m \in Nat /\ n \in Nat /\ m >= n /\ n >= m
        BY <1>1, <2>2, <2>3, <2>4
      <3> HIDE DEF m, n
      <3>2. m = n
        BY <3>1
      <3> QED
        BY <3>2 DEF m, n
    <2> QED
      BY <1>1, <1>2, <1>3, <2>1, <2>5 DEF S
  <1>4. CASE a[1] # flag
    <2>1. Given(flag)' = Given(flag)
      BY <1>1, <1>4 DEF Given
    <2> QED
      BY <1>1, <1>2, <1>4, <2>1
  <1> QED
    BY <1>3, <1>4

\* An argument of another flag does not change what a flag asks for.
LEMMA OtherFlag ==
    ASSUME argv \in Seq(Arguments), NEW a \in Arguments, argv' = Append(argv, a), NEW flag, a[1] # flag,
           HasLast(flag)
    PROVE  Effective(flag)' = Effective(flag)
  <1>1. Given(flag)' = Given(flag) /\ (\A i \in Given(flag) : argv'[i] = argv[i]) /\ Given(flag) \subseteq 1..Len(argv)
    BY OneMore, GivenFacts
  <1>2. CASE Given(flag) = {}
    BY <1>1, <1>2 DEF Effective
  <1>3. CASE Given(flag) # {}
    <2> DEFINE m == Max(Given(flag))
    <2>1. m \in Given(flag)
      BY <1>3 DEF HasLast
    <2>2. Max(Given(flag))' = m /\ argv'[m] = argv[m]
      BY <1>1, <2>1
    <2> QED
      BY <1>1, <1>3, <2>2 DEF Effective, Integer, parse_gib
  <1> QED
    BY <1>2, <1>3

\* The devices are left alone.
LEMMA OtherDevices ==
    ASSUME CliInv, outcome = "parsing", NEW a \in Arguments, argv' = Append(argv, a), a[1] # "device",
           config'.devices = config.devices
    PROVE  /\ Len(config'.devices) = Cardinality(Given("device")')
           /\ \A i \in Given("device")' : config'.devices[Cardinality({k \in Given("device")' : k <= i})] = argv'[i][2]
  <1>1. Given("device")' = Given("device") /\ \A i \in Given("device") : argv'[i] = argv[i]
    BY OneMore DEF CliInv
  <1> QED
    BY <1>1 DEF CliInv, AskedSoFar

\* One more device comes behind those before it.
LEMMA OneMoreDevice ==
    ASSUME CliInv, outcome = "parsing", NEW a \in Arguments, argv' = Append(argv, a), a[1] = "device",
           a[2] \in Nat, config'.devices = Append(config.devices, a[2])
    PROVE  /\ Len(config'.devices) = Cardinality(Given("device")')
           /\ \A i \in Given("device")' : config'.devices[Cardinality({k \in Given("device")' : k <= i})] = argv'[i][2]
  <1> DEFINE D == Given("device")
             E == Given("device")'
             n == Len(argv) + 1
             c == Cardinality(D)
  <1>1. /\ E = D \cup {n} /\ (\A i \in D : argv'[i] = argv[i] /\ i <= Len(argv))
        /\ argv'[n] = a /\ Len(argv) \in Nat /\ n \notin D
    BY OneMore DEF CliInv
  <1>2. /\ D \subseteq 1..Len(argv) /\ IsFiniteSet(D) /\ c \in Nat
    BY GivenFacts DEF CliInv
  <1>3. /\ config.devices \in Seq(Nat) /\ Len(config.devices) = c
        /\ \A i \in D : config.devices[Cardinality({k \in D : k <= i})] = argv[i][2]
    BY DEF CliInv, Configurations, AskedSoFar
  <1> HIDE DEF D, E, n, c
  <1>4. Cardinality(E) = c + 1
    BY <1>1, <1>2, FS_AddElement DEF c
  <1>5. Len(config'.devices) = c + 1 /\ config'.devices[c + 1] = a[2] /\ \A i \in 1..c : config'.devices[i] = config.devices[i]
    BY <1>2, <1>3
  <1>6. ASSUME NEW i \in E PROVE config'.devices[Cardinality({k \in E : k <= i})] = argv'[i][2]
    <2>1. CASE i = n
      <3>1. {k \in E : k <= i} = E
        <4>1. \A k \in D : k <= n
          BY <1>1, <1>2 DEF n
        <4>2. n \in Nat
          BY <1>1 DEF n
        <4> QED
          BY <1>1, <2>1, <4>1, <4>2
      <3> QED
        BY <1>1, <1>4, <1>5, <2>1, <3>1
    <2>2. CASE i \in D
      <3> DEFINE P == {k \in D : k <= i}
      <3>1. {k \in E : k <= i} = P
        BY <1>1, <1>2, <2>2 DEF n
      <3>2. P \subseteq D /\ i \in P
        BY <1>2, <2>2
      <3>3. IsFiniteSet(P) /\ Cardinality(P) \in Nat /\ Cardinality(P) <= c
        BY <1>2, <3>2, FS_Subset, FS_CardinalityType DEF c
      <3>4. Cardinality(P) # 0
        BY <3>2, <3>3, FS_EmptySet
      <3> HIDE DEF P
      <3>5. Cardinality(P) \in 1..c
        BY <1>2, <3>3, <3>4
      <3>6. config'.devices[Cardinality(P)] = config.devices[Cardinality(P)]
        BY <1>5, <3>5
      <3>7. config.devices[Cardinality(P)] = argv[i][2]
        BY <1>3, <2>2 DEF P
      <3>8. argv'[i] = argv[i]
        BY <1>1, <2>2
      <3> QED
        BY <3>1, <3>6, <3>7, <3>8
    <2> QED
      BY <1>1, <2>1, <2>2
  <1> QED
    BY <1>4, <1>5, <1>6 DEF E

\* A turn of the loop of parse_args does what its argument says.
LEMMA ArgumentStep ==
    ASSUME CliInv, argument
    PROVE  CliInv'
  <1>1. PICK a \in Arguments :
        /\ argv' = Append(argv, a)
        /\ \/ outcome' \in {"UnknownArgument", "MissingValue", "InvalidInteger"} /\ config' = config
           \/ /\ a[1] = "best_effort" /\ outcome' = outcome
              /\ config' = [config EXCEPT !.best_effort = TRUE]
           \/ /\ a[1] \notin {"unknown", "best_effort"} /\ a[2] # -1 /\ Integer(a[1], a[2]) # -1
              /\ set_flag(a[1], Integer(a[1], a[2])) /\ outcome' = outcome
    BY DEF argument
  <1>2. /\ argv \in Seq(Arguments) /\ argv' \in Seq(Arguments) /\ config \in Configurations /\ outcome = "parsing"
        /\ a[1] \in Amounts \cup {"device", "best_effort", "unknown"} /\ a[2] \in Nat \cup {-1}
    BY <1>1, ArgumentsAssumption DEF CliInv, argument
  <1>3. AskedSoFar
    BY <1>2 DEF CliInv
  <1>0. ASSUME NEW flag PROVE HasLast(flag)'
    <2>1. /\ a[1] = flag => Given(flag)' = Given(flag) \cup {Len(argv) + 1} /\ Max(Given(flag)') = Len(argv) + 1
          /\ a[1] # flag => Given(flag)' = Given(flag)
      BY <1>1, <1>2, OneMore
    <2>2. Max(Given(flag))' = Max(Given(flag)') /\ HasLast(flag)
      BY DEF CliInv
    <2> QED
      BY <2>1, <2>2 DEF HasLast
  <1>4. ASSUME NEW flag \in Amounts, a[1] # flag, config'[flag] = config[flag] PROVE config'[flag] = Effective(flag)'
    BY <1>1, <1>2, <1>3, <1>4, OtherFlag DEF AskedSoFar, CliInv
  <1>5. CASE outcome' \in {"UnknownArgument", "MissingValue", "InvalidInteger"} /\ config' = config
    BY <1>0, <1>2, <1>5 DEF CliInv, AcceptedIsUsable
  <1>6. CASE a[1] = "best_effort" /\ outcome' = outcome /\ config' = [config EXCEPT !.best_effort = TRUE]
    <2>1. config' \in Configurations /\ config'.devices = config.devices
      BY <1>2, <1>6 DEF Configurations
    <2>2. \A flag \in Amounts : a[1] # flag /\ config'[flag] = config[flag]
      BY <1>2, <1>6 DEF Configurations, Amounts
    <2>3. \A flag \in Amounts : config'[flag] = Effective(flag)'
      BY <1>4, <2>2
    <2>4. AskedSoFar'
      BY <1>1, <1>2, <1>6, <2>1, <2>3, OtherDevices DEF AskedSoFar
    <2> QED
      BY <1>0, <1>2, <1>6, <2>1, <2>4 DEF CliInv, AcceptedIsUsable
  <1>7. CASE /\ a[1] \notin {"unknown", "best_effort"} /\ a[2] # -1 /\ Integer(a[1], a[2]) # -1
             /\ set_flag(a[1], Integer(a[1], a[2])) /\ outcome' = outcome
    <2> DEFINE n == Integer(a[1], a[2])
    <2>1. a[2] \in Nat /\ n \in Nat
      BY <1>2, <1>7, AmountsAssumption DEF Integer, parse_gib
    <2>2. CASE a[1] = "device"
      <3>1. n = a[2] /\ config' = [config EXCEPT !.devices = Append(config.devices, a[2])]
        BY <1>7, <2>2 DEF set_flag, Integer
      <3>0. Append(config.devices, a[2]) \in Seq(Nat)
        BY <1>2, <2>1 DEF Configurations
      <3>2. config' \in Configurations /\ config'.devices = Append(config.devices, a[2])
        BY <1>2, <3>0, <3>1 DEF Configurations
      <3>3. \A flag \in Amounts : a[1] # flag /\ config'[flag] = config[flag]
        BY <1>2, <2>2, <3>1 DEF Configurations, Amounts
      <3>4. \A flag \in Amounts : config'[flag] = Effective(flag)'
        BY <1>4, <3>3
      <3>5. AskedSoFar'
        BY <1>1, <1>2, <2>1, <2>2, <3>2, <3>4, OneMoreDevice DEF AskedSoFar
      <3> QED
        BY <1>0, <1>2, <1>7, <3>2, <3>5 DEF CliInv, AcceptedIsUsable
    <2>3. CASE a[1] \in Amounts
      <3> HIDE DEF n
      <3>1. config' = [config EXCEPT ![a[1]] = n] /\ a[1] # "device"
        BY <1>7, <2>3 DEF set_flag, Amounts, n
      <3>2. config' \in Configurations /\ config'.devices = config.devices /\ config'[a[1]] = n
        BY <1>2, <2>1, <2>3, <3>1 DEF Configurations, Amounts
      <3>3. \A flag \in Amounts : a[1] # flag => config'[flag] = config[flag]
        BY <1>2, <2>3, <3>1 DEF Configurations, Amounts
      <3>4. Effective(a[1])' = n
        <4>1. /\ Given(a[1])' = Given(a[1]) \cup {Len(argv) + 1} /\ Max(Given(a[1])') = Len(argv) + 1
              /\ argv'[Len(argv) + 1] = a
          BY <1>1, <1>2, OneMore
        <4>2. Given(a[1])' # {}
          BY <4>1
        <4> QED
          BY <4>1, <4>2 DEF Effective, n, Integer, parse_gib
      <3>5. \A flag \in Amounts : config'[flag] = Effective(flag)'
        BY <1>4, <3>2, <3>3, <3>4
      <3>6. AskedSoFar'
        BY <1>1, <1>2, <3>1, <3>2, <3>5, OtherDevices DEF AskedSoFar
      <3> QED
        BY <1>0, <1>2, <1>7, <3>2, <3>6 DEF CliInv, AcceptedIsUsable
    <2> QED
      BY <1>2, <1>7, <2>2, <2>3
  <1> QED
    BY <1>1, <1>5, <1>6, <1>7

\* The end of the arguments changes nothing and accepts only what is usable.
LEMMA EndStep ==
    ASSUME CliInv, end_of_arguments
    PROVE  CliInv'
  <1>1. argv' = argv /\ config' = config /\ outcome = "parsing" /\ outcome' = validate_config
    BY DEF end_of_arguments
  <1>2. AskedSoFar' = AskedSoFar
    BY <1>1 DEF AskedSoFar, Effective, Given, Integer, parse_gib
  <1>0. \A flag : HasLast(flag)' = HasLast(flag)
    BY <1>1 DEF HasLast, Given
  <1>3. config.budget \in Nat /\ config.hard \in Nat /\ config.cores \in Nat
    BY DEF CliInv, Configurations
  <1>4. AcceptedIsUsable'
    BY <1>1, <1>3 DEF AcceptedIsUsable, validate_config
  <1> QED
    BY <1>0, <1>1, <1>2, <1>4 DEF CliInv

\* An accepted command line means the last value of each flag, the default where
\* there is none, and all devices in their order; and passes the checks of the
\* components it is given to.
THEOREM ConfigIsAsAsked == CliSpec => []ConfigAsAsked
  <1>1. CliInit => CliInv
    <2> SUFFICES ASSUME CliInit PROVE CliInv
      OBVIOUS
    <2>1. argv = <<>> /\ config = Defaults /\ outcome # "accepted"
      BY DEF CliInit, Commands
    <2>2. \A flag : Given(flag) = {}
      BY <2>1 DEF Given
    <2>3. config \in Configurations /\ config.devices = <<>>
      <3>1. <<>> \in Seq(Nat)
        OBVIOUS
      <3> QED
        BY <2>1, <3>1, DefaultsAssumption DEF Configurations
    <2>4. AskedSoFar
      BY <2>1, <2>2, <2>3, FS_EmptySet DEF AskedSoFar, Effective
    <2> QED
      BY <2>1, <2>2, <2>3, <2>4 DEF CliInv, AcceptedIsUsable, HasLast
  <1>2. CliInv /\ [CliNext]_cliVars => CliInv'
    <2> SUFFICES ASSUME CliInv, [CliNext]_cliVars PROVE CliInv'
      OBVIOUS
    <2>1. CASE UNCHANGED cliVars
      <3>1. argv' = argv /\ config' = config /\ outcome' = outcome
        BY <2>1 DEF cliVars
      <3>2. AskedSoFar' = AskedSoFar
        BY <3>1 DEF AskedSoFar, Effective, Given, Integer, parse_gib
      <3>3. \A flag : HasLast(flag)' = HasLast(flag)
        BY <3>1 DEF HasLast, Given
      <3> QED
        BY <3>1, <3>2, <3>3 DEF CliInv, AcceptedIsUsable
    <2> QED
      BY <2>1, ArgumentStep, EndStep DEF CliNext
  <1>3. CliInv => ConfigAsAsked
    BY DEF CliInv, ConfigAsAsked, LastWins, AskedSoFar
  <1> QED
    BY <1>1, <1>2, <1>3, PTL DEF CliSpec
=============================================================================
