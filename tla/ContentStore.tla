----------------------------- MODULE ContentStore -----------------------------
(***************************************************************************)
(* The content store of zkie-runtime (src/store.rs) on a file system that  *)
(* keeps what was synced and may lose what was not.  A publisher is one    *)
(* run of the sequence of commit_proof and commit_key in queue.rs: open    *)
(* the store, stage, write, validate, publish, attest, commit the row.     *)
(* Publishers are concurrent processes on one directory.                   *)
(*                                                                         *)
(* An object is a digest; the bytes of an inode are the object they are    *)
(* the envelope of, or "torn" when they are the envelope of nothing, so    *)
(* verify_envelope is a comparison.  The random names of staged files are  *)
(* unique, so a name in staging is the inode it was created with.          *)
(***************************************************************************)
EXTENDS Naturals, FiniteSets

CONSTANTS
    Publishers,  \* publications; each one process
    Objects,     \* object digests
    StoreSetups  \* the circumstances to look at, see setup

ASSUME SetupAssumption ==
    \A s \in StoreSetups :
        /\ s.want \in [Publishers -> Objects]
        /\ s.fresh \in BOOLEAN /\ s.late_writers \in BOOLEAN
        /\ s.losses \in Nat /\ s.decays \in Nat
        /\ s.foreign \cap (Publishers \X {"stage", "copy"}) = {}
ASSUME NameAssumption == "torn" \notin Objects /\ "empty" \notin Publishers
                         /\ "absent" \notin Publishers /\ "old" \notin Publishers

\* The staged file of p and the copy that publish makes of it.
Stage(p) == <<p, "stage">>
Copy(p) == <<p, "copy">>
Inodes == Publishers \X {"stage", "copy"}
None == <<"none">>

Terminal == {"committed", "failed", "dead"}
Phases == {"closed", "marking", "marked", "open", "staged", "written", "validated",
           "checked", "copying", "copied", "existing", "renamed", "verified", "synced",
           "published"} \cup Terminal
Markers == Publishers \cup {"absent", "empty", "old"}

VARIABLES
    setup,       \* the member of StoreSetups the behaviour is about; it never changes
    pc,          \* where each publisher is
    identity,    \* the store identity each publisher read when it opened the store
    pinned,      \* the inode behind each publisher's PublishedObject
    content,     \* bytes of each inode
    staging,     \* names in staging/
    objects,     \* names in objects/: the inode behind each digest
    quarantine,  \* names in quarantine/
    marker,      \* .zkie-store-id: absent, created but empty, or who wrote it
    durable,     \* what a power loss keeps: content, staging, objects and marker
    rows,        \* committed artifacts and key_artifacts rows
    decayed,     \* inodes the medium has damaged
    losses       \* power losses so far

\* The object each publisher has metadata for; the entries of staging that are
\* not stage files (links, ...); whether the store directory is new; whether a
\* worker may write to its staged file at any time; how often the power may be
\* lost; how many stored files may go bad on the medium.
Want == setup.want
Foreign == setup.foreign
Fresh == setup.fresh
LateWriters == setup.late_writers
MaxPowerLosses == setup.losses
MaxDecays == setup.decays

procVars == <<pc, identity, pinned>>
fileVars == <<content, staging, objects, quarantine, marker, durable>>
storeVars == <<setup, pc, identity, pinned, content, staging, objects, quarantine, marker, durable,
               rows, decayed, losses>>

Rows == [object : Objects, store : Publishers \cup {"old"}]

StoreTypeOK ==
    /\ pc \in [Publishers -> Phases]
    /\ identity \in [Publishers -> Markers \ {"empty"}]
    /\ pinned \in [Publishers -> Inodes \cup {None}]
    /\ content \in [Inodes -> Objects \cup {"torn"}]
    /\ staging \subseteq Inodes \cup Foreign
    /\ objects \in [Objects -> Inodes \cup {None}]
    /\ quarantine \subseteq Foreign
    /\ marker \in Markers
    /\ durable \in [content : [Inodes -> Objects \cup {"torn"}],
                    staging : SUBSET (Inodes \cup Foreign),
                    objects : [Objects -> Inodes \cup {None}],
                    marker : Markers]
    /\ rows \subseteq Rows
    /\ decayed \subseteq Inodes
    /\ losses \in 0..MaxPowerLosses

StoreInit ==
    /\ setup \in StoreSetups
    /\ pc = [p \in Publishers |-> "closed"]
    /\ identity = [p \in Publishers |-> "absent"]
    /\ pinned = [p \in Publishers |-> None]
    /\ content = [i \in Inodes |-> "torn"]
    /\ staging = Foreign
    /\ objects = [d \in Objects |-> None]
    /\ quarantine = {}
    /\ marker = IF Fresh THEN "absent" ELSE "old"
    /\ durable = [content |-> content, staging |-> staging, objects |-> objects,
                  marker |-> marker]
    /\ rows = {}
    /\ decayed = {}
    /\ losses = 0

-----------------------------------------------------------------------------
\* Steps of one publisher.

Goes(p, from, to) == pc[p] = from /\ pc' = [pc EXCEPT ![p] = to]

\* fsync of staging/ and of objects/, after what the step did to them.
SyncStaging == [durable EXCEPT !.staging = staging']
SyncObjects == [durable EXCEPT !.objects = objects']

\* verify_envelope: the bytes are the envelope of the expected object.
verify_envelope(i, d) == content[i] = d

\* StoreCore::open, up to the identity marker: created exclusively, or read.
\* An empty marker is rejected and never replaced.
create_marker(p) ==
    /\ marker = "absent"
    /\ Goes(p, "closed", "marking")
    /\ marker' = "empty"
    /\ UNCHANGED <<identity, pinned, content, staging, objects, quarantine, durable,
                   rows, decayed, losses>>

write_marker(p) ==
    /\ Goes(p, "marking", "marked")
    /\ marker' = p
    /\ UNCHANGED <<identity, pinned, content, staging, objects, quarantine, durable,
                   rows, decayed, losses>>

sync_marker(p) ==
    /\ Goes(p, "marked", "open")
    /\ durable' = [durable EXCEPT !.marker = marker]
    /\ identity' = [identity EXCEPT ![p] = marker]
    /\ UNCHANGED <<pinned, content, staging, objects, quarantine, marker, rows, decayed, losses>>

read_marker(p) ==
    /\ marker # "absent"
    /\ Goes(p, "closed", IF marker = "empty" THEN "failed" ELSE "open")
    /\ identity' = [identity EXCEPT ![p] = IF marker = "empty" THEN @ ELSE marker]
    /\ UNCHANGED <<pinned, content, staging, objects, quarantine, marker, durable,
                   rows, decayed, losses>>

\* stage: a new file, of which only the header is written.
stage(p) ==
    /\ Goes(p, "open", "staged")
    /\ staging' = staging \cup {Stage(p)}
    /\ UNCHANGED <<identity, pinned, content, objects, quarantine, marker, durable,
                   rows, decayed, losses>>

\* The payload: of the declared size and digest, or not.
write(p) ==
    /\ Goes(p, "staged", "written")
    /\ \E c \in {Want[p], "torn"} : content' = [content EXCEPT ![Stage(p)] = c]
    /\ UNCHANGED <<identity, pinned, staging, objects, quarantine, marker, durable,
                   rows, decayed, losses>>

\* validate: sync, look the name up, reread.  A failure removes the file.
validate(p) ==
    \/ /\ Goes(p, "written", "validated")
       /\ Stage(p) \in staging /\ verify_envelope(Stage(p), Want[p])
       /\ durable' = [durable EXCEPT !.content[Stage(p)] = content[Stage(p)]]
       /\ UNCHANGED <<identity, pinned, content, staging, objects, quarantine, marker,
                      rows, decayed, losses>>
    \/ /\ Goes(p, "written", "failed")
       /\ ~(Stage(p) \in staging /\ verify_envelope(Stage(p), Want[p]))
       /\ staging' = staging \ {Stage(p)}
       /\ durable' = SyncStaging
       /\ UNCHANGED <<identity, pinned, content, objects, quarantine, marker,
                      rows, decayed, losses>>

\* publish, first part: the validated file is still itself.
check_validated(p) ==
    /\ Goes(p, "validated", IF Stage(p) \in staging /\ verify_envelope(Stage(p), Want[p])
                            THEN "checked" ELSE "failed")
    /\ UNCHANGED <<identity, pinned, fileVars, rows, decayed, losses>>

\* copy_for_publication: a fresh inode; a write of the worker during the copy
\* may tear it.  It is synced and reread, and removed when it is not right.
open_copy(p) ==
    /\ Goes(p, "checked", "copying")
    /\ staging' = staging \cup {Copy(p)}
    /\ UNCHANGED <<identity, pinned, content, objects, quarantine, marker, durable,
                   rows, decayed, losses>>

\* Variant for testing ObjectsIntact: the copy is not synced.
CopyUnsynced(p) ==
    /\ Goes(p, "copying", "copied")
    /\ content' = [content EXCEPT ![Copy(p)] = Want[p]]
    /\ verify_envelope(Stage(p), Want[p])
    /\ UNCHANGED <<identity, pinned, staging, objects, quarantine, marker, durable,
                   rows, decayed, losses>>

copy_for_publication(p) ==
    \/ /\ Goes(p, "copying", "copied")
       /\ content' = [content EXCEPT ![Copy(p)] = Want[p]]
       /\ verify_envelope(Stage(p), Want[p])
       /\ durable' = [durable EXCEPT !.content[Copy(p)] = Want[p]]
       /\ UNCHANGED <<identity, pinned, staging, objects, quarantine, marker,
                      rows, decayed, losses>>
    \/ /\ Goes(p, "copying", "failed")
       /\ LateWriters
       /\ staging' = staging \ {Copy(p)}
       /\ UNCHANGED <<identity, pinned, content, objects, quarantine, marker, durable,
                      rows, decayed, losses>>

\* renameat_with(NOREPLACE): fails when the copy has been swept away, and
\* does not replace an object that exists.
rename(p) ==
    \/ /\ Copy(p) \notin staging
       /\ Goes(p, "copied", "failed")
       /\ UNCHANGED <<staging, objects>>
    \/ /\ Copy(p) \in staging
       /\ staging' = staging \ {Copy(p)}
       /\ \/ /\ objects[Want[p]] = None
             /\ Goes(p, "copied", "renamed")
             /\ objects' = [objects EXCEPT ![Want[p]] = Copy(p)]
          \/ /\ objects[Want[p]] # None
             /\ Goes(p, "copied", "existing")
             /\ UNCHANGED objects

rename_copy(p) ==
    /\ rename(p)
    /\ UNCHANGED <<identity, pinned, content, quarantine, marker, durable, rows, decayed, losses>>

\* The existing object must be the same one; then it counts as published.
accept_existing(p) ==
    LET i == objects[Want[p]]
        ok == i # None /\ verify_envelope(i, Want[p])
    IN  \/ /\ ok /\ Stage(p) \in staging
           /\ Goes(p, "existing", "published")
           /\ pinned' = [pinned EXCEPT ![p] = i]
           /\ staging' = staging \ {Stage(p)}
           /\ durable' = SyncStaging
           /\ UNCHANGED <<identity, content, objects, quarantine, marker, rows, decayed, losses>>
        \/ /\ ~(ok /\ Stage(p) \in staging)
           /\ Goes(p, "existing", "failed")
           /\ UNCHANGED <<identity, pinned, fileVars, rows, decayed, losses>>

\* The renamed object is opened and reread; remove_failed_publication when it
\* is not what was copied.
verify_final(p) ==
    LET ok == objects[Want[p]] = Copy(p) /\ verify_envelope(Copy(p), Want[p])
    IN  \/ /\ ok
           /\ Goes(p, "renamed", "verified")
           /\ UNCHANGED <<identity, pinned, fileVars, rows, decayed, losses>>
        \/ /\ ~ok
           /\ Goes(p, "renamed", "failed")
           /\ objects' = [objects EXCEPT ![Want[p]] = None]
           /\ durable' = SyncObjects
           /\ UNCHANGED <<identity, pinned, content, staging, quarantine, marker,
                          rows, decayed, losses>>

\* Variant for testing CommittedReopens and ImplementsAtomicStore: no fsync.
SkipSync(p) ==
    /\ Goes(p, "verified", "synced")
    /\ UNCHANGED <<identity, pinned, fileVars, rows, decayed, losses>>

\* fsync(objects)
sync_objects(p) ==
    /\ Goes(p, "verified", "synced")
    /\ UNCHANGED objects
    /\ durable' = SyncObjects
    /\ UNCHANGED <<identity, pinned, content, staging, quarantine, marker, rows, decayed, losses>>

\* The staged file goes; when it has been swept away publish reports an error
\* although the object is in place.
unlink_stage(p) ==
    \/ /\ Stage(p) \in staging
       /\ Goes(p, "synced", "published")
       /\ pinned' = [pinned EXCEPT ![p] = Copy(p)]
       /\ staging' = staging \ {Stage(p)}
       /\ durable' = SyncStaging
       /\ UNCHANGED <<identity, content, objects, quarantine, marker, rows, decayed, losses>>
    \/ /\ Stage(p) \notin staging
       /\ Goes(p, "synced", "failed")
       /\ UNCHANGED <<identity, pinned, fileVars, rows, decayed, losses>>

\* PublishedObject::ensure_verified: the name still leads to the pinned inode,
\* and its bytes verify.
ensure_verified(p) ==
    /\ objects[Want[p]] = pinned[p]
    /\ verify_envelope(pinned[p], Want[p])

\* attest, then commit_verified_artifact or commit_verified_key: the row
\* names the object and the identity of the store it was published in.
commit(p) ==
    LET row == [object |-> Want[p], store |-> identity[p]]
    IN  /\ Goes(p, "published", IF ensure_verified(p) THEN "committed" ELSE "failed")
        /\ rows' = IF ensure_verified(p) THEN rows \cup {row} ELSE rows
        /\ UNCHANGED <<identity, pinned, fileVars, decayed, losses>>

\* open_verified_with_metadata: the name is there and its bytes verify.
open_verified(d) == objects[d] # None /\ verify_envelope(objects[d], d)

\* reopen_persisted: what a row needs to be read back.
reopen_persisted(r) == marker = r.store /\ open_verified(r.object)

-----------------------------------------------------------------------------
\* The rest of the world.

\* One entry of recover_stale's pass: stage files are removed, whoever owns
\* them; anything else is moved to quarantine.
recover_stale(n) ==
    /\ n \in staging
    /\ staging' = staging \ {n}
    /\ quarantine' = IF n \in Foreign THEN quarantine \cup {n} ELSE quarantine
    /\ durable' = SyncStaging
    /\ UNCHANGED <<procVars, content, objects, marker, rows, decayed, losses>>

\* A worker that kept its descriptor writes to the staged inode.
late_write(p) ==
    /\ LateWriters
    /\ pc[p] \notin {"closed", "marking", "marked", "open", "staged"}
    /\ \E c \in {Want[p], "torn"} \ {content[Stage(p)]} :
         content' = [content EXCEPT ![Stage(p)] = c]
    /\ UNCHANGED <<procVars, staging, objects, quarantine, marker, durable, rows, decayed, losses>>

kill(p) ==
    /\ pc[p] \notin Terminal \cup {"closed"}
    /\ pc' = [pc EXCEPT ![p] = "dead"]
    /\ UNCHANGED <<identity, pinned, fileVars, rows, decayed, losses>>

\* The medium damages a published file.
decay(d) ==
    /\ Cardinality(decayed) < MaxDecays
    /\ objects[d] # None
    /\ content[objects[d]] # "torn"
    /\ content' = [content EXCEPT ![objects[d]] = "torn"]
    /\ durable' = [durable EXCEPT !.content[objects[d]] = "torn"]
    /\ decayed' = decayed \cup {objects[d]}
    /\ UNCHANGED <<procVars, staging, objects, quarantine, marker, rows, losses>>

\* Everything that was synced stays; each other change may or may not.
power_loss ==
    /\ losses < MaxPowerLosses
    /\ losses' = losses + 1
    /\ pc' = [p \in Publishers |-> IF pc[p] \in Terminal \cup {"closed"} THEN pc[p] ELSE "dead"]
    /\ \E lost \in SUBSET {i \in Inodes : content[i] # durable.content[i]} :
         content' = [i \in Inodes |-> IF i \in lost THEN durable.content[i] ELSE content[i]]
    /\ \E kept \in SUBSET ((staging \cup durable.staging) \ (staging \cap durable.staging)) :
         staging' = (staging \cap durable.staging) \cup kept
    /\ \E lost \in SUBSET {d \in Objects : objects[d] # durable.objects[d]} :
         objects' = [d \in Objects |-> IF d \in lost THEN durable.objects[d] ELSE objects[d]]
    /\ marker' \in {marker, durable.marker}
    /\ durable' = [content |-> content', staging |-> staging', objects |-> objects',
                   marker |-> marker']
    /\ UNCHANGED <<identity, pinned, quarantine, rows, decayed>>

PublisherStep(p) ==
    \/ create_marker(p) \/ write_marker(p) \/ sync_marker(p) \/ read_marker(p)
    \/ stage(p) \/ write(p) \/ validate(p)
    \/ check_validated(p) \/ open_copy(p) \/ copy_for_publication(p) \/ rename_copy(p)
    \/ accept_existing(p) \/ verify_final(p) \/ sync_objects(p) \/ unlink_stage(p)
    \/ commit(p)

StoreStep ==
    \/ \E p \in Publishers : PublisherStep(p) \/ late_write(p) \/ kill(p)
    \/ \E n \in Inodes \cup Foreign : recover_stale(n)
    \/ \E d \in Objects : decay(d)
    \/ power_loss

StoreNext == StoreStep /\ UNCHANGED setup

StoreSpec == StoreInit /\ [][StoreNext]_storeVars

-----------------------------------------------------------------------------
\* Properties.

\* Whatever the interleaving, the crash or the late write, a file under a
\* digest's name holds that digest's bytes: publish copies into an inode no
\* worker has a descriptor of, and syncs it before it gets its name.
ObjectsIntact ==
    \A d \in Objects : objects[d] \notin decayed \cup {None} => content[objects[d]] = d

\* A committed row can be read back, for ever: the object it names and the
\* identity marker of the store it names are still there after any number of
\* kills and power losses.
Damaged(d) == \E i \in decayed : Want[i[1]] = d
CommittedReopens ==
    \A r \in rows : Damaged(r.object) \/ reopen_persisted(r)

\* A name in objects/ is never given to other bytes, and is taken away only
\* when its bytes are damaged or no row and no running publisher relies on it
\* (renameat_with NOREPLACE, remove_failed_publication).
NeverReplaced ==
    [][\A d \in Objects :
         objects[d] # None =>
           \/ objects'[d] = objects[d]
           \/ /\ objects'[d] = None
              /\ \/ objects[d] \in decayed
                 \/ \A p \in Publishers : Want[p] = d => pc'[p] \in Terminal \cup {"closed"}
    ]_storeVars

\* Entries of staging/ that the store did not create are never deleted, only
\* moved to quarantine/ (recover_stale).
ForeignKept == Foreign \subseteq staging \cup quarantine

\* The store implements its promise: objects appear whole, and what a row
\* names does not vanish while the medium is sound.
Promise == INSTANCE AtomicStore WITH
    present <- {d \in Objects : objects[d] # None /\ content[objects[d]] = d},
    promised <- {r.object : r \in {s \in rows : ~Damaged(s.object)}}
ImplementsAtomicStore == Promise!AtomicSpec

\* publish, reopen and recover_stale: the files of the store are what their
\* names and the committed rows say, and nothing of others is lost.
StoreSound == StoreTypeOK /\ ObjectsIntact /\ CommittedReopens /\ ForeignKept

\* ... and every step keeps the store's promise.
StoreKeepsPromise == NeverReplaced /\ ImplementsAtomicStore
=============================================================================
