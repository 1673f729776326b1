----------------------------- MODULE WitnessFile -----------------------------
(***************************************************************************)
(* How a witness artifact's file is written and read (zkie-prover          *)
(* src/witness_cpu.rs: write_exclusive_and_hash and read_bounded).  Each   *)
(* writer fills a temporary file of its own and links it to the output     *)
(* path, which all writers here share; writers may fail or be killed, and  *)
(* the power may be lost.  The directory's sync is taken to be supported.  *)
(***************************************************************************)
EXTENDS Naturals, FiniteSets

CONSTANTS Writers, NoFile

ASSUME NoFileAssumption == NoFile \notin Writers

VARIABLES
    writer,    \* each writer's progress
    inode,     \* each writer's file: "absent", "partial", "written" or "synced"
    temps,     \* the writers whose temporary name exists
    path,      \* the writer whose file the output path names, or NoFile
    disk,      \* the same on the disk
    answered,  \* the writers whose call returned the digest
    read       \* the states of files that readers have read

linkVars == <<writer, inode, temps, path, disk, answered, read>>

LinkInit ==
    /\ writer = [w \in Writers |-> "start"] /\ inode = [w \in Writers |-> "absent"]
    /\ temps = {} /\ path = NoFile /\ disk = NoFile /\ answered = {} /\ read = {}

Goto(w, from, to) == writer[w] = from /\ writer' = [writer EXCEPT ![w] = to]

\* The name is random and the file opened with create_new.
create_unique_temp(w) ==
    /\ Goto(w, "start", "created")
    /\ temps' = temps \cup {w} /\ inode' = [inode EXCEPT ![w] = "partial"]
    /\ UNCHANGED <<path, disk, answered, read>>

write_all(w) ==
    /\ Goto(w, "created", "written")
    /\ inode' = [inode EXCEPT ![w] = "written"]
    /\ UNCHANGED <<temps, path, disk, answered, read>>

\* Variant for testing SurvivesWhole: the file is only flushed.
flush_only(w) ==
    /\ Goto(w, "written", "synced")
    /\ UNCHANGED <<inode, temps, path, disk, answered, read>>

\* sync_all, and the bytes read back.
sync_all(w) ==
    /\ Goto(w, "written", "synced")
    /\ inode' = [inode EXCEPT ![w] = "synced"]
    /\ UNCHANGED <<temps, path, disk, answered, read>>

\* An error returns early; the guard removes the temporary file.
TempFileGuard(w) == temps' = temps \ {w}
fail_before_link(w) ==
    /\ writer[w] \in {"created", "written"} /\ writer' = [writer EXCEPT ![w] = "failed"]
    /\ TempFileGuard(w)
    /\ UNCHANGED <<inode, path, disk, answered, read>>

\* hard_link never replaces what the path names.
hard_link(w) ==
    /\ writer[w] = "synced"
    /\ \/ /\ path = NoFile
          /\ path' = w /\ writer' = [writer EXCEPT ![w] = "linked"] /\ UNCHANGED temps
       \/ /\ path # NoFile
          /\ writer' = [writer EXCEPT ![w] = "failed"] /\ TempFileGuard(w) /\ UNCHANGED path
    /\ UNCHANGED <<inode, disk, answered, read>>

\* The temporary name is removed; should that fail, so is the path, and the guard tries again.
remove_temp(w) ==
    /\ writer[w] = "linked"
    /\ \/ writer' = [writer EXCEPT ![w] = "unlinked"] /\ temps' = temps \ {w} /\ UNCHANGED path
       \/ writer' = [writer EXCEPT ![w] = "failed"] /\ temps' \in {temps, temps \ {w}} /\ path' = NoFile
    /\ UNCHANGED <<inode, disk, answered, read>>

\* sync_parent_directory makes the names durable; should it fail, the path is removed.
sync_parent(w) ==
    /\ writer[w] = "unlinked"
    /\ \/ /\ writer' = [writer EXCEPT ![w] = "done"]
          /\ disk' = path /\ answered' = answered \cup {w} /\ UNCHANGED path
       \/ /\ writer' = [writer EXCEPT ![w] = "failed"]
          /\ path' = NoFile /\ UNCHANGED <<disk, answered>>
    /\ UNCHANGED <<inode, temps, read>>

\* read_bounded, by whoever loads the artifact: the file's bytes as they are.
read_bounded ==
    /\ path # NoFile
    /\ read' = read \cup {inode[path]}
    /\ UNCHANGED <<writer, inode, temps, path, disk, answered>>

killed(w) ==
    /\ writer[w] \notin {"start", "done", "failed", "dead"}
    /\ writer' = [writer EXCEPT ![w] = "dead"]
    /\ UNCHANGED <<inode, temps, path, disk, answered, read>>

\* The power is lost: a name may or may not have reached the disk before its
\* directory was synced, and a file's bytes need not have before its sync.
power_lost ==
    /\ \E p \in {path, disk} : path' = p /\ disk' = p
    /\ \E lost \in SUBSET {w \in Writers : inode[w] = "written"} :
        inode' = [w \in Writers |-> IF w \in lost THEN "partial" ELSE inode[w]]
    /\ writer' = [w \in Writers |-> IF writer[w] \in {"start", "done", "failed"} THEN writer[w] ELSE "dead"]
    /\ \E left \in SUBSET temps : temps' = left
    /\ UNCHANGED <<answered, read>>

LinkNext ==
    \/ \E w \in Writers :
        \/ create_unique_temp(w) \/ write_all(w) \/ sync_all(w) \/ fail_before_link(w)
        \/ hard_link(w) \/ remove_temp(w) \/ sync_parent(w) \/ killed(w)
    \/ read_bounded
    \/ power_lost

LinkSpec == LinkInit /\ [][LinkNext]_linkVars

-----------------------------------------------------------------------------
(* Properties *)

\* write_exclusive_and_hash: a call that has returned the digest leaves its
\* file at the path; no other writer, error, kill or loss of power takes it away.
ReturnedStays == \A w \in answered : path = w /\ inode[w] = "synced"

\* The path never names a file that is not wholly on the disk, whatever happened
\* to the writer or the machine.
SurvivesWhole == path # NoFile => inode[path] = "synced"

\* A file is complete before it gets its name: a reader never reads a part of it.
ReadersSeeWhole == "partial" \notin read

\* write_exclusive_and_hash: whatever becomes of the writers and of the power,
\* the path names a whole file or none, and keeps the one a call has returned.
ArtifactsWhole == ReturnedStays /\ SurvivesWhole /\ ReadersSeeWhole
=============================================================================
