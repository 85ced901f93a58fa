--------------------------- MODULE TranscriptWrites ---------------------------
(***************************************************************************)
(* How one session's transcript reaches the disk.                          *)
(* SessionManifestStore.persistSessionMessages looks the session up and    *)
(* hands the transcript to writeMessagesCoalesced, which keeps one         *)
(* writeFileAtomic in flight and remembers only the newest transcript      *)
(* requested meanwhile; all callers share one promise.  A deletion of the  *)
(* session (persistence-service.ts), which may come from another host over *)
(* the same files, takes its row, transcript, manifest and directory away  *)
(* step by step, and the process may die at any point.                     *)
(*                                                                         *)
(* The row is looked up and the request coalesced in one action: the two   *)
(* adapters answer the lookup in a fixed number of microtasks, so callers  *)
(* reach the coalescer in the order of their calls.  Subject of the model  *)
(* is a root session that was persisted; power loss is not modelled.       *)
(***************************************************************************)
EXTENDS Integers

CONSTANT MaxContents    \* bound: transcripts handed over in a behaviour

ASSUME WritesAssumption == MaxContents \in Nat

VARIABLES
    handed,     \* the newest transcript handed to persistSessionMessages
    answer,     \* what the promise returned to each caller did
    inflight,   \* the transcript writeFileAtomic is writing, 0: no write pending
    latest,     \* state.latest, 0: undefined
    stage,      \* the next step of writeFileAtomic
    stored,     \* the newest transcript a rename has put in place
    dir,        \* the session's directory exists
    temp,       \* the temporary file of the write in flight exists
    file,       \* the transcript file exists
    row,        \* the session has a row in the database
    manifest,   \* the session has a manifest file
    deletion    \* how far deleteSession got

writeVars == <<inflight, latest, stage>>
diskVars  == <<stored, dir, temp, file>>
rowVars   == <<row, manifest>>
vars == <<handed, answer, writeVars, diskVars, rowVars, deletion>>

Contents  == 1 .. MaxContents
Answers   == {"none", "waiting", "done", "failed", "lost"}
Stages    == {"idle", "mkdir", "open", "rename", "fsync"}
Deletions == {"none", "row", "cascade", "unlinked", "deleted", "abandoned"}

\* The types, and that a write has a step to take exactly while it is pending.
TypeOK ==
    /\ handed \in 0 .. MaxContents
    /\ answer \in [Contents -> Answers]
    /\ inflight \in 0 .. MaxContents
    /\ latest \in 0 .. MaxContents
    /\ stage \in Stages
    /\ stored \in 0 .. MaxContents
    /\ dir \in BOOLEAN /\ temp \in BOOLEAN /\ file \in BOOLEAN
    /\ row \in BOOLEAN /\ manifest \in BOOLEAN
    /\ deletion \in Deletions
    /\ stage = "idle" <=> inflight = 0

Init ==
    /\ handed = 0
    /\ answer = [n \in Contents |-> "none"]
    /\ inflight = 0 /\ latest = 0 /\ stage = "idle"
    /\ stored = 0
    /\ dir = TRUE /\ temp = FALSE /\ file = TRUE
    /\ row = TRUE /\ manifest = TRUE
    /\ deletion = "none"

Waiting == {n \in Contents : answer[n] = "waiting"}

Told(S, a) == [n \in Contents |-> IF n \in S THEN a ELSE answer[n]]

-----------------------------------------------------------------------------
(* persistSessionMessages and the coalescer                                *)

\* Mutant: a transcript already waiting is kept, the newer one is dropped.
Coalesce_KeepOldest(n) ==
    IF inflight = 0
      THEN inflight' = n /\ stage' = "mkdir" /\ UNCHANGED latest
      ELSE latest' = (IF latest = 0 THEN n ELSE latest) /\ UNCHANGED <<inflight, stage>>

\* writeMessagesCoalesced: start a write, or leave word with the pending one.
Coalesce(n) ==
    IF inflight = 0
      THEN inflight' = n /\ stage' = "mkdir" /\ UNCHANGED latest
      ELSE latest' = n /\ UNCHANGED <<inflight, stage>>

\* The session is found by its row, or re-adopted from its manifest.
PersistMessages ==
    /\ handed < MaxContents
    /\ row \/ manifest
    /\ row' = TRUE
    /\ handed' = handed + 1
    /\ answer' = Told({handed + 1}, "waiting")
    /\ Coalesce(handed + 1)
    /\ UNCHANGED <<diskVars, manifest, deletion>>

\* Neither a row nor a manifest: the call throws.
RefuseUnknown ==
    /\ handed < MaxContents
    /\ ~row /\ ~manifest
    /\ handed' = handed + 1
    /\ answer' = Told({handed + 1}, "failed")
    /\ UNCHANGED <<writeVars, diskVars, rowVars, deletion>>

-----------------------------------------------------------------------------
(* writeFileAtomic, and the loop around it                                 *)

MakeDir ==
    /\ stage = "mkdir"
    /\ dir' = TRUE
    /\ stage' = "open"
    /\ UNCHANGED <<handed, answer, inflight, latest, stored, temp, file, rowVars, deletion>>

\* Mutant: the transcript is truncated and rewritten in place.
WriteTemp_InPlace ==
    /\ stage = "open" /\ dir
    /\ temp' = TRUE
    /\ stored' = 0
    /\ stage' = "rename"
    /\ UNCHANGED <<handed, answer, inflight, latest, dir, file, rowVars, deletion>>

\* Open, write, sync and close of the temporary file beside the transcript.
WriteTemp ==
    /\ stage = "open" /\ dir
    /\ temp' = TRUE
    /\ stage' = "rename"
    /\ UNCHANGED <<handed, answer, inflight, latest, stored, dir, file, rowVars, deletion>>

Rename ==
    /\ stage = "rename" /\ temp
    /\ temp' = FALSE
    /\ file' = TRUE
    /\ stored' = inflight
    /\ stage' = "fsync"
    /\ UNCHANGED <<handed, answer, inflight, latest, dir, rowVars, deletion>>

\* The write returned and left something to write: the loop goes round.
WriteNext ==
    /\ stage = "fsync" /\ latest # 0
    /\ inflight' = latest
    /\ latest' = 0
    /\ stage' = "mkdir"
    /\ UNCHANGED <<handed, answer, diskVars, rowVars, deletion>>

\* The write returned and nothing is left: the shared promise is fulfilled.
AllWritten ==
    /\ stage = "fsync" /\ latest = 0
    /\ inflight' = 0 /\ stage' = "idle"
    /\ answer' = Told(Waiting, "done")
    /\ UNCHANGED <<handed, latest, diskVars, rowVars, deletion>>

\* Mutant: the failed write is swallowed and its callers are told it is done.
WriteFails_Swallowed ==
    /\ stage \in {"mkdir", "open", "rename"}
    /\ inflight' = 0 /\ latest' = 0 /\ stage' = "idle"
    /\ temp' = FALSE
    /\ answer' = Told(Waiting, "done")
    /\ UNCHANGED <<handed, stored, dir, file, rowVars, deletion>>

\* Mutant: the entry is dropped and nobody rejects the promise.
WriteFails_Unanswered ==
    /\ stage \in {"mkdir", "open", "rename"}
    /\ inflight' = 0 /\ latest' = 0 /\ stage' = "idle"
    /\ temp' = FALSE
    /\ UNCHANGED <<handed, answer, stored, dir, file, rowVars, deletion>>

\* A step up to the rename throws: the temporary file is removed, the loop is
\* left, and what waited in latest goes with it.  The last fsync cannot throw.
WriteFails ==
    /\ stage \in {"mkdir", "open", "rename"}
    /\ inflight' = 0 /\ latest' = 0 /\ stage' = "idle"
    /\ temp' = FALSE
    /\ answer' = Told(Waiting, "failed")
    /\ UNCHANGED <<handed, stored, dir, file, rowVars, deletion>>

-----------------------------------------------------------------------------
(* deleteSession of the persistence service, and the death of the process  *)

\* The row goes; a second, cascading delete follows after the children's list.
DeleteRow ==
    /\ \/ row /\ deletion = "none" /\ deletion' = "row"
       \/ deletion = "row" /\ deletion' = "cascade"
    /\ row' = FALSE
    /\ UNCHANGED <<handed, answer, writeVars, diskVars, manifest>>

\* After the children and the checkpoint refs, the transcript is unlinked.
UnlinkTranscript ==
    /\ deletion = "cascade"
    /\ file' = FALSE
    /\ deletion' = "unlinked"
    /\ UNCHANGED <<handed, answer, writeVars, stored, dir, temp, rowVars>>

\* After the compaction state, manifest and directory go in one block.
RemoveDir ==
    /\ deletion = "unlinked"
    /\ manifest' = FALSE
    /\ dir' = FALSE /\ temp' = FALSE /\ file' = FALSE
    /\ deletion' = "deleted"
    /\ UNCHANGED <<handed, answer, writeVars, stored, row>>

Crash ==
    /\ inflight' = 0 /\ latest' = 0 /\ stage' = "idle"
    /\ temp' = FALSE
    /\ answer' = Told(Waiting, "lost")
    /\ deletion' = IF deletion \in {"none", "deleted"} THEN deletion ELSE "abandoned"
    /\ UNCHANGED <<handed, stored, dir, file, rowVars>>

WriteStep == MakeDir \/ WriteTemp \/ Rename \/ WriteNext \/ AllWritten \/ WriteFails
Deletion  == DeleteRow \/ UnlinkTranscript \/ RemoveDir

Next == PersistMessages \/ RefuseUnknown \/ WriteStep \/ Deletion \/ Crash

Spec == Init /\ [][Next]_vars

\* Every file system call the coalescer awaits returns or throws.
FairSpec == Spec /\ WF_vars(WriteStep)

-----------------------------------------------------------------------------
(* Properties                                                              *)

\* A caller whose promise is fulfilled has its transcript or a newer one on
\* disk, coalesced away or not; only a deletion takes the file from it.
DoneMeansStored ==
    \A n \in Contents :
        answer[n] = "done" => stored >= n /\ (deletion = "none" => file)

\* Whatever fails, dies or overlaps, no write replaces a transcript by an
\* older one or by part of one.
NeverGoesBack == [][stored' >= stored]_stored

\* Every caller hears: no promise is left pending by an error or because its
\* transcript was coalesced away.
CallersAnswered ==
    \A n \in Contents : answer[n] = "waiting" ~> answer[n] # "waiting"

\* The promise of DurableTranscript is kept.
Promise == INSTANCE DurableTranscript WITH durable <- stored
KeepsPromise == Promise!Spec

\* Of the comment on resolveSessionRow: a message write does not recreate the
\* files of a session that has neither a row nor a manifest.
NoOrphanedFiles == ~row /\ ~manifest => ~file
=============================================================================
