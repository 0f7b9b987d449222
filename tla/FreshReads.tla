---------------------------- MODULE FreshReads ----------------------------
(***************************************************************************)
(* The pre-write freshness guard ("section 3c") on top of the file locks:  *)
(* the read and authored records of LockState and their lock_reads mirror, *)
(* the gate in begin_guard_after_wait, the stability check of the tools    *)
(* (existing_file_unchanged), note_read and note_authored after the        *)
(* release, the record's invalidation by idle expiry, and the remote file  *)
(* API's base-hash check. The lock itself is PathWriters, which FileLocks  *)
(* implements; one API request runs at a time. Nothing but the tools and   *)
(* the API changes files here.                                             *)
(***************************************************************************)
CONSTANTS
  Owners,     \* (session, lock identity) pairs that run tool calls
  Paths,      \* canonical paths
  Contents,   \* what a file may hold; a hash stands for what it hashes
  Empty,      \* the content of an empty file
  NoFile,     \* there is no file; also the hash file_hash cannot compute
  None,       \* no record, no sweep
  Api,        \* the remote file API's lock identity
  Kinds,      \* the tools the agents call
  Idlers,     \* the owners whose holds may reach LOCK_IDLE_TIMEOUT
  DbMayFail,  \* a database write may fail
  MayAbandon, \* a call may be dropped at an await
  MayCrash    \* the daemon may stop and restart

\* `write` of a missing file creates it, of an existing one replaces it.
ToolKinds == {"read", "create", "replace", "edit", "delete"}
States == Contents \cup {NoFile}
Records == States \cup {None}

ASSUME ContentsAssumption == Empty \in Contents /\ NoFile \notin Contents /\ None \notin States
ASSUME WritersAssumption == Api \notin Owners /\ Idlers \subseteq Owners
ASSUME FilesAssumption == Paths # {} /\ Kinds \subseteq ToolKinds
ASSUME FailureAssumption == {DbMayFail, MayAbandon, MayCrash} \subseteq BOOLEAN

VARIABLES
  content,   \* the files
  inside,    \* PathWriters: who is between the gate and the mutation
  reads,     \* LockState.read_tracker: owner -> path -> hash or None
  dbReads,   \* lock_reads
  authored,  \* LockState.authored_tracker: owner -> path -> hash or None
  op,        \* the tool call each owner is in
  api,       \* the file-API request
  sweep,     \* the record the sweeper is dropping
  expired    \* history: the (owner, path) holds reclaimed since their last read

records == <<reads, dbReads, authored>>
vars == <<content, inside, records, op, api, sweep, expired>>

Locks == INSTANCE PathWriters WITH Writers <- Owners \cup {Api}

AnyPath == CHOOSE p \in Paths : TRUE

Calls == [pc : {"idle", "ready", "guard", "checked", "note", "notedb", "notemem"},
          kind : ToolKinds, path : Paths,
          bytes : States] \* read before the lock was asked for; once the call
                          \* is in note_read, the hash it computed

NoCall == [pc |-> "idle", kind |-> "read", path |-> AnyPath, bytes |-> NoFile]

NoRequest == [pc |-> "idle", path |-> AnyPath, base |-> None]

Sweeps == [owner : Owners, path : Paths, refreshed : BOOLEAN,
           grant : Records, stage : {"mem", "restore"}]

TypeOK ==
  /\ content \in [Paths -> States]
  /\ inside \subseteq (Owners \cup {Api}) \X Paths
  /\ reads \in [Owners -> [Paths -> Records]]
  /\ dbReads \in [Owners -> [Paths -> Records]]
  /\ authored \in [Owners -> [Paths -> Contents \cup {None}]]
  /\ op \in [Owners -> Calls]
  /\ api \in [pc : {"idle", "in", "checked"}, path : Paths, base : Contents \cup {None}]
  /\ sweep \in Sweeps \cup {None}
  /\ expired \subseteq Owners \X Paths

NoRecords == [o \in Owners |-> [p \in Paths |-> None]]

Init ==
  /\ content \in [Paths -> States]
  /\ inside = {}
  /\ reads = NoRecords
  /\ dbReads = NoRecords
  /\ authored = NoRecords
  /\ op = [o \in Owners |-> NoCall]
  /\ api = NoRequest
  /\ sweep = None
  /\ expired = {}

-----------------------------------------------------------------------------
At(o, pc) == op[o].pc = pc
Path(o) == op[o].path
Goto(o, pc) == op' = [op EXCEPT ![o].pc = pc]
EndCall(o) == op' = [op EXCEPT ![o] = NoCall]
Creates(o) == op[o].kind = "create"
Put(p, c) == content' = [content EXCEPT ![p] = c]

-----------------------------------------------------------------------------
(* Tool calls *)

\* The dispatcher's touch_holder runs first, then the tool reads the target's
\* bytes: `read` to show them, the others to check them again under the lock.
StartCall(o, kind, p) ==
  /\ At(o, "idle")
  /\ kind \in Kinds
  /\ (kind = "create") = (content[p] = NoFile)
  /\ op' = [op EXCEPT ![o] =
              IF kind = "read" THEN [NoCall EXCEPT !.pc = "note", !.path = p]
              ELSE [pc |-> "ready", kind |-> kind, path |-> p, bytes |-> content[p]]]
  /\ sweep' = IF sweep # None /\ sweep.owner = o
              THEN [sweep EXCEPT !.refreshed = TRUE] ELSE sweep
  /\ UNCHANGED <<content, inside, records, api, expired>>

\* Mutant: the record is looked up and its hash not compared.
HasRead(o) ==
  \/ Creates(o)
  \/ reads[o][Path(o)] # None
  \/ op[o].kind = "edit" /\ authored[o][Path(o)] # None

\* The gate under the lock. A blind write or delete needs a read record whose
\* hash is the file's; an anchored edit without a record may rely on content
\* its owner created; creating a file needs neither.
FreshRead(o) ==
  LET p == Path(o) known == reads[o][p] IN
  \/ Creates(o)
  \/ known \in Contents /\ known = content[p]
  \/ /\ known = None /\ op[o].kind = "edit"
     /\ authored[o][p] # None /\ authored[o][p] = content[p]

BeginGuard(o) ==
  /\ At(o, "ready")
  /\ Locks!Vacant(Path(o))
  /\ \/ FreshRead(o) /\ Locks!Enter(o, Path(o)) /\ Goto(o, "guard")
     \/ ~FreshRead(o) /\ EndCall(o) /\ UNCHANGED inside
  /\ UNCHANGED <<content, records, api, sweep, expired>>

\* Mutant: the bytes read before the approval prompt are taken as current.
AssumeUnchanged(o) == TRUE

\* existing_file_unchanged: the bytes are still those read before the lock.
Unchanged(o) == Creates(o) \/ content[Path(o)] = op[o].bytes

StabilityCheck(o) ==
  /\ At(o, "guard")
  /\ \/ Unchanged(o) /\ Goto(o, "checked") /\ UNCHANGED inside
     \/ ~Unchanged(o) /\ EndCall(o) /\ Locks!Leave(o, Path(o))
  /\ UNCHANGED <<content, records, api, sweep, expired>>

\* The mutation, and the release that follows it. Creating fails when a file
\* has appeared, replacing and deleting when it is gone.
Land(o, c) ==
  /\ At(o, "checked")
  /\ Creates(o) = (content[Path(o)] = NoFile)
  /\ (op[o].kind = "delete") = (c = NoFile)
  /\ Put(Path(o), c)
  /\ Locks!Leave(o, Path(o))
  /\ op' = [op EXCEPT ![o] = [NoCall EXCEPT !.pc = "note", !.path = Path(o),
              !.kind = IF Creates(o) THEN "create" ELSE "read"]]
  /\ UNCHANGED <<records, api, sweep, expired>>

\* Refused, failed, or dropped by the dispatcher with a live guard.
GiveUp(o) ==
  /\ At(o, "guard") \/ At(o, "checked")
  /\ MayAbandon \/ Creates(o) # (content[Path(o)] = NoFile)
  /\ Locks!Leave(o, Path(o))
  /\ EndCall(o)
  /\ UNCHANGED <<content, records, api, sweep, expired>>

\* Dropped at another await. A database write already queued commits, which is
\* the call dropped one step later.
DropCall(o) ==
  /\ MayAbandon
  /\ op[o].pc \in {"ready", "note", "notedb", "notemem"}
  /\ EndCall(o)
  /\ UNCHANGED <<content, inside, records, api, sweep, expired>>

-----------------------------------------------------------------------------
(* note_read after a read, a replacement or a deletion; note_authored after *)
(* a file was created. Both hash the file as it is now.                     *)

\* Mutant: a file that is gone is recorded as authored too.
AuthorsAnyway(o) == [authored EXCEPT ![o][Path(o)] = content[Path(o)]]

\* note_authored; a file that cannot be hashed leaves the record as it was.
Authors(o) ==
  IF content[Path(o)] = NoFile THEN authored
  ELSE [authored EXCEPT ![o][Path(o)] = content[Path(o)]]

NoteHash(o) ==
  /\ At(o, "note")
  /\ \/ /\ Creates(o)
        /\ authored' = Authors(o)
        /\ EndCall(o)
     \/ /\ ~Creates(o)
        /\ op' = [op EXCEPT ![o].pc = "notedb", ![o].bytes = content[Path(o)]]
        /\ UNCHANGED authored
  /\ UNCHANGED <<content, inside, reads, dbReads, api, sweep, expired>>

NoteDb(o) ==
  /\ At(o, "notedb")
  /\ \/ /\ dbReads' = [dbReads EXCEPT ![o][Path(o)] = op[o].bytes]
        /\ expired' = expired \ {<<o, Path(o)>>}
        /\ Goto(o, "notemem")
     \/ DbMayFail /\ EndCall(o) /\ UNCHANGED <<dbReads, expired>>
  /\ UNCHANGED <<content, inside, reads, authored, api, sweep>>

NoteMemory(o) ==
  /\ At(o, "notemem")
  /\ reads' = [reads EXCEPT ![o][Path(o)] = op[o].bytes]
  /\ EndCall(o)
  /\ UNCHANGED <<content, inside, dbReads, authored, api, sweep, expired>>

-----------------------------------------------------------------------------
(* sweep_expired, for one hold *)

\* Mutant: idle expiry deletes the lock row and keeps the read record's.
KeepReadRow(o, p) == dbReads' = dbReads

\* lock_release_and_delete_reads, before memory is touched.
DeleteReadRow(o, p) == dbReads' = [dbReads EXCEPT ![o][p] = None]

\* The snapshot and the row deletion that follows; FileLocks has them apart. A call
\* that begins between the two is one that begins after the deletion.
SweepDb(o, p) ==
  /\ o \in Idlers
  /\ sweep = None
  /\ At(o, "idle")
  /\ DeleteReadRow(o, p)
  /\ sweep' = [owner |-> o, path |-> p, refreshed |-> FALSE, grant |-> None,
               stage |-> "mem"]
  /\ UNCHANGED <<content, inside, reads, authored, op, api, expired>>

\* Still idle: the hold and the record go. Refreshed by a call since, and
\* still held: the record is to be written back; no longer held: nothing.
SweepMemory ==
  /\ sweep # None /\ sweep.stage = "mem"
  /\ LET o == sweep.owner p == sweep.path IN
     \/ /\ ~sweep.refreshed
        /\ reads' = [reads EXCEPT ![o][p] = None]
        /\ expired' = expired \cup {<<o, p>>}
        /\ sweep' = None
     \/ /\ sweep.refreshed
        /\ sweep' \in {None, [sweep EXCEPT !.stage = "restore", !.grant = reads[o][p]]}
        /\ UNCHANGED <<reads, expired>>
  /\ UNCHANGED <<content, inside, dbReads, authored, op, api>>

SweepRestore ==
  /\ sweep # None /\ sweep.stage = "restore"
  /\ \/ dbReads' = IF sweep.grant = None THEN dbReads
                   ELSE [dbReads EXCEPT ![sweep.owner][sweep.path] = sweep.grant]
     \/ DbMayFail /\ UNCHANGED dbReads
  /\ sweep' = None
  /\ UNCHANGED <<content, inside, reads, authored, op, api, expired>>

-----------------------------------------------------------------------------
(* The remote file API: fs_write with or without a base hash, fs_delete *)

\* hash_existing_or_empty: a missing file hashes like an empty one.
HashOrEmpty(c) == IF c = NoFile THEN Empty ELSE c

ApiBegin(p, base) ==
  /\ api.pc = "idle"
  /\ Locks!Enter(Api, p)
  /\ api' = [pc |-> "in", path |-> p, base |-> base]
  /\ UNCHANGED <<content, records, op, sweep, expired>>

ApiCheck ==
  /\ api.pc = "in"
  /\ \/ /\ api.base \in {None, HashOrEmpty(content[api.path])}
        /\ api' = [api EXCEPT !.pc = "checked"]
        /\ UNCHANGED inside
     \/ /\ api.base \notin {None, HashOrEmpty(content[api.path])}
        /\ api' = NoRequest
        /\ Locks!Leave(Api, api.path)
  /\ UNCHANGED <<content, records, op, sweep, expired>>

ApiWrite(c) ==
  /\ api.pc = "checked"
  /\ c = NoFile => api.base = None /\ content[api.path] # NoFile
  /\ Put(api.path, c)
  /\ Locks!Leave(Api, api.path)
  /\ api' = NoRequest
  /\ UNCHANGED <<records, op, sweep, expired>>

-----------------------------------------------------------------------------
\* from_db restores the read records from lock_reads; the authored records, the
\* calls and the sweep were only in memory.
Restart ==
  /\ MayCrash
  /\ Locks!Evict
  /\ reads' = dbReads
  /\ authored' = NoRecords
  /\ op' = [o \in Owners |-> NoCall]
  /\ api' = NoRequest
  /\ sweep' = None
  /\ UNCHANGED <<content, dbReads, expired>>

Next ==
  \/ \E o \in Owners, kind \in ToolKinds, p \in Paths : StartCall(o, kind, p)
  \/ \E o \in Owners : \/ BeginGuard(o) \/ StabilityCheck(o) \/ GiveUp(o) \/ DropCall(o)
                       \/ NoteHash(o) \/ NoteDb(o) \/ NoteMemory(o)
                       \/ \E c \in States : Land(o, c)
                       \/ \E p \in Paths : SweepDb(o, p)
  \/ SweepMemory \/ SweepRestore
  \/ \E p \in Paths, base \in Contents \cup {None} : ApiBegin(p, base)
  \/ ApiCheck
  \/ \E c \in States : ApiWrite(c)
  \/ Restart

Spec == Init /\ [][Next]_vars

-----------------------------------------------------------------------------
(* Properties *)

\* "changed while approval was pending; read it again before overwriting": what
\* a mutation replaces is what existing_file_unchanged, or the API's base-hash
\* check, compared, whatever other agents and the API do in between.
CheckedContentStable ==
  /\ \A o \in Owners :
       (At(o, "checked") /\ ~Creates(o)) => content[Path(o)] = op[o].bytes
  /\ (api.pc = "checked" /\ api.base # None)
       => HashOrEmpty(content[api.path]) = api.base

\* An existing file is replaced only by an agent that holds evidence, a read
\* record or its own creation, of exactly the bytes it replaces, from the gate
\* to the mutation.
ReplacesKnownBytes ==
  \A o \in Owners :
    (At(o, "checked") /\ ~Creates(o))
       => content[Path(o)] \in {reads[o][Path(o)], authored[o][Path(o)]}

\* "invalidates the read-record, so the former holder must re-read before
\* writing" (sweep_expired): after a hold was reclaimed its owner has no record
\* of the path until it notes one again, through crashes too.
ExpiredMustReread ==
  \A o \in Owners, p \in Paths : <<o, p>> \in expired => reads[o][p] = None
=============================================================================
