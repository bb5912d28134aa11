---------------------------- MODULE JsonFileStore ---------------------------
(***************************************************************************)
(* hap-pairing's JsonFileStore: each mutating call takes the write lock,   *)
(* reads the document from its path, changes it, writes the whole of it to *)
(* a temporary file and renames that over the path.  Tasks run             *)
(* concurrently and the process may crash between any two file-system      *)
(* calls.  The loads take no lock: what they return is OnDisk.             *)
(*                                                                         *)
(* A file is an inode: `dir` says which one a name refers to, and a writer *)
(* goes on writing to the inode it opened, whatever its name has become.   *)
(***************************************************************************)
EXTENDS Naturals

CONSTANTS Tasks, Ids, Identities, Pairings, Broadcasts, None,
          Inodes,      \* files the file system can hold
          Torn,        \* contents that are no complete document
          MaxCalls,    \* bound on the calls made
          MaxCrashes   \* bound on the crashes of the process

VARIABLES dir,       \* the inode of "path" and of "tmp", or None
          content,   \* what each inode holds
          lock,      \* write_lock: the task that holds it
          task,      \* each task's place in its call
          outcome,   \* how the last call of each task ended
          late,      \* file-system calls whose caller was cancelled
          calls, crashes

store == <<dir, content>>
vars == <<dir, content, lock, task, outcome, late, calls, crashes>>

\* read_doc: a missing file is an empty document
OnDisk == IF dir.path = None
          THEN [controller |-> None, accessories |-> [i \in Ids |-> None]]
          ELSE content[dir.path]

Contract == INSTANCE PairingStore
    WITH doc <- OnDisk, pending <- [t \in Tasks |-> task[t].call]

\* the marks for "nothing" and "unreadable" are no values of the program
ASSUME MarksAssumption ==
    /\ None \notin Tasks /\ None \notin Inodes /\ None \notin Contract!Calls
    /\ Torn \notin Contract!Documents

ASSUME BoundsAssumption == MaxCalls \in Nat /\ MaxCrashes \in Nat

Idle == [pc |-> "idle", call |-> None, doc |-> None, file |-> None]

Init ==
    /\ dir = [path |-> None, tmp |-> None]
    /\ content = [f \in Inodes |-> Torn]
    /\ lock = None
    /\ task = [t \in Tasks |-> Idle]
    /\ outcome = [t \in Tasks |-> None]
    /\ late = {}
    /\ calls = 0 /\ crashes = 0

At(t, pc) == task[t].pc = pc

\* a call returns; its guard, if it has one, is dropped
Return(t, res) ==
    /\ task' = [task EXCEPT ![t] = Idle]
    /\ outcome' = [outcome EXCEPT ![t] = res]
    /\ lock' = IF lock = t THEN None ELSE lock

Call(t, c) ==
    /\ At(t, "idle") /\ calls < MaxCalls
    /\ calls' = calls + 1
    /\ task' = [task EXCEPT ![t] = [Idle EXCEPT !.pc = "locking", !.call = c]]
    /\ outcome' = [outcome EXCEPT ![t] = None]
    /\ UNCHANGED <<store, lock, late, crashes>>

Lock(t) ==
    /\ At(t, "locking") /\ lock = None
    /\ lock' = t
    /\ task' = [task EXCEPT ![t].pc = "reading"]
    /\ UNCHANGED <<store, outcome, late, calls, crashes>>

\* fault: the document is put together afresh, without reading the old one
ReadAfresh(t) ==
    /\ At(t, "reading") /\ OnDisk # Torn
    /\ task' = [task EXCEPT ![t].pc = "creating",
                            ![t].doc = Contract!Apply(task[t].call, Contract!EmptyDocument)]
    /\ UNCHANGED <<store, lock, outcome, late, calls, crashes>>

\* read_doc and the change; a broadcast that is not saved writes no file
Read(t) ==
    /\ At(t, "reading") /\ OnDisk # Torn
    /\ LET c == task[t].call IN
         IF c.call = "save_broadcast_state" /\ ~Contract!IsBle(OnDisk.accessories[c.id])
         THEN Return(t, "ok")
         ELSE /\ task' = [task EXCEPT ![t].pc = "creating",
                                      ![t].doc = Contract!Apply(c, OnDisk)]
              /\ UNCHANGED <<lock, outcome>>
    /\ UNCHANGED <<store, late, calls, crashes>>

\* an inode that no name and no open file refers to
Unused(f) ==
    /\ f # dir.path /\ f # dir.tmp
    /\ \A t \in Tasks : task[t].file # f
    /\ \A l \in late : l.file # f

\* File::create truncates the file of that name, or makes one
Opened(name, f) ==
    /\ IF dir[name] # None THEN f = dir[name] ELSE Unused(f)
    /\ dir' = [dir EXCEPT ![name] = f]
    /\ content' = [content EXCEPT ![f] = Torn]

Create(t) ==
    /\ At(t, "creating")
    /\ \E f \in Inodes :
         /\ Opened("tmp", f)
         /\ task' = [task EXCEPT ![t].pc = "writing", ![t].file = f]
    /\ UNCHANGED <<lock, outcome, late, calls, crashes>>

\* write_all and sync_all
WriteAll(t) ==
    /\ At(t, "writing")
    /\ content' = [content EXCEPT ![task[t].file] = task[t].doc]
    /\ task' = [task EXCEPT ![t].pc = "renaming"]
    /\ UNCHANGED <<dir, lock, outcome, late, calls, crashes>>

Renamed == dir' = IF dir.tmp = None THEN dir ELSE [path |-> dir.tmp, tmp |-> None]

Rename(t) ==
    /\ At(t, "renaming")
    /\ Renamed
    /\ Return(t, IF dir.tmp = None THEN "err" ELSE "ok")
    /\ UNCHANGED <<content, late, calls, crashes>>

Holding == {"reading", "creating", "writing", "renaming"}

\* a file-system call fails (the document does not parse, the disk is full),
\* or the caller drops the future before the call was started
Fail(t) ==
    /\ task[t].pc \in Holding
    /\ Return(t, "err")
    /\ UNCHANGED <<store, late, calls, crashes>>

\* the caller drops the future while it waits for the lock
CancelWait(t) ==
    /\ At(t, "locking")
    /\ Return(t, "err")
    /\ UNCHANGED <<store, late, calls, crashes>>

Crash ==
    /\ crashes < MaxCrashes
    /\ crashes' = crashes + 1
    /\ task' = [t \in Tasks |-> Idle]
    /\ outcome' = [t \in Tasks |-> None]
    /\ lock' = None /\ late' = {}
    /\ UNCHANGED <<store, calls>>

Step(t) == Lock(t) \/ Read(t) \/ Create(t) \/ WriteAll(t) \/ Rename(t)

Next ==
    \/ \E t \in Tasks :
          \/ \E c \in Contract!Calls : Call(t, c)
          \/ Step(t)
          \/ Fail(t)
          \/ CancelWait(t)
    \/ Crash

Spec == Init /\ [][Next]_vars

-----------------------------------------------------------------------------
(* tokio::fs runs every call on a blocking thread: when the future of a    *)
(* call that was started is dropped (a SleepyWatch aborts its task), the   *)
(* guard goes at once and the call is carried out later.                   *)

CancelMidCall(t) ==
    /\ task[t].pc \in {"creating", "writing", "renaming"}
    /\ late' = late \cup {[pc |-> task[t].pc, doc |-> task[t].doc, file |-> task[t].file]}
    /\ Return(t, "err")
    /\ UNCHANGED <<store, calls, crashes>>

LateCall(l) ==
    /\ late' = late \ {l}
    /\ \/ l.pc = "creating" /\ \E f \in Inodes : Opened("tmp", f)
       \/ /\ l.pc = "writing"
          /\ content' = [content EXCEPT ![l.file] = l.doc] /\ UNCHANGED dir
       \/ l.pc = "renaming" /\ Renamed /\ UNCHANGED content
    /\ UNCHANGED <<lock, task, outcome, calls, crashes>>

CancelNext ==
    \/ Next
    \/ \E t \in Tasks : CancelMidCall(t)
    \/ \E l \in late : LateCall(l)

CancelSpec == Init /\ [][CancelNext]_vars

-----------------------------------------------------------------------------
Places == {"idle", "locking"} \cup Holding

TypeOK ==
    /\ dir \in [path : Inodes \cup {None}, tmp : Inodes \cup {None}]
    /\ content \in [Inodes -> Contract!Documents \cup {Torn}]
    /\ lock \in Tasks \cup {None}
    /\ task \in [Tasks -> [pc : Places, call : Contract!Calls \cup {None},
                           doc : Contract!Documents \cup {None}, file : Inodes \cup {None}]]
    /\ outcome \in [Tasks -> {"ok", "err", None}]
    /\ calls \in 0..MaxCalls /\ crashes \in 0..MaxCrashes

\* Whatever crashes and whichever calls fail, the file at the store's path is
\* one complete document: no load can meet a half-written one (write_doc
\* "overwriting the file atomically").
FileReadable == OnDisk # Torn

\* The calls of concurrent tasks take effect one after the other, each at one
\* moment between its start and its successful return, and a call that failed
\* or was cut off by a crash took no effect: no saved pairing is lost to
\* another task's rewrite of the whole document.
AtomicStore == Contract!Spec

=============================================================================
