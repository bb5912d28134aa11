------------------------------ MODULE FuzzLock ------------------------------
(***************************************************************************)
(* cargo xtask fuzz-lock (xtask/src/fuzz_lock.rs): the committed lockfiles *)
(* of the fuzz workspaces are checked against the root Cargo.lock, or      *)
(* regenerated from it.  A lockfile is the set of packages it pins; a      *)
(* version is <<major, minor, patch, suffix>>.  Cargo is external: an      *)
(* update ends with some lockfile that satisfies the manifest.             *)
(***************************************************************************)
EXTENDS Integers, Sequences

CONSTANTS
    Crates,          \* packages a lockfile may pin: [name, version, source]
    Workspaces,      \* the crates with a fuzz workspace, sorted
    Needs,           \* names of the packages each workspace uses
    RootLocks,       \* lockfiles the root may have
    Workflows,       \* the workflows whose matrix must list every workspace
    Missing,         \* no lockfile
    MaxRuns, MaxUpdates

VARIABLES
    root,        \* the root Cargo.lock
    locks,       \* the lockfile of each workspace, or Missing
    listed,      \* workspaces in the matrix of each workflow
    job,         \* the run: where it is and what it remembers
    verdict,     \* how the last run ended
    committed,   \* the lockfiles before the last run
    synced,      \* workspaces whose cargo update succeeded in it
    spoilt,      \* workspaces where the run was killed or the disk failed
    runs, updates

fuzzVars == <<root, locks, listed, job, verdict, committed, synced, spoilt, runs, updates>>

-----------------------------------------------------------------------------
Named == {Workspaces[k] : k \in DOMAIN Workspaces}

ASSUME FuzzAssumption ==
    /\ Workspaces \in Seq(Named) /\ Workspaces # <<>>
    /\ \A p \in Crates : \A k \in 1..3 : p.version[k] \in Nat
    /\ RootLocks \subseteq SUBSET Crates

NoRun == [pc |-> "idle", sync |-> FALSE, root |-> {}, todo |-> <<>>, previous |-> Missing,
          failures |-> FALSE]

\* The lockfiles cargo accepts for a workspace: one package for every need.
Resolutions(ws) ==
    {{pick[n] : n \in Needs[ws]} :
        pick \in {p \in [Needs[ws] -> Crates] : \A n \in Needs[ws] : p[n].name = n}}

\* The semver bucket of a version: up to its first component that is not 0.
compat_key(v) ==
    IF v[1] # 0 THEN <<v[1]>> ELSE IF v[2] # 0 THEN <<0, v[2]>> ELSE <<0, 0, v[3]>>

\* A `- crate: ws` line in the matrix of a workflow.
lists_crate(wf, ws) == ws \in listed[wf]

\* The packages the root pins in the same bucket, and pins differently.
drift(pins, fuzz) ==
    {p \in fuzz :
        LET pinned == {r \in pins : r.name = p.name /\ compat_key(r.version) = compat_key(p.version)}
        IN  pinned # {} /\ p \notin pinned}

-----------------------------------------------------------------------------
FuzzInit ==
    /\ root \in RootLocks
    /\ locks \in {f \in [Named -> {Missing} \cup UNION {Resolutions(ws) : ws \in Named}] :
                     \A ws \in Named : f[ws] = Missing \/ f[ws] \in Resolutions(ws)}
    /\ listed \in [Workflows -> {Named, {Workspaces[1]}}]
    /\ job = NoRun /\ verdict = "none" /\ committed = locks
    /\ synced = {} /\ spoilt = {} /\ runs = 0 /\ updates = 0

\* cargo update at the root, also while a run is under way.
UpdateRoot ==
    /\ updates < MaxUpdates
    /\ root' \in RootLocks \ {root}
    /\ updates' = updates + 1
    /\ UNCHANGED <<locks, listed, job, verdict, committed, synced, spoilt, runs>>

\* run: the root lockfile and the workflows are read once.
StartRun(sync) ==
    /\ job.pc = "idle" /\ runs < MaxRuns
    /\ job' = [NoRun EXCEPT !.pc = "next", !.sync = sync, !.root = root, !.todo = Workspaces]
    /\ runs' = runs + 1 /\ verdict' = "none"
    /\ committed' = locks /\ synced' = {} /\ spoilt' = {}
    /\ UNCHANGED <<root, locks, listed, updates>>

\* run returns; an error of sync_from_root ends it at once.
EndRun(how) == job' = [NoRun EXCEPT !.root = job.root] /\ verdict' = how

\* The next workspace: its matrix entries, then the sync or the check.
TakeWorkspace ==
    /\ job.pc = "next" /\ job.todo # <<>>
    /\ job' = [job EXCEPT
                  !.pc = IF job.sync THEN "seed" ELSE "check",
                  !.failures = @ \/ \E wf \in Workflows : ~lists_crate(wf, Head(job.todo))]
    /\ UNCHANGED <<root, locks, listed, verdict, committed, synced, spoilt, runs, updates>>

\* sync_from_root: the previous lockfile is remembered and the root's copied
\* over it, unless the disk fails.
SeedLock ==
    /\ job.pc = "seed"
    /\ LET ws == Head(job.todo) IN
       \/ /\ job' = [job EXCEPT !.pc = "update", !.previous = locks[ws]]
          /\ locks' = [locks EXCEPT ![ws] = root]
          /\ UNCHANGED <<verdict, spoilt>>
       \/ EndRun("failed") /\ spoilt' = spoilt \cup {ws} /\ UNCHANGED locks
    /\ UNCHANGED <<root, listed, committed, synced, runs, updates>>

\* cargo update --workspace prunes the copy,
CargoUpdates ==
    /\ job.pc = "update"
    /\ \E lock \in Resolutions(Head(job.todo)) :
          locks' = [locks EXCEPT ![Head(job.todo)] = lock]
    /\ job' = [job EXCEPT !.pc = "check", !.previous = Missing]
    /\ synced' = synced \cup {Head(job.todo)}
    /\ UNCHANGED <<root, listed, verdict, committed, spoilt, runs, updates>>

\* Plausible fault: the error of cargo is returned before the restoration.
CargoFailsEarly ==
    /\ job.pc = "update"
    /\ EndRun("failed")
    /\ UNCHANGED <<root, locks, listed, committed, synced, spoilt, runs, updates>>

\* or fails: the previous lockfile is put back, and the run ends.
CargoFails ==
    /\ job.pc = "update"
    /\ EndRun("failed")
    /\ \/ locks' = [locks EXCEPT ![Head(job.todo)] = job.previous] /\ UNCHANGED spoilt
       \/ spoilt' = spoilt \cup {Head(job.todo)} /\ UNCHANGED locks
    /\ UNCHANGED <<root, listed, committed, synced, runs, updates>>

\* cargo check --locked passes only if the lockfile satisfies the manifest.
Locked(ws) == locks[ws] \in Resolutions(ws)

\* check: the lockfile is there, has not drifted, and cargo check --locked
\* passes; a target that does not compile fails it too.
CheckLock ==
    /\ job.pc = "check"
    /\ LET ws == Head(job.todo)
           sound == locks[ws] # Missing /\ drift(job.root, locks[ws]) = {} /\ Locked(ws)
       IN  \E ok \in {sound, FALSE} :
              job' = [job EXCEPT !.pc = "next", !.todo = Tail(@), !.failures = @ \/ ~ok]
    /\ UNCHANGED <<root, locks, listed, verdict, committed, synced, spoilt, runs, updates>>

FinishRun ==
    /\ job.pc = "next" /\ job.todo = <<>>
    /\ EndRun(IF job.failures THEN "failed" ELSE "ok")
    /\ UNCHANGED <<root, locks, listed, committed, synced, spoilt, runs, updates>>

\* The command is interrupted.
KillRun ==
    /\ job.pc # "idle" /\ EndRun("killed")
    /\ spoilt' = IF job.pc = "update" THEN spoilt \cup {Head(job.todo)} ELSE spoilt
    /\ UNCHANGED <<root, locks, listed, committed, synced, runs, updates>>

FuzzNext ==
    \/ UpdateRoot \/ TakeWorkspace \/ SeedLock \/ CargoUpdates \/ CargoFails \/ CheckLock
    \/ FinishRun \/ KillRun
    \/ \E sync \in BOOLEAN : StartRun(sync)

FuzzSpec == FuzzInit /\ [][FuzzNext]_fuzzVars

-----------------------------------------------------------------------------
(* Properties *)

\* Cargo takes two versions for one dependency if the first component that is
\* not 0 in either is the same in both.
Compatible(v, w) ==
    \E k \in 1..3 : /\ \A j \in 1..(k - 1) : v[j] = 0 /\ w[j] = 0
                    /\ v[k] = w[k] /\ (v[k] # 0 \/ k = 3)

\* The lockfile pins every package it shares with the root as the root does.
InStep(pins, fuzz) ==
    \A p \in fuzz :
        (\E r \in pins : r.name = p.name /\ Compatible(r.version, p.version)) => p \in pins

\* Fuzzing exercises the dependencies the workspace ships, and a sync loses no
\* lockfile: when run returns Ok, every fuzz workspace is in both matrices and
\* has a lockfile that satisfies its manifest in step with the root's as it was
\* read; and whatever run returned, a workspace whose cargo update did not
\* succeed has the lockfile it had, unless the disk failed or the command was
\* killed between the copy and the update.
LocksInStep ==
    /\ verdict = "ok" =>
          \A ws \in Named :
              /\ \A wf \in Workflows : ws \in listed[wf]
              /\ locks[ws] \in Resolutions(ws) /\ InStep(job.root, locks[ws])
    /\ job.pc = "idle" =>
          \A ws \in Named \ (synced \cup spoilt) : locks[ws] = committed[ws]

=============================================================================
