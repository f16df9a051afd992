---------------------------- MODULE FolderHistory ----------------------------
(***************************************************************************)
(* The history of a folder of secrets, and going back in it:               *)
(* services/folder-commit and ee/services/pit.                             *)
(*                                                                         *)
(* A request changes secrets in a database transaction (read committed),   *)
(* which also inserts a commit, numbered by a sequence, with the changes.  *)
(* Now and then the transaction adds a checkpoint to its commit: the       *)
(* contents of the folder.  The state of the folder at a commit is         *)
(* reconstructed from the nearest checkpoint before it and the commits in  *)
(* between.  A rollback, or the reversal of one commit, compares two such  *)
(* states, each read from a replica, and then applies the differences in a *)
(* transaction.                                                            *)
(*                                                                         *)
(* A version of a secret is its contents.  Subfolders and personal secrets *)
(* are left out.  Transactions insert their commits in the order in which  *)
(* they begin.                                                             *)
(***************************************************************************)
EXTENDS Naturals, Sequences, FiniteSets, SequencesExt

CONSTANTS
  Secrets,    \* ids of shared secrets of the folder
  Values,     \* contents of a secret
  Absent,     \* the contents of one that there is not
  Txs,        \* requests, over all pods
  Window,     \* PIT_CHECKPOINT_WINDOW
  MaxEdit,    \* bound: secrets that an edit changes
  MaxCommits  \* bound: commits that are begun

ASSUME HistoryAssumption ==
  /\ Absent \notin Values
  /\ Window \in Nat \ {0} /\ MaxCommits \in Nat /\ MaxEdit \in Nat

VARIABLES
  folder,  \* contents of the secrets, as far as committed
  log,     \* the transactions with a commit, in the order in which they became visible
  nextId,  \* the sequence of commitId
  tx,      \* the requests
  marks    \* history: what has happened, see Marks

vars == <<folder, log, nextId, tx, marks>>

Contents == Values \cup {Absent}
Folders == [Secrets -> Contents]
\* Changes of some of the secrets; Absent deletes.
Changes == UNION {[D -> Contents] : D \in SUBSET Secrets}
Nothing == [s \in {} |-> Absent]

\* `change' is what the commit says, `effect' what the transaction did; the
\* checkpoint is Nothing, or the contents of the folder.
Commit == [id : 1..MaxCommits, change : Changes, effect : Changes, checkpoint : {Nothing} \cup Folders]

\* A request is idle, has compared states, has inserted its commit, must add a
\* checkpoint, or can commit.  Of a rollback: `seen' is how much of the log there
\* was, `creates' the secrets to create, `target' the commit to go back to, 0
\* when it is no whole state, or the replicas lagged.
Request == [state : {"idle", "compared", "written", "due", "ready"},
            commit : Commit \cup {<<>>}, seen : Nat,
            diff : Changes, creates : SUBSET Secrets, target : 0..MaxCommits]
Idle == [state |-> "idle", commit |-> <<>>, seen |-> 0, diff |-> Nothing, creates |-> {}, target |-> 0]

\* A commit became visible after one with a higher number; or after the checkpoint
\* of one was read; a rollback changed a secret that was gone.
Marks == {"late", "blind", "ghost"}

Init ==
  /\ folder = [s \in Secrets |-> Absent]
  /\ log = <<>>
  /\ nextId = 1
  /\ tx = [t \in Txs |-> Idle]
  /\ marks = {}

Open(t) == tx[t].state \in {"written", "due", "ready"}
Locked(s) == \E t \in Txs : Open(t) /\ s \in DOMAIN tx[t].commit.effect
With(f, change) == [s \in Secrets |-> IF s \in DOMAIN change THEN change[s] ELSE f[s]]

-----------------------------------------------------------------------------
(* The history, as far as the log l goes.                                  *)

Ids(l) == {c.id : c \in Range(l)}
Newest(cs) == CHOOSE c \in cs : \A d \in cs : d.id <= c.id
Latest(l) == Newest(Range(l)).id

Checkpoints(l, id) == {c \in Range(l) : c.checkpoint # Nothing /\ c.id <= id}

\* Mutant of Between: the last commit is left out.
Between_Exclusive(l, from, to) == {c \in Range(l) : from < c.id /\ c.id < to}

\* findCommitsToRecreate
Between(l, from, to) == {c \in Range(l) : from < c.id /\ c.id <= to}

\* Of the changes of a secret the last one counts.
Replay(f, cs) ==
  [s \in Secrets |->
     LET touching == {c \in cs : s \in DOMAIN c.change} IN
     IF touching = {} THEN f[s] ELSE Newest(touching).change[s]]

Reconstructible(l, id) == Checkpoints(l, id) # {}

\* reconstructFolderState
Reconstruct(l, id) ==
  LET base == Newest(Checkpoints(l, id)) IN
  Replay(base.checkpoint, Between(l, base.id, id))

\* Mutant of Difference: what only the target has is forgotten.
Difference_NoCreates(from, to) == [s \in {s \in Secrets : from[s] # to[s] /\ from[s] # Absent} |-> to[s]]

\* compareFolderStates
Difference(from, to) == [s \in {s \in Secrets : from[s] # to[s]} |-> to[s]]

-----------------------------------------------------------------------------
(* Transactions.                                                           *)

\* The secrets, the commit with the next number of the sequence, its changes.
Write(t, r, change, effect) ==
  /\ nextId <= MaxCommits
  /\ \A s \in DOMAIN change : ~Locked(s)
  /\ tx' = [tx EXCEPT ![t] = [r EXCEPT !.state = "written",
       !.commit = [id |-> nextId, change |-> change, effect |-> effect, checkpoint |-> Nothing]]]
  /\ nextId' = nextId + 1
  /\ UNCHANGED <<folder, log, marks>>

\* A secret that is created has a new id.
New(s) == folder[s] = Absent /\ \A c \in Range(log) : s \notin DOMAIN c.change

\* Secrets are created, updated and deleted.  An update that changes nothing makes
\* no commit.
Edit(t, change) ==
  /\ tx[t].state = "idle"
  /\ change # Nothing /\ Cardinality(DOMAIN change) <= MaxEdit
  /\ \A s \in DOMAIN change : change[s] # folder[s] /\ (folder[s] # Absent \/ New(s))
  /\ Write(t, Idle, change, change)

\* Mutant of CheckpointDue: the first commit of a folder gets no checkpoint.
CheckpointDue_NotFirst(c) ==
  LET last == Checkpoints(log, MaxCommits)
      id == IF last = {} THEN 0 ELSE Newest(last).id IN
  Cardinality({d \in Range(log) \cup {c} : d.id > id}) >= Window

\* createFolderCheckpoint: the folder has none, or enough commits since the last.
CheckpointDue(c) ==
  LET last == Checkpoints(log, MaxCommits) IN
  \/ last = {}
  \/ Cardinality({d \in Range(log) \cup {c} : d.id > Newest(last).id}) >= Window

Decide(t) ==
  /\ tx[t].state = "written"
  /\ tx' = [tx EXCEPT ![t].state = IF CheckpointDue(tx[t].commit) THEN "due" ELSE "ready"]
  /\ UNCHANGED <<folder, log, nextId, marks>>

\* Mutant of Resources: they are read outside of the transaction.
Resources_Outside(t) == folder

\* getFolderResources: what is committed, and the transaction's own changes.
Resources(t) == With(folder, tx[t].commit.effect)

AddCheckpoint(t) ==
  /\ tx[t].state = "due"
  /\ tx' = [tx EXCEPT ![t].state = "ready", ![t].commit.checkpoint = Resources(t)]
  /\ UNCHANGED <<folder, log, nextId, marks>>

\* Numbers of the checkpoints that have been read, visible or not.
CheckpointIds ==
  {c.id : c \in {d \in Range(log) \cup {tx[t].commit : t \in {u \in Txs : Open(u)}} : d.checkpoint # Nothing}}

Finish(t) ==
  LET c == tx[t].commit IN
  /\ tx[t].state = "ready"
  /\ log' = Append(log, c)
  /\ folder' = With(folder, c.effect)
  /\ tx' = [tx EXCEPT ![t] = Idle]
  /\ marks' = marks \cup
       {m \in Marks : \/ m = "late" /\ \E id \in Ids(log) : id > c.id
                      \/ m = "blind" /\ \E id \in CheckpointIds : id > c.id
                      \/ m = "ghost" /\ c.effect # c.change}
  /\ UNCHANGED nextId

\* The request fails, or its pod dies: the transaction is rolled back, but not the
\* sequence.
Abort(t) ==
  /\ tx[t].state # "idle"
  /\ tx' = [tx EXCEPT ![t] = Idle]
  /\ UNCHANGED <<folder, log, nextId, marks>>

-----------------------------------------------------------------------------
(* Going back.                                                             *)

Compared(t, from, diff, target) ==
  /\ tx' = [tx EXCEPT ![t] = [Idle EXCEPT !.state = "compared", !.diff = diff, !.target = target,
                                          !.seen = IF target = 0 THEN 0 ELSE Len(log),
                                          !.creates = {s \in DOMAIN diff : from[s] = Absent}]]
  /\ UNCHANGED <<folder, log, nextId, marks>>

\* rollbackToCommit: the latest state, on a replica that has the first n
\* transactions, and the one to go back to, on one that has the first m.
Rollback(t, n, m, id) ==
  LET here == SubSeq(log, 1, n)
      there == SubSeq(log, 1, m)
      now == Reconstruct(here, Latest(here)) IN
  /\ tx[t].state = "idle"
  /\ Reconstructible(here, Latest(here))
  /\ id \in Ids(there) /\ Reconstructible(there, id)
  /\ Compared(t, now, Difference(now, Reconstruct(there, id)),
              IF n = Len(log) /\ m = n THEN id ELSE 0)

\* revertCommitChanges: of the way back from a commit to the one before, what still
\* makes sense in the latest state.
Revert(t, n, m, id) ==
  LET here == SubSeq(log, 1, n)
      there == SubSeq(log, 1, m)
      before == {c \in Range(there) : c.id < id}
      previous == Newest(before).id
      now == Reconstruct(here, Latest(here))
      from == Reconstruct(there, id)
      inverse == Difference(from, Reconstruct(there, previous))
      kept == {s \in DOMAIN inverse : (from[s] = Absent) <=> (now[s] = Absent)} IN
  /\ tx[t].state = "idle"
  /\ Reconstructible(here, Latest(here))
  /\ id \in Ids(there) /\ before # {} /\ Reconstructible(there, previous)
  /\ kept # {}
  /\ Compared(t, from, [s \in kept |-> inverse[s]],
              IF n = Len(log) /\ m = n /\ id = Latest(here) THEN previous ELSE 0)

\* applyFolderStateDifferences: the update or deletion of a secret that is gone does
\* nothing, but the commit says that it was done.
Apply(t) ==
  LET r == tx[t] IN
  /\ r.state = "compared"
  /\ \A s \in r.creates : folder[s] = Absent
  /\ Write(t, r, r.diff, [s \in {s \in DOMAIN r.diff : s \in r.creates \/ folder[s] # Absent} |-> r.diff[s]])

-----------------------------------------------------------------------------
Next ==
  \E t \in Txs :
    \/ \E change \in Changes : Edit(t, change)
    \/ \E n, m \in 1..Len(log), id \in Ids(log) : Rollback(t, n, m, id) \/ Revert(t, n, m, id)
    \/ Apply(t) \/ Decide(t) \/ AddCheckpoint(t) \/ Finish(t) \/ Abort(t)

Spec == Init /\ [][Next]_vars

-----------------------------------------------------------------------------
(* Properties.                                                             *)

TypeOK ==
  /\ folder \in Folders
  /\ log \in Seq(Commit)
  /\ \A i, j \in DOMAIN log : log[i].id = log[j].id => i = j
  /\ nextId \in 1..MaxCommits + 1
  /\ tx \in [Txs -> Request]
  /\ marks \subseteq Marks

\* The latest state of the history is what the folder holds, through overlapping
\* transactions, commits that become visible out of order, and rollbacks that
\* compared outdated states, unless a checkpoint missed a commit with a smaller
\* number, or a rollback changed a secret that was gone.
LatestIsFolder ==
  log # <<>> /\ marks \cap {"blind", "ghost"} = {} /\ Reconstructible(log, Latest(log)) =>
    Reconstruct(log, Latest(log)) = folder

\* Checkpoints only save time: every state that is reconstructed is the one that all
\* commits up to it make, unless numbers and visibility disagree, or a rollback
\* changed a secret that was gone.
CheckpointsAgree ==
  marks = {} =>
    \A id \in Ids(log) : Reconstruct(log, id) = Replay([s \in Secrets |-> Absent], Between(log, 0, id))

\* Every commit that is visible can be gone back to, unless it became visible after
\* one with a higher number.
EveryCommitHasState ==
  "late" \notin marks => \A id \in Ids(log) : Reconstructible(log, id)

\* The folder when a commit of the log l became visible.
FolderAt(l, id) ==
  LET i == CHOOSE j \in DOMAIN l : l[j].id = id
      touching(s) == {j \in 1..i : s \in DOMAIN l[j].effect} IN
  [s \in Secrets |->
     IF touching(s) = {} THEN Absent
     ELSE LET j == CHOOSE j \in touching(s) : \A k \in touching(s) : k <= j IN l[j].effect[s]]

\* A rollback, and the reversal of the latest commit, give the folder the contents
\* that it had at that commit, unless something became visible since they compared.
GoingBackRestores ==
  [][\A t \in Txs :
       /\ tx[t].state = "ready" /\ log' # log /\ Last(log').id = tx[t].commit.id
       /\ tx[t].target # 0 /\ tx[t].seen = Len(log) /\ marks = {}
       => folder' = FolderAt(log, tx[t].target)]_vars
=============================================================================
