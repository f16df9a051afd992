------------------------ MODULE FolderHistoryProofs ------------------------
(***************************************************************************)
(* Safety of FolderHistory: its types, that every commit can be gone back  *)
(* to, and that what is reconstructed is what the folder held.             *)
(***************************************************************************)
EXTENDS FolderHistory, WellFoundedInduction, TLAPS

\* The folder before its first commit.
Empty == [s \in Secrets |-> Absent]

\* Commits with one number each.
Distinct(cs) == cs \subseteq Commit /\ \A c, d \in cs : c.id = d.id => c = d

\* What became visible with a higher number.
After(l, id) == {c \in Range(l) : c.id > id}

-----------------------------------------------------------------------------
(* Changes, commits and sequences of them.                                 *)

LEMMA MakesChanges ==
  ASSUME NEW D \in SUBSET Secrets, NEW f \in [D -> Contents]
  PROVE  f \in Changes
  BY DEF Changes

LEMMA ChangesTyped ==
  ASSUME NEW f \in Changes
  PROVE  /\ DOMAIN f \subseteq Secrets
         /\ f \in [DOMAIN f -> Contents]
  <1>1. PICK D \in SUBSET Secrets : f \in [D -> Contents]  BY DEF Changes
  <1>2. DOMAIN f = D  BY <1>1
  <1>3. QED  BY <1>1, <1>2

LEMMA NothingIsChange == Nothing \in Changes /\ DOMAIN Nothing = {}
  <1>1. Nothing \in [{} -> Contents] /\ {} \in SUBSET Secrets  BY DEF Nothing
  <1>2. Nothing \in Changes  BY <1>1, MakesChanges
  <1>3. QED  BY <1>2 DEF Nothing

LEMMA CommitTyped ==
  ASSUME NEW c \in Commit
  PROVE  /\ c.id \in 1..MaxCommits /\ c.id \in Nat
         /\ c.change \in Changes /\ c.effect \in Changes
         /\ c.checkpoint # Nothing => c.checkpoint \in Folders
  BY HistoryAssumption DEF Commit

LEMMA EmptyTyped == Empty \in Folders
  BY DEF Empty, Folders, Contents

LEMMA WithTyped ==
  ASSUME NEW f \in Folders, NEW g \in Changes
  PROVE  With(f, g) \in Folders
  BY ChangesTyped DEF With, Folders

\* The commits of a log, when one more is appended, and of a part of it.
LEMMA RangeOfAppend ==
  ASSUME NEW l \in Seq(Commit), NEW c \in Commit
  PROVE  Range(Append(l, c)) = Range(l) \cup {c}
  <1> DEFINE k == Append(l, c)
  <1>1. /\ DOMAIN k = 1..Len(l) + 1 /\ DOMAIN l = 1..Len(l) /\ Len(l) \in Nat
        /\ k[Len(l) + 1] = c
        /\ \A i \in 1..Len(l) : k[i] = l[i]
    OBVIOUS
  <1> HIDE DEF k
  <1>2. \A i \in DOMAIN k : i \in 1..Len(l) \/ i = Len(l) + 1  BY <1>1
  <1>3. Range(k) \subseteq Range(l) \cup {c}  BY <1>1, <1>2 DEF Range
  <1>4. Range(l) \cup {c} \subseteq Range(k)
    <2>1. Len(l) + 1 \in DOMAIN k /\ \A i \in DOMAIN l : i \in DOMAIN k  BY <1>1
    <2>2. QED  BY <1>1, <2>1 DEF Range
  <1>5. QED  BY <1>3, <1>4 DEF k

LEMMA RangeOfPart ==
  ASSUME NEW l \in Seq(Commit), NEW n \in 1..Len(l)
  PROVE  /\ SubSeq(l, 1, n) \in Seq(Commit)
         /\ Range(SubSeq(l, 1, n)) \subseteq Range(l)
         /\ n = Len(l) => SubSeq(l, 1, n) = l
  <1>1. Len(l) \in Nat /\ DOMAIN l = 1..Len(l)  OBVIOUS
  <1>2. \A i \in 1..n : SubSeq(l, 1, n)[i] = l[i] /\ i \in DOMAIN l  BY <1>1
  <1>3. SubSeq(l, 1, n) \in Seq(Commit) /\ DOMAIN SubSeq(l, 1, n) = 1..n  BY <1>1
  <1>4. Range(SubSeq(l, 1, n)) \subseteq Range(l)  BY <1>2, <1>3 DEF Range
  <1>5. n = Len(l) => SubSeq(l, 1, n) = l  BY <1>1
  <1>6. QED  BY <1>3, <1>4, <1>5

LEMMA RangeTyped ==
  ASSUME NEW l \in Seq(Commit)
  PROVE  /\ Range(l) \subseteq Commit
         /\ l # <<>> <=> Range(l) # {}
         /\ \A i \in 1..Len(l) : l[i] \in Range(l)
         /\ \A c \in Range(l) : \E i \in 1..Len(l) : c = l[i]
  <1>1. Len(l) \in Nat /\ DOMAIN l = 1..Len(l) /\ \A i \in 1..Len(l) : l[i] \in Commit  OBVIOUS
  <1>2. l # <<>> => 1 \in DOMAIN l  OBVIOUS
  <1>3. QED  BY <1>1, <1>2 DEF Range

-----------------------------------------------------------------------------
(* The newest of some commits.                                             *)

\* Some commits have a newest one, ...
LEMMA NewestIsLast ==
  ASSUME NEW cs \in SUBSET Commit, cs # {}
  PROVE  /\ Newest(cs) \in cs
         /\ \A d \in cs : d.id <= Newest(cs).id
  <1> DEFINE Left == {k \in Nat : \E c \in cs : c.id + k = MaxCommits}
  <1>1. \A c \in cs : MaxCommits - c.id \in Left /\ c.id \in 1..MaxCommits
    BY CommitTyped, HistoryAssumption
  <1>2. PICK k \in Left : \A j \in Left : <<j, k>> \notin OpToRel(<, Nat)
    <2>1. Left \subseteq Nat /\ Left # {}  BY <1>1
    <2> HIDE DEF Left
    <2>2. QED  BY <2>1, NatLessThanWellFounded, WFMin
  <1>3. \A j \in Left : ~(j < k)  BY <1>2 DEF OpToRel
  <1>4. PICK c \in cs : c.id + k = MaxCommits  BY <1>2
  <1>5. \A d \in cs : d.id <= c.id
    <2>1. TAKE d \in cs
    <2>2. MaxCommits - d.id \in Left /\ d.id \in 1..MaxCommits /\ c.id \in 1..MaxCommits  BY <1>1
    <2>3. ~(MaxCommits - d.id < k) /\ k \in Nat  BY <1>2, <1>3, <2>2
    <2>4. QED  BY <1>4, <2>2, <2>3, HistoryAssumption
  <1>6. \E x \in cs : \A d \in cs : d.id <= x.id  BY <1>5
  <1> HIDE DEF Left
  <1>7. QED  BY <1>6 DEF Newest

\* ... and only one.
LEMMA NewestIsOne ==
  ASSUME NEW cs, Distinct(cs), NEW x \in cs, \A d \in cs : d.id <= x.id
  PROVE  Newest(cs) = x
  <1>1. Newest(cs) \in cs /\ x.id <= Newest(cs).id  BY NewestIsLast DEF Distinct
  <1>2. Newest(cs).id <= x.id  BY <1>1
  <1>3. Newest(cs).id = x.id  BY <1>1, <1>2, CommitTyped DEF Distinct
  <1>4. QED  BY <1>1, <1>3 DEF Distinct

-----------------------------------------------------------------------------
(* Replaying commits.                                                      *)

Touching(s, cs) == {c \in cs : s \in DOMAIN c.change}

LEMMA ReplayAt ==
  ASSUME NEW f, NEW cs, NEW s \in Secrets
  PROVE  /\ Touching(s, cs) = {} => Replay(f, cs)[s] = f[s]
         /\ Touching(s, cs) # {} => Replay(f, cs)[s] = Newest(Touching(s, cs)).change[s]
  BY DEF Replay, Touching

LEMMA ReplayTyped ==
  ASSUME NEW f \in Folders, NEW cs \in SUBSET Commit
  PROVE  Replay(f, cs) \in Folders
  <1>1. ASSUME NEW s \in Secrets  PROVE Replay(f, cs)[s] \in Contents
    <2>1. CASE Touching(s, cs) = {}  BY <2>1, ReplayAt DEF Folders
    <2>2. CASE Touching(s, cs) # {}
      <3>1. Touching(s, cs) \in SUBSET Commit  BY DEF Touching
      <3>2. Newest(Touching(s, cs)) \in Touching(s, cs)  BY <2>2, <3>1, NewestIsLast
      <3> DEFINE n == Newest(Touching(s, cs))
      <3>3. n \in Commit /\ s \in DOMAIN n.change  BY <3>1, <3>2 DEF Touching
      <3> HIDE DEF n
      <3>4. n.change[s] \in Contents  BY <3>3, CommitTyped, ChangesTyped
      <3>5. QED  BY <2>2, <3>4, ReplayAt DEF n
    <2>3. QED  BY <2>1, <2>2
  <1>2. Replay(f, cs) = [s \in Secrets |-> Replay(f, cs)[s]]  BY DEF Replay
  <1>3. QED  BY <1>1, <1>2 DEF Folders

\* Two folders are the same when they agree on every secret.
LEMMA SameFolder ==
  ASSUME NEW f \in Folders, NEW g \in Folders, \A s \in Secrets : f[s] = g[s]
  PROVE  f = g
  BY DEF Folders

\* Without commits nothing changes.
LEMMA ReplayNone ==
  ASSUME NEW f \in Folders
  PROVE  Replay(f, {}) = f
  <1>1. \A s \in Secrets : Touching(s, {}) = {}  BY DEF Touching
  <1>2. \A s \in Secrets : Replay(f, {})[s] = f[s]  BY <1>1, ReplayAt
  <1>3. Replay(f, {}) \in Folders  BY ReplayTyped
  <1>4. QED  BY <1>2, <1>3, SameFolder

\* A commit that is newer than all that touched the same secrets is applied last.
LEMMA ReplayOneMore ==
  ASSUME NEW f \in Folders, NEW cs \in SUBSET Commit, NEW c \in Commit,
         \A d \in cs : DOMAIN d.change \cap DOMAIN c.change # {} => d.id < c.id
  PROVE  Replay(f, cs \cup {c}) = With(Replay(f, cs), c.change)
  <1> DEFINE g == Replay(f, cs \cup {c})
             h == With(Replay(f, cs), c.change)
  <1>1. ASSUME NEW s \in Secrets  PROVE g[s] = h[s]
    <2>1. CASE s \in DOMAIN c.change
      <3>1. Touching(s, cs \cup {c}) # {} /\ c \in Touching(s, cs \cup {c})  BY <2>1 DEF Touching
      <3>2. \A d \in Touching(s, cs \cup {c}) : d # c => d.id < c.id  BY <2>1 DEF Touching
      <3>3. Touching(s, cs \cup {c}) \in SUBSET Commit  BY DEF Touching
      <3> DEFINE n == Newest(Touching(s, cs \cup {c}))
      <3>4. n \in Touching(s, cs \cup {c}) /\ c.id <= n.id  BY <3>1, <3>3, NewestIsLast
      <3>5. n = c
        <4>1. n \in Commit  BY <3>3, <3>4
        <4> HIDE DEF n
        <4>2. n.id \in Nat /\ c.id \in Nat  BY <4>1, CommitTyped
        <4>3. QED  BY <3>2, <3>4, <4>2
      <3>6. g[s] = c.change[s]  BY <3>1, <3>5, ReplayAt
      <3>7. h[s] = c.change[s]  BY <2>1 DEF With
      <3>8. QED  BY <3>6, <3>7
    <2>2. CASE s \notin DOMAIN c.change
      <3>1. Touching(s, cs \cup {c}) = Touching(s, cs)  BY <2>2 DEF Touching
      <3>2. g[s] = Replay(f, cs)[s]  BY <3>1 DEF Replay, Touching
      <3>3. h[s] = Replay(f, cs)[s]  BY <2>2 DEF With
      <3>4. QED  BY <3>2, <3>3
    <2>3. QED  BY <2>1, <2>2
  <1>2. g \in Folders /\ h \in Folders
    <2>1. cs \cup {c} \in SUBSET Commit  OBVIOUS
    <2>2. QED  BY <2>1, ReplayTyped, WithTyped, CommitTyped
  <1> HIDE DEF g, h
  <1>3. g = h  BY <1>1, <1>2, SameFolder
  <1>4. QED  BY <1>3 DEF g, h

\* The newest commit that changed a secret says what it is.
LEMMA ReplayNewest ==
  ASSUME NEW f, NEW cs, Distinct(cs), NEW s \in Secrets, NEW n \in cs, s \in DOMAIN n.change,
         \A d \in cs : s \in DOMAIN d.change => d.id <= n.id
  PROVE  Replay(f, cs)[s] = n.change[s]
  <1>1. n \in Touching(s, cs) /\ Distinct(Touching(s, cs))  BY DEF Touching, Distinct
  <1>2. Newest(Touching(s, cs)) = n  BY <1>1, NewestIsOne DEF Touching
  <1>3. QED  BY <1>1, <1>2, ReplayAt

\* All of some commits have smaller numbers than all of others.
Precede(as, bs) == \A a \in as, b \in bs : a.id < b.id

\* Commits can be replayed in two parts, the older ones first.
LEMMA ReplayInParts ==
  ASSUME NEW f \in Folders, NEW as, NEW bs, Distinct(as \cup bs), Precede(as, bs)
  PROVE  Replay(f, as \cup bs) = Replay(Replay(f, as), bs)
  <1> DEFINE g == Replay(f, as)
  <1>1. ASSUME NEW s \in Secrets  PROVE Replay(f, as \cup bs)[s] = Replay(g, bs)[s]
    <2>1. CASE Touching(s, bs) = {}
      <3>1. Touching(s, as \cup bs) = Touching(s, as)  BY <2>1 DEF Touching
      <3>2. Replay(f, as \cup bs)[s] = g[s]  BY <3>1 DEF Replay, Touching
      <3>3. QED  BY <2>1, <3>2, ReplayAt
    <2>2. CASE Touching(s, bs) # {}
      <3>1. Touching(s, bs) \in SUBSET Commit  BY DEF Touching, Distinct
      <3>2. PICK n \in Touching(s, bs) : \A d \in Touching(s, bs) : d.id <= n.id
        BY <2>2, <3>1, NewestIsLast
      <3>3. /\ n \in bs /\ s \in DOMAIN n.change /\ Distinct(bs)
            /\ \A d \in bs : s \in DOMAIN d.change => d.id <= n.id
        BY <3>2 DEF Touching, Distinct
      <3> HIDE DEF g
      <3>4. Replay(g, bs)[s] = n.change[s]  BY <3>3, ReplayNewest
      <3>5. ASSUME NEW d \in as \cup bs, s \in DOMAIN d.change  PROVE d.id <= n.id
        <4>1. CASE d \in bs  BY <3>3, <3>5, <4>1
        <4>2. CASE d \in as
          <5>1. d.id < n.id /\ d \in Commit /\ n \in Commit  BY <3>3, <4>2 DEF Distinct, Precede
          <5>2. QED  BY <5>1, CommitTyped
        <4>3. QED  BY <4>1, <4>2
      <3>6. Replay(f, as \cup bs)[s] = n.change[s]
        <4> DEFINE cs == as \cup bs
        <4>1. n \in cs /\ Distinct(cs) /\ \A d \in cs : s \in DOMAIN d.change => d.id <= n.id
          BY <3>3, <3>5
        <4> HIDE DEF cs
        <4>2. Replay(f, cs)[s] = n.change[s]  BY <3>3, <4>1, ReplayNewest
        <4>3. QED  BY <4>2 DEF cs
      <3>7. QED  BY <3>4, <3>6
    <2>3. QED  BY <2>1, <2>2
  <1>2. Replay(f, as \cup bs) \in Folders /\ Replay(g, bs) \in Folders
    <2>1. as \in SUBSET Commit /\ bs \in SUBSET Commit /\ as \cup bs \in SUBSET Commit
      BY DEF Distinct
    <2>2. QED  BY <2>1, ReplayTyped
  <1> HIDE DEF g
  <1>3. Replay(f, as \cup bs) = Replay(g, bs)  BY <1>1, <1>2, SameFolder
  <1>4. QED  BY <1>3 DEF g

\* Commits that were replayed already change nothing more, not even what differs
\* otherwise.
LEMMA ReplayAgain ==
  ASSUME NEW f \in Folders, NEW g \in Folders, NEW bs \in SUBSET Commit, f = Replay(f, bs),
         \A b \in bs : \A s \in DOMAIN b.change : g[s] = f[s]
  PROVE  Replay(g, bs) = g
  <1>1. ASSUME NEW s \in Secrets  PROVE Replay(g, bs)[s] = g[s]
    <2>1. CASE Touching(s, bs) = {}  BY <2>1, ReplayAt
    <2>2. CASE Touching(s, bs) # {}
      <3>1. PICK b \in bs : s \in DOMAIN b.change  BY <2>2 DEF Touching
      <3>2. Replay(g, bs)[s] = Replay(f, bs)[s]  BY <2>2, ReplayAt
      <3>3. QED  BY <3>1, <3>2
    <2>3. QED  BY <2>1, <2>2
  <1>2. Replay(g, bs) \in Folders  BY ReplayTyped
  <1>3. QED  BY <1>1, <1>2, SameFolder

\* What was replayed can be replayed once more.
LEMMA ReplayTwice ==
  ASSUME NEW f \in Folders, NEW cs \in SUBSET Commit
  PROVE  Replay(Replay(f, cs), cs) = Replay(f, cs)
  <1>1. PICK g \in Folders : g = Replay(f, cs)  BY ReplayTyped
  <1>2. ASSUME NEW s \in Secrets  PROVE Replay(g, cs)[s] = g[s]
    <2>1. CASE Touching(s, cs) = {}  BY <2>1, ReplayAt
    <2>2. CASE Touching(s, cs) # {}  BY <1>1, <2>2, ReplayAt
    <2>3. QED  BY <2>1, <2>2
  <1>3. Replay(g, cs) = g  BY <1>2, ReplayTyped, SameFolder
  <1>4. QED  BY <1>1, <1>3

\* Changes of different secrets can be made in any order.
LEMMA WithCommutes ==
  ASSUME NEW f \in Folders, NEW g \in Changes, NEW h \in Changes, DOMAIN g \cap DOMAIN h = {}
  PROVE  With(With(f, g), h) = With(With(f, h), g)
  <1>1. \A s \in Secrets : With(With(f, g), h)[s] = With(With(f, h), g)[s]  BY DEF With
  <1>2. With(With(f, g), h) \in Folders /\ With(With(f, h), g) \in Folders  BY WithTyped
  <1>3. QED  BY <1>1, <1>2, SameFolder

\* To make the differences is to get there.
LEMMA DifferenceLeads ==
  ASSUME NEW f \in Folders, NEW g \in Folders
  PROVE  /\ Difference(f, g) \in Changes
         /\ With(f, Difference(f, g)) = g
  <1>1. Difference(f, g) \in [{s \in Secrets : f[s] # g[s]} -> Contents]
    BY DEF Difference, Folders
  <1>2. Difference(f, g) \in Changes  BY <1>1, MakesChanges
  <1>3. \A s \in Secrets : With(f, Difference(f, g))[s] = g[s]  BY DEF With, Difference
  <1>4. QED  BY <1>2, <1>3, WithTyped, SameFolder

-----------------------------------------------------------------------------
(* The invariant.                                                          *)

\* Without secrets nothing happens.
NothingToDo ==
  Secrets = {} => log = <<>> /\ \A t \in Txs : tx[t].state = "idle"

\* No number is given twice.
Numbered ==
  /\ Distinct(Range(log))
  /\ \A c \in Range(log) : c.id < nextId
  /\ \A t \in Txs : Open(t) =>
       /\ tx[t].commit \in Commit
       /\ tx[t].commit.id < nextId
       /\ \A c \in Range(log) : c.id # tx[t].commit.id
       /\ \A u \in Txs : Open(u) /\ u # t => tx[u].commit.id # tx[t].commit.id

\* Transactions that are open together change different secrets, and what one of
\* them changes was visibly changed before only by smaller numbers, as long as
\* commits say what was done.
Locking ==
  \A t \in Txs : Open(t) =>
    /\ DOMAIN tx[t].commit.effect \subseteq DOMAIN tx[t].commit.change
    /\ \A u \in Txs : Open(u) /\ u # t =>
         DOMAIN tx[t].commit.effect \cap DOMAIN tx[u].commit.effect = {}
    /\ "ghost" \notin marks =>
         \A c \in Range(log) :
           DOMAIN c.change \cap DOMAIN tx[t].commit.effect # {} => c.id < tx[t].commit.id

\* Who can commit without a checkpoint has seen one.
CheckpointSeen ==
  \A t \in Txs :
    tx[t].state = "ready" /\ tx[t].commit.checkpoint = Nothing =>
      \E c \in Range(log) : c.checkpoint # Nothing

\* The folder holds what the commits say, applied in the order of their numbers.
FolderReplayed ==
  "ghost" \notin marks => folder = Replay(Empty, Range(log))

\* From every checkpoint the commits with higher numbers lead to the folder, and to
\* what it will be for a transaction whose checkpoint is not visible yet.
CheckpointsCurrent ==
  "ghost" \notin marks /\ "blind" \notin marks =>
    /\ \A b \in Range(log) : b.checkpoint # Nothing => Replay(b.checkpoint, After(log, b.id)) = folder
    /\ \A t \in Txs : Open(t) /\ tx[t].commit.checkpoint # Nothing =>
         Replay(tx[t].commit.checkpoint, After(log, tx[t].commit.id)) = Resources(t)

\* A checkpoint holds what the commits up to it say.
CheckpointsWhole ==
  marks = {} =>
    \A b \in Range(log) : b.checkpoint # Nothing =>
      b.checkpoint = Replay(Empty, Between(log, 0, b.id))

Numbers == TypeOK /\ NothingToDo /\ Numbered
Commits == CheckpointSeen /\ EveryCommitHasState
Replays == Locking /\ FolderReplayed /\ CheckpointsCurrent /\ CheckpointsWhole
History == Numbers /\ Commits /\ Replays

\* The invariant holds initially.
LEMMA InitHistory == Init => History
  <1> SUFFICES ASSUME Init  PROVE History  OBVIOUS
  <1>1. folder = Empty /\ log = <<>> /\ nextId = 1 /\ marks = {}  BY DEF Init, Empty
  <1>2. \A t \in Txs : tx[t] = Idle /\ ~Open(t) /\ tx[t].state = "idle"  BY DEF Init, Idle, Open
  <1>3. Range(log) = {}  BY <1>1 DEF Range
  <1>4. Idle \in Request  BY NothingIsChange, HistoryAssumption DEF Idle, Request
  <1>5. TypeOK
    <2>1. tx \in [Txs -> Request]  BY <1>4 DEF Init
    <2>2. 1 \in 1..MaxCommits + 1 /\ <<>> \in Seq(Commit)  BY HistoryAssumption
    <2>3. \A i, j \in DOMAIN log : log[i].id = log[j].id => i = j  BY <1>1
    <2>4. QED  BY <1>1, <2>1, <2>2, <2>3, EmptyTyped DEF TypeOK
  <1>6. Numbers  BY <1>1, <1>2, <1>3, <1>5 DEF Numbers, NothingToDo, Numbered, Distinct
  <1>7. Commits  BY <1>2, <1>3 DEF Commits, CheckpointSeen, EveryCommitHasState, Ids
  <1>8. Replays
    <2>1. Replay(Empty, {}) = Empty  BY EmptyTyped, ReplayNone
    <2>2. FolderReplayed  BY <1>1, <1>3, <2>1 DEF FolderReplayed
    <2>3. QED
      BY <1>2, <1>3, <2>2 DEF Replays, Locking, CheckpointsCurrent, CheckpointsWhole
  <1>9. QED  BY <1>6, <1>7, <1>8 DEF History

-----------------------------------------------------------------------------
(* Steps that make nothing visible.                                        *)

\* A step of t that makes no commit visible keeps what is said of the visible ones.
LEMMA InvisibleKeeps ==
  ASSUME History, UNCHANGED <<folder, log, marks>>
  PROVE  /\ FolderReplayed' /\ CheckpointsWhole' /\ EveryCommitHasState'
         /\ \A id : After(log', id) = After(log, id)
         /\ "ghost" \notin marks /\ "blind" \notin marks =>
              \A b \in Range(log) : b.checkpoint # Nothing => Replay(b.checkpoint, After(log, b.id)) = folder
  <1>1. FolderReplayed'  BY DEF History, Replays, FolderReplayed
  <1>2. CheckpointsWhole'  BY DEF History, Replays, CheckpointsWhole, Between
  <1>3. EveryCommitHasState'
    BY DEF History, Commits, EveryCommitHasState, Reconstructible, Checkpoints, Ids
  <1>4. \A id : After(log', id) = After(log, id)  BY DEF After
  <1>5. QED  BY <1>1, <1>2, <1>3, <1>4 DEF History, Replays, CheckpointsCurrent

\* A request ends or gets ready to write: it is not open afterwards.
LEMMA ClosedKeeps ==
  ASSUME History, NEW t \in Txs, NEW r \in Request, r.state \in {"idle", "compared"},
         Secrets = {} => r.state = "idle",
         tx' = [tx EXCEPT ![t] = r], UNCHANGED <<folder, log, nextId, marks>>
  PROVE  History'
  <1>1. tx \in [Txs -> Request]  BY DEF History, Numbers, TypeOK
  <1>2. ~Open(t)' /\ tx'[t] = r  BY <1>1 DEF Open
  <1>3. \A u \in Txs : u # t => tx'[u] = tx[u] /\ (Open(u)' <=> Open(u))  BY <1>1 DEF Open
  <1>4. TypeOK'  BY <1>1 DEF History, Numbers, TypeOK
  <1>5. NothingToDo'  BY <1>2, <1>3 DEF History, Numbers, NothingToDo
  <1>6. Numbered'  BY <1>2, <1>3 DEF History, Numbers, Numbered
  <1>7. CheckpointSeen'  BY <1>2, <1>3 DEF History, Commits, CheckpointSeen
  <1>8. Locking'  BY <1>2, <1>3 DEF History, Replays, Locking
  <1>9. CheckpointsCurrent'
    BY <1>2, <1>3, InvisibleKeeps DEF History, Replays, CheckpointsCurrent, Resources
  <1>10. QED
    BY <1>4, <1>5, <1>6, <1>7, <1>8, <1>9, InvisibleKeeps DEF History, Numbers, Commits, Replays

\* A commit with the next number that changes secrets nobody else has locked.
LEMMA WriteKeeps ==
  ASSUME History, NEW t \in Txs, ~Open(t), NEW r \in Request, NEW change \in Changes,
         NEW effect \in Changes, DOMAIN effect \subseteq DOMAIN change, Secrets # {},
         Write(t, r, change, effect)
  PROVE  History'
  <1> DEFINE c == [id |-> nextId, change |-> change, effect |-> effect, checkpoint |-> Nothing]
  <1>1. tx \in [Txs -> Request] /\ nextId \in Nat /\ nextId \in 1..MaxCommits
    BY HistoryAssumption DEF History, Numbers, TypeOK, Write
  <1>2. c \in Commit  BY <1>1 DEF Commit
  <1>3. tx' = [tx EXCEPT ![t] = [r EXCEPT !.state = "written", !.commit = c]]
       /\ nextId' = nextId + 1 /\ UNCHANGED <<folder, log, marks>>
    BY DEF Write
  <1>4. c.id = nextId /\ c.change = change /\ c.effect = effect /\ c.checkpoint = Nothing  OBVIOUS
  <1> HIDE DEF c
  <1>5. [r EXCEPT !.state = "written", !.commit = c] \in Request  BY <1>2 DEF Request
  <1>6. tx'[t].state = "written" /\ tx'[t].commit = c /\ Open(t)'
    BY <1>1, <1>3 DEF Request, Open
  <1>7. \A u \in Txs : u # t => tx'[u] = tx[u] /\ (Open(u)' <=> Open(u))  BY <1>1, <1>3 DEF Open
  <1>8. \A u \in Txs : Open(u) => DOMAIN change \cap DOMAIN tx[u].commit.effect = {}
    BY DEF Write, Locked
  <1>9. TypeOK'
    <2>1. nextId' \in 1..MaxCommits + 1  BY <1>1, <1>3, HistoryAssumption
    <2>2. tx' \in [Txs -> Request]  BY <1>1, <1>3, <1>5
    <2>3. QED  BY <1>3, <2>1, <2>2 DEF History, Numbers, TypeOK
  <1>10. NothingToDo'  BY DEF NothingToDo
  <1>11. Range(log) \subseteq Commit /\ \A d \in Range(log) : d.id \in Nat /\ d.id < nextId
    BY CommitTyped DEF History, Numbers, Numbered, Distinct
  <1>12. Numbered'
    <2>1. \A u \in Txs : Open(u) => tx[u].commit.id \in Nat /\ tx[u].commit.id < nextId
      BY CommitTyped DEF History, Numbers, Numbered
    <2>2. \A d \in Range(log) : d.id < nextId' /\ d.id # c.id  BY <1>1, <1>3, <1>4, <1>11
    <2>3. \A u \in Txs : Open(u) => tx[u].commit.id < nextId' /\ tx[u].commit.id # c.id
      BY <1>1, <1>3, <1>4, <2>1
    <2>4. c.id < nextId'  BY <1>1, <1>3, <1>4
    <2>5. QED
      BY <1>2, <1>3, <1>6, <1>7, <2>2, <2>3, <2>4 DEF History, Numbers, Numbered
  <1>13. CheckpointSeen'  BY <1>3, <1>6, <1>7 DEF History, Commits, CheckpointSeen
  <1>14. Locking'
    <2>1. \A u \in Txs : Open(u) => DOMAIN effect \cap DOMAIN tx[u].commit.effect = {}  BY <1>8
    <2>2. \A d \in Range(log) : d.id < c.id  BY <1>4, <1>11
    <2>3. QED
      BY <1>3, <1>4, <1>6, <1>7, <2>1, <2>2 DEF History, Replays, Locking
  <1>15. CheckpointsCurrent'
    BY <1>3, <1>4, <1>6, <1>7, InvisibleKeeps DEF History, Replays, CheckpointsCurrent, Resources
  <1>16. QED
    BY <1>3, <1>9, <1>10, <1>12, <1>13, <1>14, <1>15, InvisibleKeeps
       DEF History, Numbers, Commits, Replays

\* An open transaction goes on, with the same number, changes and effect.
LEMMA OpenKeeps ==
  ASSUME History, NEW t \in Txs, Open(t), NEW r \in Request, r.state \in {"due", "ready"},
         r.commit \in Commit, r.commit.id = tx[t].commit.id, r.commit.change = tx[t].commit.change,
         r.commit.effect = tx[t].commit.effect,
         r.state = "ready" /\ r.commit.checkpoint = Nothing => \E c \in Range(log) : c.checkpoint # Nothing,
         "ghost" \notin marks /\ "blind" \notin marks /\ r.commit.checkpoint # Nothing =>
           Replay(r.commit.checkpoint, After(log, tx[t].commit.id)) = Resources(t),
         tx' = [tx EXCEPT ![t] = r], UNCHANGED <<folder, log, nextId, marks>>
  PROVE  History'
  <1>1. tx \in [Txs -> Request]  BY DEF History, Numbers, TypeOK
  <1>2. Open(t)' /\ tx'[t] = r  BY <1>1 DEF Open
  <1>3. \A u \in Txs : u # t => tx'[u] = tx[u] /\ (Open(u)' <=> Open(u))  BY <1>1 DEF Open
  <1>4. TypeOK'  BY <1>1 DEF History, Numbers, TypeOK
  <1>5. NothingToDo'
    <2>1. Secrets # {}  BY DEF History, Numbers, NothingToDo, Open
    <2>2. QED  BY <2>1 DEF NothingToDo
  <1>6. Numbered'  BY <1>2, <1>3 DEF History, Numbers, Numbered
  <1>7. CheckpointSeen'  BY <1>2, <1>3 DEF History, Commits, CheckpointSeen
  <1>8. Locking'  BY <1>2, <1>3 DEF History, Replays, Locking
  <1>9. CheckpointsCurrent'
    <2>1. Resources(t)' = Resources(t)  BY <1>2 DEF Resources
    <2>2. \A u \in Txs : u # t => Resources(u)' = Resources(u)  BY <1>3 DEF Resources
    <2>3. QED
      BY <1>2, <1>3, <2>1, <2>2, InvisibleKeeps DEF History, Replays, CheckpointsCurrent
  <1>10. QED
    BY <1>4, <1>5, <1>6, <1>7, <1>8, <1>9, InvisibleKeeps DEF History, Numbers, Commits, Replays

\* Who decides against a checkpoint has found one.
LEMMA DecideKeeps ==
  ASSUME History, NEW t \in Txs, Decide(t)
  PROVE  History'
  <1> DEFINE next == IF CheckpointDue(tx[t].commit) THEN "due" ELSE "ready"
             r == [tx[t] EXCEPT !.state = next]
  <1>1. tx \in [Txs -> Request] /\ tx[t] \in Request  BY DEF History, Numbers, TypeOK
  <1>2. Open(t) /\ tx[t].commit \in Commit
    BY DEF History, Numbers, Numbered, Decide, Open
  <1>3. tx' = [tx EXCEPT ![t].state = next] /\ UNCHANGED <<folder, log, nextId, marks>>
    BY DEF Decide
  <1>4. next \in {"due", "ready"}  OBVIOUS
  <1>5. next = "ready" => \E c \in Range(log) : c.checkpoint # Nothing
    BY DEF CheckpointDue, Checkpoints
  <1> HIDE DEF next
  <1>6. r \in Request /\ r.state = next /\ r.commit = tx[t].commit  BY <1>1, <1>4 DEF Request
  <1>7. tx' = [tx EXCEPT ![t] = r]  BY <1>1, <1>3
  <1> HIDE DEF r
  <1>8. "ghost" \notin marks /\ "blind" \notin marks /\ r.commit.checkpoint # Nothing =>
          Replay(r.commit.checkpoint, After(log, tx[t].commit.id)) = Resources(t)
    BY <1>2, <1>6 DEF History, Replays, CheckpointsCurrent
  <1>9. r.commit \in Commit /\ r.commit.id = tx[t].commit.id /\ r.commit.change = tx[t].commit.change
       /\ r.commit.effect = tx[t].commit.effect
    BY <1>2, <1>6
  <1>10. QED  BY <1>2, <1>3, <1>4, <1>5, <1>6, <1>7, <1>8, <1>9, OpenKeeps

\* A checkpoint holds what the folder will hold: what became visible with a higher
\* number is in it already, and concerns other secrets than the transaction's own.
LEMMA AddCheckpointKeeps ==
  ASSUME History, NEW t \in Txs, AddCheckpoint(t)
  PROVE  History'
  <1> DEFINE c == tx[t].commit
             d == [c EXCEPT !.checkpoint = Resources(t)]
             r == [tx[t] EXCEPT !.state = "ready", !.commit = d]
  <1>1. tx \in [Txs -> Request] /\ tx[t] \in Request /\ folder \in Folders
    BY DEF History, Numbers, TypeOK
  <1>2. Open(t) /\ c \in Commit /\ tx[t].state = "due"
    BY DEF History, Numbers, Numbered, AddCheckpoint, Open
  <1>3. c.effect \in Changes /\ c.id \in Nat  BY <1>2, CommitTyped
  <1>4. Resources(t) \in Folders  BY <1>1, <1>3, WithTyped DEF Resources
  <1>5. d \in Commit /\ d.id = c.id /\ d.change = c.change /\ d.effect = c.effect
       /\ d.checkpoint = Resources(t)
    BY <1>2, <1>4 DEF Commit
  <1>6. r \in Request /\ r.state = "ready" /\ r.commit = d  BY <1>1, <1>5 DEF Request
  <1>7. tx' = [tx EXCEPT ![t] = r] /\ UNCHANGED <<folder, log, nextId, marks>>
    <2>1. tx' = [tx EXCEPT ![t].state = "ready", ![t].commit.checkpoint = Resources(t)]
      BY DEF AddCheckpoint
    <2>2. tx' = [tx EXCEPT ![t] = [[tx[t] EXCEPT !.state = "ready"] EXCEPT !.commit.checkpoint = Resources(t)]]
      BY <1>1, <2>1
    <2>3. [tx[t] EXCEPT !.state = "ready"].commit = c  BY <1>1 DEF Request
    <2>4. [[tx[t] EXCEPT !.state = "ready"] EXCEPT !.commit.checkpoint = Resources(t)] = r
      BY <1>1, <2>3 DEF Request
    <2>5. QED  BY <2>2, <2>4 DEF AddCheckpoint
  <1>8. Resources(t) # Nothing
    <2>1. Secrets # {}  BY <1>2 DEF History, Numbers, NothingToDo
    <2>2. DOMAIN Resources(t) = Secrets  BY DEF Resources, With
    <2>3. QED  BY <2>1, <2>2, NothingIsChange
  <1>9. ASSUME "ghost" \notin marks
        PROVE  Replay(Resources(t), After(log, c.id)) = Resources(t)
    <2> DEFINE early == {e \in Range(log) : e.id < c.id}
               late == After(log, c.id)
    <2>1. Range(log) \subseteq Commit /\ Distinct(Range(log))
      BY DEF History, Numbers, Numbered, Distinct
    <2>2. Range(log) = early \cup late
      <3>1. \A e \in Range(log) : e.id # c.id /\ e.id \in Nat
        BY <1>2, <2>1, CommitTyped DEF History, Numbers, Numbered
      <3>2. QED  BY <1>3, <3>1 DEF After
    <2>3. Precede(early, late)
      <3>1. SUFFICES ASSUME NEW a \in early, NEW b \in late  PROVE a.id < b.id  BY DEF Precede
      <3>2. a.id \in Nat /\ b.id \in Nat /\ a.id < c.id /\ c.id < b.id  BY <2>1, CommitTyped DEF After
      <3>3. QED  BY <1>3, <3>2
    <2>4. late \in SUBSET Commit /\ early \in SUBSET Commit  BY <2>1 DEF After
    <2>5. \A b \in late : DOMAIN b.change \cap DOMAIN c.effect = {}
      <3>1. TAKE b \in late
      <3>2. b \in Range(log) /\ b.id \in Nat /\ c.id < b.id  BY <2>4, CommitTyped DEF After
      <3>3. ~(b.id < c.id)  BY <1>3, <3>2
      <3>4. QED  BY <1>2, <1>9, <3>2, <3>3 DEF History, Replays, Locking
    <2>6. \A b \in late : \A s \in DOMAIN b.change : Resources(t)[s] = folder[s]
      <3>1. TAKE b \in late
      <3>2. TAKE s \in DOMAIN b.change
      <3>3. s \in Secrets /\ s \notin DOMAIN c.effect  BY <2>4, <2>5, CommitTyped, ChangesTyped
      <3>4. QED  BY <3>3 DEF Resources, With
    <2> HIDE DEF early, late
    <2>7. folder = Replay(Replay(Empty, early), late)
      <3>1. folder = Replay(Empty, early \cup late)
        BY <1>9, <2>2 DEF History, Replays, FolderReplayed
      <3>2. Distinct(early \cup late)  BY <2>1, <2>2
      <3>3. QED  BY <2>3, <3>1, <3>2, EmptyTyped, ReplayInParts
    <2>8. folder = Replay(folder, late)
      BY <2>4, <2>7, EmptyTyped, ReplayTyped, ReplayTwice
    <2>9. Replay(Resources(t), late) = Resources(t)
      BY <1>1, <1>4, <2>4, <2>6, <2>8, ReplayAgain
    <2>10. QED  BY <2>9 DEF late
  <1> HIDE DEF c, d, r
  <1>10. r.commit.checkpoint = Resources(t)  BY <1>5, <1>6
  <1>11. "ghost" \notin marks /\ "blind" \notin marks /\ r.commit.checkpoint # Nothing =>
           Replay(r.commit.checkpoint, After(log, c.id)) = Resources(t)
    BY <1>9, <1>10
  <1>12. r.commit \in Commit /\ r.commit.id = tx[t].commit.id /\ r.commit.change = tx[t].commit.change
        /\ r.commit.effect = tx[t].commit.effect
    BY <1>5, <1>6 DEF c
  <1>13. QED  BY <1>2, <1>6, <1>7, <1>8, <1>10, <1>11, <1>12, OpenKeeps DEF c

\* A request that fails.
LEMMA AbortKeeps ==
  ASSUME History, NEW t \in Txs, Abort(t)
  PROVE  History'
  <1>1. Idle \in Request /\ Idle.state = "idle"
    BY NothingIsChange, HistoryAssumption DEF Idle, Request
  <1>2. QED  BY <1>1, ClosedKeeps DEF Abort

-----------------------------------------------------------------------------
(* A commit becomes visible.                                               *)

\* What the marks that are not made say.
LEMMA UnmarkedFinish ==
  ASSUME History, NEW t \in Txs, Finish(t)
  PROVE  LET c == tx[t].commit IN
         /\ c \in Commit /\ c.id \in Nat /\ \A d \in Range(log) : d.id \in Nat /\ d.id # c.id
         /\ marks \subseteq marks'
         /\ "ghost" \notin marks' => c.effect = c.change
         /\ "late" \notin marks' => \A d \in Range(log) : d.id < c.id
         /\ "blind" \notin marks' =>
              /\ \A b \in Range(log) : b.checkpoint # Nothing => b.id < c.id
              /\ \A u \in Txs : Open(u) /\ u # t /\ tx[u].commit.checkpoint # Nothing =>
                   tx[u].commit.id < c.id
  <1> DEFINE c == tx[t].commit
  <1>1. Open(t) /\ c \in Commit
    BY DEF History, Numbers, Numbered, Finish, Open
  <1>2. c.id \in Nat /\ \A d \in Range(log) : d.id \in Nat /\ d.id # c.id
    BY <1>1, CommitTyped DEF History, Numbers, Numbered, Distinct
  <1>3. \A u \in Txs : Open(u) => tx[u].commit.id \in Nat /\ (u # t => tx[u].commit.id # c.id)
    BY <1>1, CommitTyped DEF History, Numbers, Numbered
  <1>4. marks' = marks \cup
          {m \in Marks : \/ m = "late" /\ \E id \in Ids(log) : id > c.id
                         \/ m = "blind" /\ \E id \in CheckpointIds : id > c.id
                         \/ m = "ghost" /\ c.effect # c.change}
    BY DEF Finish
  <1>5. "ghost" \notin marks' => c.effect = c.change  BY <1>4 DEF Marks
  <1>6. ASSUME "late" \notin marks', NEW d \in Range(log)  PROVE d.id < c.id
    <2>1. d.id \in Ids(log)  BY DEF Ids
    <2>2. ~(d.id > c.id)  BY <1>4, <1>6, <2>1 DEF Marks
    <2>3. QED  BY <1>2, <2>2
  <1>7. ASSUME "blind" \notin marks', NEW id \in CheckpointIds, id \in Nat, id # c.id  PROVE id < c.id
    <2>1. ~(id > c.id)  BY <1>4, <1>7 DEF Marks
    <2>2. QED  BY <1>2, <1>7, <2>1
  <1>8. \A b \in Range(log) : b.checkpoint # Nothing => b.id \in CheckpointIds
    BY DEF CheckpointIds
  <1>9. \A u \in Txs : Open(u) /\ tx[u].commit.checkpoint # Nothing =>
          tx[u].commit.id \in CheckpointIds
    BY DEF CheckpointIds
  <1>10. "blind" \notin marks' =>
           /\ \A b \in Range(log) : b.checkpoint # Nothing => b.id < c.id
           /\ \A u \in Txs : Open(u) /\ u # t /\ tx[u].commit.checkpoint # Nothing =>
                tx[u].commit.id < c.id
    BY <1>2, <1>3, <1>7, <1>8, <1>9
  <1>11. marks \subseteq marks'  BY <1>4
  <1>12. QED  BY <1>1, <1>2, <1>5, <1>6, <1>10, <1>11

\* What changes, and that it has its type.
LEMMA FinishNumbers ==
  ASSUME History, NEW t \in Txs, Finish(t)
  PROVE  /\ Numbers'
         /\ Range(log') = Range(log) \cup {tx[t].commit}
         /\ Open(t) /\ ~Open(t)'
         /\ \A u \in Txs : u # t => tx'[u] = tx[u] /\ (Open(u)' <=> Open(u))
  <1> DEFINE c == tx[t].commit
  <1>1. tx \in [Txs -> Request] /\ log \in Seq(Commit) /\ folder \in Folders
    BY DEF History, Numbers, TypeOK
  <1>2. log' = Append(log, c) /\ folder' = With(folder, c.effect) /\ tx' = [tx EXCEPT ![t] = Idle]
       /\ nextId' = nextId /\ marks' \subseteq marks \cup Marks
    BY DEF Finish
  <1>3. Open(t) /\ c \in Commit /\ c.id < nextId
    BY DEF History, Numbers, Numbered, Finish, Open
  <1>4. \A d \in Range(log) : d.id # c.id  BY UnmarkedFinish
  <1> HIDE DEF c
  <1>5. Range(log') = Range(log) \cup {c}  BY <1>1, <1>2, <1>3, RangeOfAppend
  <1>6. Idle.state = "idle" /\ Idle \in Request
    BY NothingIsChange, HistoryAssumption DEF Idle, Request
  <1>7. tx'[t] = Idle /\ ~Open(t)'  BY <1>1, <1>2, <1>6 DEF Open
  <1>8. \A u \in Txs : u # t => tx'[u] = tx[u] /\ (Open(u)' <=> Open(u))
    BY <1>1, <1>2 DEF Open
  <1>9. TypeOK'
    <2>1. log' \in Seq(Commit)  BY <1>1, <1>2, <1>3
    <2>2. folder' \in Folders  BY <1>1, <1>2, <1>3, CommitTyped, WithTyped
    <2>3. tx' \in [Txs -> Request]  BY <1>1, <1>2, <1>6
    <2>4. marks' \subseteq Marks  BY <1>2 DEF History, Numbers, TypeOK
    <2>5. ASSUME NEW i \in DOMAIN log', NEW j \in DOMAIN log', log'[i].id = log'[j].id
          PROVE  i = j
      <3>1. DOMAIN log' = 1..Len(log) + 1 /\ DOMAIN log = 1..Len(log) /\ Len(log) \in Nat
        BY <1>1, <1>2, <1>3
      <3>2. log'[Len(log) + 1] = c /\ \A k \in DOMAIN log : log'[k] = log[k]
        BY <1>1, <1>2, <1>3
      <3>3. \A k \in DOMAIN log : log[k].id # c.id  BY <1>1, <1>4, <3>1, RangeTyped
      <3>4. CASE i \in DOMAIN log /\ j \in DOMAIN log
        BY <2>5, <3>2, <3>4 DEF History, Numbers, TypeOK
      <3>5. CASE i = Len(log) + 1  BY <2>5, <3>1, <3>2, <3>3, <3>5
      <3>6. CASE j = Len(log) + 1  BY <2>5, <3>1, <3>2, <3>3, <3>6
      <3>7. QED  BY <3>1, <3>4, <3>5, <3>6
    <2>6. QED  BY <1>2, <2>1, <2>2, <2>3, <2>4, <2>5 DEF History, Numbers, TypeOK
  <1>10. NothingToDo'
    <2>1. Secrets # {}  BY <1>3 DEF History, Numbers, NothingToDo, Open
    <2>2. QED  BY <2>1 DEF NothingToDo
  <1>11. Numbered'
    <2>1. Distinct(Range(log'))  BY <1>3, <1>4, <1>5 DEF History, Numbers, Numbered, Distinct
    <2>2. \A d \in Range(log') : d.id < nextId'
      BY <1>2, <1>3, <1>5 DEF History, Numbers, Numbered
    <2>3. \A u \in Txs : Open(u) /\ u # t => tx[u].commit.id # c.id
      BY <1>3 DEF History, Numbers, Numbered, c
    <2>4. QED
      BY <1>2, <1>5, <1>7, <1>8, <2>1, <2>2, <2>3 DEF History, Numbers, Numbered
  <1>12. QED  BY <1>3, <1>5, <1>7, <1>8, <1>9, <1>10, <1>11 DEF Numbers, c

\* The commit has a checkpoint, or there was one with a smaller number, unless it is
\* late.
LEMMA FinishCommits ==
  ASSUME History, NEW t \in Txs, Finish(t)
  PROVE  Commits'
  <1> DEFINE c == tx[t].commit
  <1>1. Range(log') = Range(log) \cup {c}  BY FinishNumbers
  <1>2. CheckpointSeen'
    <2>1. \A u \in Txs : tx'[u].state = "ready" => u # t /\ tx'[u] = tx[u]
      BY FinishNumbers DEF Open
    <2>2. QED  BY <1>1, <2>1 DEF History, Commits, CheckpointSeen
  <1>3. ASSUME "late" \notin marks', NEW d \in Range(log')  PROVE Checkpoints(log', d.id) # {}
    <2>1. "late" \notin marks /\ c \in Commit /\ c.id \in Nat
         /\ \A e \in Range(log) : e.id < c.id
      BY <1>3, UnmarkedFinish
    <2>2. CASE d \in Range(log)
      <3>1. Checkpoints(log, d.id) # {}
        BY <2>1, <2>2 DEF History, Commits, EveryCommitHasState, Reconstructible, Ids
      <3>2. QED  BY <1>1, <3>1 DEF Checkpoints
    <2>3. CASE d = c
      <3>1. CASE c.checkpoint # Nothing
        <4>1. c \in Range(log') /\ c.id <= c.id  BY <1>1, <2>1
        <4> HIDE DEF c
        <4>2. QED  BY <2>3, <3>1, <4>1 DEF Checkpoints
      <3>2. CASE c.checkpoint = Nothing
        <4>1. PICK e \in Range(log) : e.checkpoint # Nothing
          BY <3>2 DEF History, Commits, CheckpointSeen, Finish
        <4>2. e \in Range(log') /\ e.id < c.id /\ e.id \in Nat  BY <1>1, <2>1, <4>1, UnmarkedFinish
        <4> HIDE DEF c
        <4>3. e.id <= c.id  BY <2>1, <4>2
        <4>4. QED  BY <2>3, <4>1, <4>2, <4>3 DEF Checkpoints
      <3>3. QED  BY <3>1, <3>2
    <2>4. QED  BY <1>1, <2>2, <2>3
  <1>4. EveryCommitHasState'  BY <1>3 DEF EveryCommitHasState, Reconstructible, Ids
  <1>5. QED  BY <1>2, <1>4 DEF Commits

\* The folder, and what checkpoints lead to, change alike.
LEMMA FinishReplays ==
  ASSUME History, NEW t \in Txs, Finish(t)
  PROVE  Replays'
  <1> DEFINE c == tx[t].commit
  <1>1. /\ Range(log') = Range(log) \cup {c}
        /\ Open(t) /\ ~Open(t)'
        /\ \A u \in Txs : u # t => tx'[u] = tx[u] /\ (Open(u)' <=> Open(u))
        /\ folder \in Folders /\ folder' \in Folders
        /\ Range(log) \subseteq Commit
    BY FinishNumbers DEF History, Numbers, TypeOK, Numbered, Distinct
  <1>2. /\ c \in Commit /\ c.id \in Nat
        /\ \A d \in Range(log) : d.id \in Nat /\ d.id # c.id
        /\ "ghost" \notin marks' => "ghost" \notin marks
        /\ "blind" \notin marks' => "blind" \notin marks
        /\ marks' = {} => marks = {}
    BY UnmarkedFinish
  <1>3. folder' = With(folder, c.effect)  BY DEF Finish
  <1>4. ASSUME "ghost" \notin marks'
        PROVE  /\ c.effect = c.change
               /\ \A d \in Range(log) : DOMAIN d.change \cap DOMAIN c.change # {} => d.id < c.id
    <2>1. "ghost" \notin marks /\ c.effect = c.change  BY <1>2, <1>4, UnmarkedFinish
    <2>2. QED  BY <1>1, <2>1 DEF History, Replays, Locking
  <1>5. ASSUME "ghost" \notin marks', NEW f \in Folders, NEW cs \in SUBSET Range(log)
        PROVE  Replay(f, cs \cup {c}) = With(Replay(f, cs), c.effect)
    <2>1. cs \in SUBSET Commit /\ \A d \in cs : DOMAIN d.change \cap DOMAIN c.change # {} => d.id < c.id
      BY <1>1, <1>4, <1>5
    <2>2. Replay(f, cs \cup {c}) = With(Replay(f, cs), c.change)
      BY <1>2, <2>1, ReplayOneMore
    <2>3. QED  BY <1>4, <1>5, <2>2
  <1>6. Locking'
    <2>1. ASSUME NEW u \in Txs, u # t, Open(u)
          PROVE  /\ DOMAIN tx[u].commit.effect \subseteq DOMAIN tx[u].commit.change
                 /\ \A w \in Txs : Open(w) /\ w # u =>
                      DOMAIN tx[u].commit.effect \cap DOMAIN tx[w].commit.effect = {}
                 /\ "ghost" \notin marks' => \A d \in Range(log') :
                      DOMAIN d.change \cap DOMAIN tx[u].commit.effect # {} => d.id < tx[u].commit.id
      <3>1. ASSUME "ghost" \notin marks'
            PROVE  DOMAIN c.change \cap DOMAIN tx[u].commit.effect = {}
        <4>1. DOMAIN c.effect \cap DOMAIN tx[u].commit.effect = {}
          BY <1>1, <2>1 DEF History, Replays, Locking
        <4>2. QED  BY <1>4, <3>1, <4>1
      <3>2. "ghost" \notin marks' => \A d \in Range(log) :
              DOMAIN d.change \cap DOMAIN tx[u].commit.effect # {} => d.id < tx[u].commit.id
        BY <1>2, <2>1 DEF History, Replays, Locking
      <3>3. QED  BY <1>1, <2>1, <3>1, <3>2 DEF History, Replays, Locking
    <2>2. QED  BY <1>1, <2>1 DEF Locking
  <1>7. FolderReplayed'
    <2>1. SUFFICES ASSUME "ghost" \notin marks'  PROVE folder' = Replay(Empty, Range(log'))
      BY DEF FolderReplayed
    <2>2. folder = Replay(Empty, Range(log))
      BY <1>2, <2>1 DEF History, Replays, FolderReplayed
    <2>3. Replay(Empty, Range(log) \cup {c}) = With(Replay(Empty, Range(log)), c.effect)
      BY <1>5, <2>1, EmptyTyped
    <2>4. QED  BY <1>1, <1>3, <2>2, <2>3
  <1>8. ASSUME "ghost" \notin marks', "blind" \notin marks', c.checkpoint # Nothing
        PROVE  Replay(c.checkpoint, After(log, c.id)) = folder'
    <2>1. Replay(c.checkpoint, After(log, c.id)) = Resources(t)
      BY <1>1, <1>2, <1>8 DEF History, Replays, CheckpointsCurrent
    <2>2. QED  BY <1>3, <2>1 DEF Resources
  <1>9. \A id : After(log', id) = IF c.id > id THEN After(log, id) \cup {c} ELSE After(log, id)
    BY <1>1 DEF After
  <1>10. CheckpointsCurrent'
    <2>1. SUFFICES ASSUME "ghost" \notin marks', "blind" \notin marks'
          PROVE  /\ \A b \in Range(log') : b.checkpoint # Nothing =>
                      Replay(b.checkpoint, After(log', b.id)) = folder'
                 /\ \A u \in Txs : Open(u)' /\ tx'[u].commit.checkpoint # Nothing =>
                      Replay(tx'[u].commit.checkpoint, After(log', tx'[u].commit.id)) = Resources(u)'
      BY DEF CheckpointsCurrent, After
    <2>2. "ghost" \notin marks /\ "blind" \notin marks  BY <1>2, <2>1
    <2>3. \A id : After(log, id) \in SUBSET Range(log)  BY DEF After
    <2>4. ASSUME NEW b \in Range(log'), b.checkpoint # Nothing
          PROVE  Replay(b.checkpoint, After(log', b.id)) = folder'
      <3>1. CASE b = c
        <4>1. ~(c.id > c.id)  BY <1>2
        <4>2. After(log', b.id) = After(log, b.id)  BY <1>9, <3>1, <4>1
        <4>3. Replay(c.checkpoint, After(log, c.id)) = folder'  BY <1>8, <2>1, <2>4, <3>1
        <4>4. QED  BY <3>1, <4>2, <4>3
      <3>2. CASE b \in Range(log)
        <4>1. b.id < c.id  BY <2>1, <2>4, <3>2, UnmarkedFinish
        <4>2. After(log', b.id) = After(log, b.id) \cup {c}  BY <1>2, <1>9, <3>2, <4>1
        <4>3. b.checkpoint \in Folders  BY <1>1, <2>4, <3>2, CommitTyped
        <4>4. Replay(b.checkpoint, After(log, b.id) \cup {c}) = With(Replay(b.checkpoint, After(log, b.id)), c.effect)
          BY <1>5, <2>1, <2>3, <4>3
        <4>5. Replay(b.checkpoint, After(log, b.id)) = folder
          BY <2>2, <2>4, <3>2 DEF History, Replays, CheckpointsCurrent
        <4>6. QED  BY <1>3, <4>2, <4>4, <4>5
      <3>3. QED  BY <1>1, <3>1, <3>2
    <2>5. ASSUME NEW u \in Txs, Open(u)', tx'[u].commit.checkpoint # Nothing
          PROVE  Replay(tx'[u].commit.checkpoint, After(log', tx'[u].commit.id)) = Resources(u)'
      <3> DEFINE d == tx[u].commit
      <3>1. u # t /\ Open(u) /\ tx'[u] = tx[u]  BY <1>1, <2>5
      <3>2. d \in Commit  BY <3>1 DEF History, Numbers, Numbered
      <3>3. d.id < c.id /\ d.id \in Nat  BY <2>1, <2>5, <3>1, <3>2, CommitTyped, UnmarkedFinish
      <3>4. After(log', d.id) = After(log, d.id) \cup {c}
        <4>1. c.id > d.id  BY <1>2, <3>3
        <4>2. QED  BY <1>9, <4>1
      <3>5. d.checkpoint \in Folders /\ d.effect \in Changes /\ c.effect \in Changes
        BY <1>2, <2>5, <3>1, <3>2, CommitTyped
      <3>6. Replay(d.checkpoint, After(log, d.id) \cup {c}) = With(Replay(d.checkpoint, After(log, d.id)), c.effect)
        BY <1>5, <2>1, <2>3, <3>5
      <3>7. Replay(d.checkpoint, After(log, d.id)) = With(folder, d.effect)
        BY <2>2, <2>5, <3>1 DEF History, Replays, CheckpointsCurrent, Resources
      <3>8. DOMAIN d.effect \cap DOMAIN c.effect = {}
        BY <1>1, <3>1 DEF History, Replays, Locking
      <3>9. With(With(folder, d.effect), c.effect) = With(folder', d.effect)
        BY <1>1, <1>3, <3>5, <3>8, WithCommutes
      <3>10. Resources(u)' = With(folder', d.effect)  BY <3>1 DEF Resources
      <3>11. Replay(d.checkpoint, After(log', d.id)) = Resources(u)'
        BY <3>4, <3>6, <3>7, <3>9, <3>10
      <3>12. After(log', tx'[u].commit.id) = After(log', d.id)  BY <3>1
      <3>13. QED  BY <3>1, <3>11, <3>12
    <2>6. QED  BY <2>4, <2>5
  <1>11. CheckpointsWhole'
    <2>1. SUFFICES ASSUME marks' = {}, NEW b \in Range(log'), b.checkpoint # Nothing
          PROVE  b.checkpoint = Replay(Empty, Between(log', 0, b.id))
      BY DEF CheckpointsWhole
    <2>2. marks = {} /\ \A d \in Range(log) : d.id < c.id  BY <1>2, <2>1, UnmarkedFinish
    <2>3. CASE b \in Range(log)
      <3>1. ~(c.id <= b.id)  BY <1>2, <2>2, <2>3
      <3>2. Between(log', 0, b.id) = Between(log, 0, b.id)  BY <1>1, <3>1 DEF Between
      <3>3. QED  BY <2>1, <2>2, <2>3, <3>2 DEF History, Replays, CheckpointsWhole
    <2>4. CASE b = c
      <3>1. \A d \in Range(log') : 0 < d.id /\ d.id <= c.id
        <4>1. \A d \in Range(log') : d.id \in 1..MaxCommits  BY <1>1, <1>2, CommitTyped
        <4>2. QED  BY <1>1, <1>2, <2>2, <4>1, HistoryAssumption
      <3>2. Between(log', 0, b.id) = Range(log')  BY <2>4, <3>1 DEF Between
      <3>3. After(log, c.id) = {}
        <4>1. \A d \in Range(log) : ~(d.id > c.id)  BY <1>2, <2>2
        <4>2. QED  BY <4>1 DEF After
      <3>4. c.checkpoint \in Folders  BY <1>2, <2>1, <2>4, CommitTyped
      <3>5. Replay(c.checkpoint, {}) = c.checkpoint  BY <3>4, ReplayNone
      <3>6. Replay(c.checkpoint, After(log, c.id)) = folder'  BY <1>8, <2>1, <2>4
      <3>7. folder' = Replay(Empty, Range(log'))  BY <1>7, <2>1 DEF FolderReplayed
      <3>8. QED  BY <2>4, <3>2, <3>3, <3>5, <3>6, <3>7
    <2>5. QED  BY <1>1, <2>3, <2>4
  <1>12. QED  BY <1>6, <1>7, <1>10, <1>11 DEF Replays

-----------------------------------------------------------------------------
(* Reconstructed states, and the requests that compare them.               *)

\* The latest commit has the highest number.
LEMMA LatestIsLast ==
  ASSUME NEW l \in Seq(Commit), NEW id \in Ids(l)
  PROVE  Latest(l) \in Ids(l) /\ id <= Latest(l) /\ Latest(l) \in 1..MaxCommits /\ id \in 1..MaxCommits
  <1>1. PICK c \in Range(l) : c.id = id  BY DEF Ids
  <1>2. Range(l) \in SUBSET Commit /\ Range(l) # {}  BY <1>1, RangeTyped
  <1>3. Newest(Range(l)) \in Range(l) /\ c.id <= Newest(Range(l)).id  BY <1>2, NewestIsLast
  <1>4. Latest(l) \in Ids(l)  BY <1>3 DEF Latest, Ids
  <1>5. Latest(l) \in 1..MaxCommits /\ id \in 1..MaxCommits  BY <1>1, <1>2, <1>3, CommitTyped DEF Latest
  <1>6. QED  BY <1>1, <1>3, <1>4, <1>5 DEF Latest

\* The checkpoint a state is reconstructed from.
LEMMA BaseTyped ==
  ASSUME NEW l \in Seq(Commit), NEW id, Reconstructible(l, id)
  PROVE  LET base == Newest(Checkpoints(l, id)) IN
         base \in Range(l) /\ base \in Commit /\ base.checkpoint # Nothing /\ base.checkpoint \in Folders
           /\ base.id <= id /\ \A c \in Checkpoints(l, id) : c.id <= base.id
  <1>1. Range(l) \subseteq Commit  BY RangeTyped
  <1>2. Checkpoints(l, id) \in SUBSET Commit /\ Checkpoints(l, id) # {}
    BY <1>1 DEF Checkpoints, Reconstructible
  <1>3. PICK base \in Checkpoints(l, id) :
          base = Newest(Checkpoints(l, id)) /\ \A c \in Checkpoints(l, id) : c.id <= base.id
    BY <1>2, NewestIsLast
  <1>4. base \in Range(l) /\ base.checkpoint # Nothing /\ base.id <= id  BY DEF Checkpoints
  <1>5. base.checkpoint \in Folders  BY <1>2, <1>4, CommitTyped
  <1>6. QED  BY <1>2, <1>3, <1>4, <1>5

LEMMA ReconstructTyped ==
  ASSUME NEW l \in Seq(Commit), NEW id, Reconstructible(l, id)
  PROVE  Reconstruct(l, id) \in Folders
  <1>1. PICK base : base = Newest(Checkpoints(l, id)) /\ base.checkpoint \in Folders
    BY BaseTyped
  <1>2. Between(l, base.id, id) \in SUBSET Commit  BY RangeTyped DEF Between
  <1>3. Replay(base.checkpoint, Between(l, base.id, id)) \in Folders  BY <1>1, <1>2, ReplayTyped
  <1>4. QED  BY <1>1, <1>3 DEF Reconstruct

\* What can be reconstructed up to a commit can be reconstructed later.
LEMMA ReconstructibleLater ==
  ASSUME NEW l \in Seq(Commit), NEW id \in Nat, NEW later \in Nat, id <= later, Reconstructible(l, id)
  PROVE  Reconstructible(l, later)
  <1>1. PICK c \in Range(l) : c.checkpoint # Nothing /\ c.id <= id
    BY DEF Reconstructible, Checkpoints
  <1>2. c.id \in Nat  BY RangeTyped, CommitTyped
  <1>3. c.id <= later  BY <1>1, <1>2
  <1>4. QED  BY <1>1, <1>3 DEF Reconstructible, Checkpoints

\* A request that compared two states.
LEMMA ComparedTyped ==
  ASSUME NEW n \in Nat, NEW diff \in Changes, NEW from, NEW target \in 0..MaxCommits
  PROVE  [Idle EXCEPT !.state = "compared", !.diff = diff, !.target = target,
                      !.seen = IF target = 0 THEN 0 ELSE n,
                      !.creates = {s \in DOMAIN diff : from[s] = Absent}] \in Request
  <1>1. {s \in DOMAIN diff : from[s] = Absent} \in SUBSET Secrets  BY ChangesTyped
  <1>2. (IF target = 0 THEN 0 ELSE n) \in Nat  OBVIOUS
  <1>3. QED  BY <1>1, <1>2 DEF Idle, Request

LEMMA ComparedKeeps ==
  ASSUME History, NEW t \in Txs, NEW from, NEW diff \in Changes,
         NEW target \in 0..MaxCommits, Secrets # {}, Compared(t, from, diff, target)
  PROVE  History'
  <1> DEFINE r == [Idle EXCEPT !.state = "compared", !.diff = diff, !.target = target,
                               !.seen = IF target = 0 THEN 0 ELSE Len(log),
                               !.creates = {s \in DOMAIN diff : from[s] = Absent}]
  <1>1. Len(log) \in Nat  BY DEF History, Numbers, TypeOK
  <1>2. r \in Request  BY <1>1, ComparedTyped
  <1>3. r.state = "compared"  BY DEF Idle
  <1>4. tx' = [tx EXCEPT ![t] = r] /\ UNCHANGED <<folder, log, nextId, marks>>  BY DEF Compared
  <1> HIDE DEF r
  <1>5. QED  BY <1>2, <1>3, <1>4, ClosedKeeps

\* A rollback compares the latest state one replica has with the one to go back to,
\* of another.
LEMMA RollbackCompares ==
  ASSUME History, NEW t \in Txs, NEW n \in 1..Len(log), NEW m \in 1..Len(log),
         NEW id \in Ids(log), Rollback(t, n, m, id)
  PROVE  LET here == SubSeq(log, 1, n)
             there == SubSeq(log, 1, m)
             now == Reconstruct(here, Latest(here)) IN
         /\ Secrets # {} /\ id \in 1..MaxCommits
         /\ Reconstructible(here, Latest(here)) /\ Reconstructible(there, id)
         /\ now \in Folders /\ Reconstruct(there, id) \in Folders
         /\ Compared(t, now, Difference(now, Reconstruct(there, id)),
                     IF n = Len(log) /\ m = n THEN id ELSE 0)
  <1> DEFINE here == SubSeq(log, 1, n)
             there == SubSeq(log, 1, m)
             now == Reconstruct(here, Latest(here))
             target == IF n = Len(log) /\ m = n THEN id ELSE 0
  <1>1. log \in Seq(Commit) /\ Secrets # {}
    <2>1. log \in Seq(Commit)  BY DEF History, Numbers, TypeOK
    <2>2. log # <<>>  BY <2>1
    <2>3. QED  BY <2>1, <2>2 DEF History, Numbers, NothingToDo
  <1>2. here \in Seq(Commit) /\ there \in Seq(Commit)  BY <1>1, RangeOfPart
  <1>3. /\ Reconstructible(here, Latest(here))
        /\ id \in Ids(there) /\ Reconstructible(there, id)
        /\ Compared(t, now, Difference(now, Reconstruct(there, id)), target)
    BY DEF Rollback
  <1> HIDE DEF here, there, target
  <1>4. id \in 1..MaxCommits  BY <1>2, <1>3, LatestIsLast
  <1>5. now \in Folders /\ Reconstruct(there, id) \in Folders
    BY <1>1, <1>2, <1>3, ReconstructTyped
  <1>6. QED  BY <1>1, <1>3, <1>4, <1>5 DEF here, there, target

\* A reversal compares a state with the one before, and keeps what makes sense in the
\* latest one.
LEMMA RevertCompares ==
  ASSUME History, NEW t \in Txs, NEW n \in 1..Len(log), NEW m \in 1..Len(log),
         NEW id \in Ids(log), Revert(t, n, m, id)
  PROVE  LET here == SubSeq(log, 1, n)
             there == SubSeq(log, 1, m)
             previous == Newest({c \in Range(there) : c.id < id}).id
             now == Reconstruct(here, Latest(here))
             from == Reconstruct(there, id)
             inverse == Difference(from, Reconstruct(there, previous))
             kept == {s \in DOMAIN inverse : (from[s] = Absent) <=> (now[s] = Absent)} IN
         /\ Secrets # {}
         /\ previous \in Ids(there) /\ previous \in 1..MaxCommits
         /\ Reconstructible(there, id) /\ Reconstructible(there, previous)
         /\ from \in Folders /\ Reconstruct(there, previous) \in Folders
         /\ [s \in kept |-> inverse[s]] \in Changes
         /\ Compared(t, from, [s \in kept |-> inverse[s]],
                     IF n = Len(log) /\ m = n /\ id = Latest(here) THEN previous ELSE 0)
  <1> DEFINE here == SubSeq(log, 1, n)
             there == SubSeq(log, 1, m)
             before == {c \in Range(there) : c.id < id}
             previous == Newest(before).id
             now == Reconstruct(here, Latest(here))
             from == Reconstruct(there, id)
             inverse == Difference(from, Reconstruct(there, previous))
             kept == {s \in DOMAIN inverse : (from[s] = Absent) <=> (now[s] = Absent)}
             target == IF n = Len(log) /\ m = n /\ id = Latest(here) THEN previous ELSE 0
  <1>1. log \in Seq(Commit) /\ Secrets # {}
    <2>1. log \in Seq(Commit)  BY DEF History, Numbers, TypeOK
    <2>2. log # <<>>  BY <2>1
    <2>3. QED  BY <2>1, <2>2 DEF History, Numbers, NothingToDo
  <1>2. there \in Seq(Commit)  BY <1>1, RangeOfPart
  <1>3. id \in Ids(there) /\ before # {} /\ Reconstructible(there, previous)
       /\ Compared(t, from, [s \in kept |-> inverse[s]], target)
    BY DEF Revert
  <1> HIDE DEF here, there, target
  <1>4. id \in 1..MaxCommits  BY <1>2, <1>3, LatestIsLast
  <1>5. before \in SUBSET Commit  BY <1>2, RangeTyped
  <1>6. Newest(before) \in before  BY <1>3, <1>5, NewestIsLast
  <1>7. previous \in 1..MaxCommits /\ previous < id /\ previous \in Ids(there)
    BY <1>5, <1>6, CommitTyped DEF Ids
  <1> HIDE DEF before, previous
  <1>8. Reconstructible(there, id)
    BY <1>2, <1>3, <1>4, <1>7, HistoryAssumption, ReconstructibleLater
  <1>9. from \in Folders /\ Reconstruct(there, previous) \in Folders
    BY <1>2, <1>3, <1>8, ReconstructTyped
  <1>10. inverse \in Changes  BY <1>9, DifferenceLeads
  <1> HIDE DEF inverse, now, from
  <1>11. kept \in SUBSET Secrets /\ [s \in kept |-> inverse[s]] \in [kept -> Contents]
    BY <1>10, ChangesTyped
  <1>12. [s \in kept |-> inverse[s]] \in Changes  BY <1>11, MakesChanges
  <1>13. QED
    BY <1>1, <1>3, <1>7, <1>8, <1>9, <1>12
    DEF inverse, now, from, previous, before, here, there, target

\* The changes of an edit, and what comes of the differences.
LEMMA EditWrites ==
  ASSUME NEW t \in Txs, NEW change \in Changes, Edit(t, change)
  PROVE  ~Open(t) /\ Secrets # {} /\ Idle \in Request /\ Write(t, Idle, change, change)
  <1>1. Idle \in Request  BY NothingIsChange, HistoryAssumption DEF Idle, Request
  <1>2. Secrets # {}
    <2>1. SUFFICES ASSUME Secrets = {}  PROVE FALSE  OBVIOUS
    <2>2. DOMAIN change = {} /\ change \in [DOMAIN change -> Contents]  BY <2>1, ChangesTyped
    <2>3. change = Nothing  BY <2>2 DEF Nothing
    <2>4. QED  BY <2>3 DEF Edit
  <1>3. QED  BY <1>1, <1>2 DEF Edit, Open

LEMMA ApplyWrites ==
  ASSUME History, NEW t \in Txs, Apply(t)
  PROVE  LET r == tx[t]
             effect == [s \in {s \in DOMAIN r.diff : s \in r.creates \/ folder[s] # Absent} |-> r.diff[s]] IN
         /\ ~Open(t) /\ Secrets # {} /\ r \in Request /\ r.state = "compared" /\ r.diff \in Changes
         /\ effect \in Changes /\ DOMAIN effect \subseteq DOMAIN r.diff
         /\ Write(t, r, r.diff, effect)
  <1> DEFINE r == tx[t]
             D == {s \in DOMAIN r.diff : s \in r.creates \/ folder[s] # Absent}
             effect == [s \in D |-> r.diff[s]]
  <1>1. r \in Request /\ r.state = "compared" /\ Write(t, r, r.diff, effect)
    BY DEF History, Numbers, TypeOK, Apply
  <1>2. ~Open(t) /\ Secrets # {}  BY <1>1 DEF History, Numbers, NothingToDo, Open
  <1>3. r.diff \in Changes  BY <1>1 DEF Request
  <1>4. D \in SUBSET Secrets /\ effect \in [D -> Contents]  BY <1>3, ChangesTyped
  <1>5. effect \in Changes  BY <1>4, MakesChanges
  <1>6. QED  BY <1>1, <1>2, <1>3, <1>5

\* Every step keeps the invariant, action by action.
LEMMA NextKeepsHistory == History /\ [Next]_vars => History'
  <1> SUFFICES ASSUME History, [Next]_vars  PROVE History'  OBVIOUS
  <1>1. ASSUME NEW t \in Txs, NEW change \in Changes, Edit(t, change)  PROVE History'
    <2>1. DOMAIN change \subseteq DOMAIN change  OBVIOUS
    <2>2. QED  BY <1>1, <2>1, EditWrites, WriteKeeps
  <1>2. ASSUME NEW t \in Txs, NEW n \in 1..Len(log), NEW m \in 1..Len(log), NEW id \in Ids(log),
               Rollback(t, n, m, id)
        PROVE  History'
    <2> DEFINE here == SubSeq(log, 1, n)
               there == SubSeq(log, 1, m)
               now == Reconstruct(here, Latest(here))
               diff == Difference(now, Reconstruct(there, id))
               target == IF n = Len(log) /\ m = n THEN id ELSE 0
    <2>1. /\ Secrets # {} /\ id \in 1..MaxCommits /\ Compared(t, now, diff, target)
          /\ now \in Folders /\ Reconstruct(there, id) \in Folders
      BY <1>2, RollbackCompares
    <2>2. diff \in Changes  BY <2>1, DifferenceLeads
    <2> HIDE DEF diff, now
    <2>3. target \in 0..MaxCommits  BY <2>1, HistoryAssumption
    <2> HIDE DEF target
    <2>4. QED  BY <2>1, <2>2, <2>3, ComparedKeeps
  <1>3. ASSUME NEW t \in Txs, NEW n \in 1..Len(log), NEW m \in 1..Len(log), NEW id \in Ids(log),
               Revert(t, n, m, id)
        PROVE  History'
    <2> DEFINE here == SubSeq(log, 1, n)
               there == SubSeq(log, 1, m)
               previous == Newest({c \in Range(there) : c.id < id}).id
               now == Reconstruct(here, Latest(here))
               from == Reconstruct(there, id)
               inverse == Difference(from, Reconstruct(there, previous))
               kept == {s \in DOMAIN inverse : (from[s] = Absent) <=> (now[s] = Absent)}
               diff == [s \in kept |-> inverse[s]]
               target == IF n = Len(log) /\ m = n /\ id = Latest(here) THEN previous ELSE 0
    <2>1. /\ previous \in 1..MaxCommits /\ diff \in Changes /\ Secrets # {}
          /\ Compared(t, from, diff, target)
      BY <1>3, RevertCompares
    <2> HIDE DEF previous, diff, from
    <2>2. target \in 0..MaxCommits  BY <2>1, HistoryAssumption
    <2> HIDE DEF target
    <2>3. QED  BY <2>1, <2>2, ComparedKeeps
  <1>4. ASSUME NEW t \in Txs, Apply(t)  PROVE History'
    <2> DEFINE effect == [s \in {s \in DOMAIN tx[t].diff : s \in tx[t].creates \/ folder[s] # Absent}
                            |-> tx[t].diff[s]]
    <2>1. /\ ~Open(t) /\ Secrets # {} /\ tx[t] \in Request /\ tx[t].diff \in Changes
          /\ effect \in Changes /\ DOMAIN effect \subseteq DOMAIN tx[t].diff
          /\ Write(t, tx[t], tx[t].diff, effect)
      BY <1>4, ApplyWrites
    <2> HIDE DEF effect
    <2>2. QED  BY <2>1, WriteKeeps
  <1>5. ASSUME NEW t \in Txs, Finish(t)  PROVE History'
    BY <1>5, FinishNumbers, FinishCommits, FinishReplays DEF History
  <1>6. CASE UNCHANGED vars
    <2>1. UNCHANGED <<folder, log, nextId, tx, marks>>  BY <1>6 DEF vars
    <2>2. Numbers'
      BY <2>1 DEF History, Numbers, TypeOK, NothingToDo, Numbered, Open
    <2>3. CheckpointSeen'  BY <2>1 DEF History, Commits, CheckpointSeen
    <2>4. Locking' /\ CheckpointsCurrent'
      BY <2>1, InvisibleKeeps DEF History, Replays, Locking, CheckpointsCurrent, Open, Resources
    <2>5. QED  BY <2>1, <2>2, <2>3, <2>4, InvisibleKeeps DEF History, Commits, Replays
  <1>7. QED
    BY <1>1, <1>2, <1>3, <1>4, <1>5, <1>6, DecideKeeps, AddCheckpointKeeps, AbortKeeps DEF Next

-----------------------------------------------------------------------------
(* The history.                                                            *)

\* The state at the latest commit is the folder, unless a checkpoint missed a commit
\* or a commit says more than was done.
LEMMA LatestReconstructed ==
  ASSUME History, "ghost" \notin marks, "blind" \notin marks, Reconstructible(log, Latest(log))
  PROVE  Reconstruct(log, Latest(log)) = folder
  <1>1. log \in Seq(Commit)  BY DEF History, Numbers, TypeOK
  <1>2. PICK base \in Range(log) :
          base = Newest(Checkpoints(log, Latest(log))) /\ base.checkpoint # Nothing
    BY <1>1, BaseTyped
  <1>3. Between(log, base.id, Latest(log)) = After(log, base.id)
    <2>1. ASSUME NEW c \in Range(log)
          PROVE  (base.id < c.id /\ c.id <= Latest(log)) <=> c.id > base.id
      <3>1. c.id \in Ids(log)  BY DEF Ids
      <3>2. c.id <= Latest(log)  BY <1>1, <3>1, LatestIsLast
      <3>3. c.id \in Nat /\ base.id \in Nat  BY <1>1, RangeTyped, CommitTyped
      <3>4. QED  BY <3>2, <3>3
    <2>2. QED  BY <2>1 DEF Between, After
  <1>4. Replay(base.checkpoint, After(log, base.id)) = folder
    BY <1>2 DEF History, Replays, CheckpointsCurrent
  <1>5. QED  BY <1>2, <1>3, <1>4 DEF Reconstruct

\* A state in the history is what all commits up to it say.
LEMMA ReconstructedAll ==
  ASSUME History, marks = {}, NEW id \in Ids(log)
  PROVE  Reconstruct(log, id) = Replay(Empty, Between(log, 0, id))
  <1>1. log \in Seq(Commit) /\ Distinct(Range(log))
    BY DEF History, Numbers, TypeOK, Numbered
  <1>2. Reconstructible(log, id)  BY DEF History, Commits, EveryCommitHasState
  <1>3. PICK base \in Range(log) :
          base = Newest(Checkpoints(log, id)) /\ base.checkpoint # Nothing /\ base.id <= id
    BY <1>1, <1>2, BaseTyped
  <1> DEFINE older == Between(log, 0, base.id)
             newer == Between(log, base.id, id)
  <1>4. base.checkpoint = Replay(Empty, older)
    BY <1>3 DEF History, Replays, CheckpointsWhole
  <1>5. base.id \in 1..MaxCommits /\ id \in 1..MaxCommits
    BY <1>1, RangeTyped, CommitTyped, LatestIsLast
  <1>6. \A c \in Range(log) : c.id \in 1..MaxCommits  BY <1>1, RangeTyped, CommitTyped
  <1>7. Between(log, 0, id) = older \cup newer
    <2>1. \A c \in Range(log) :
            (0 < c.id /\ c.id <= id) <=> (0 < c.id /\ c.id <= base.id) \/ (base.id < c.id /\ c.id <= id)
      BY <1>3, <1>5, <1>6, HistoryAssumption
    <2>2. QED  BY <2>1 DEF Between
  <1> HIDE DEF older, newer
  <1>8. Precede(older, newer)
    <2>1. SUFFICES ASSUME NEW a \in older, NEW b \in newer  PROVE a.id < b.id  BY DEF Precede
    <2>2. a \in Range(log) /\ b \in Range(log) /\ a.id <= base.id /\ base.id < b.id
      BY DEF Between, older, newer
    <2>3. QED  BY <1>5, <1>6, <2>2, HistoryAssumption
  <1>9. Distinct(older \cup newer)  BY <1>1 DEF Distinct, Between, older, newer
  <1>10. Replay(Empty, older \cup newer) = Replay(Replay(Empty, older), newer)
    BY <1>8, <1>9, EmptyTyped, ReplayInParts
  <1>11. QED  BY <1>3, <1>4, <1>7, <1>10 DEF Reconstruct, newer

-----------------------------------------------------------------------------
(* Going back.                                                             *)

\* Commits become visible in the order of their numbers, and say what was done.
Ordered ==
  /\ "late" \notin marks => \A i, j \in 1..Len(log) : i < j => log[i].id < log[j].id
  /\ "ghost" \notin marks => \A c \in Range(log) : c.effect = c.change

\* A request that compared the states that are visible still will give the folder the
\* contents it aims at.
Aimed ==
  \A t \in Txs :
    /\ tx[t].seen <= Len(log)
    /\ marks = {} /\ tx[t].target # 0 /\ tx[t].seen = Len(log) =>
         /\ tx[t].state = "compared" =>
              /\ With(folder, tx[t].diff) = FolderAt(log, tx[t].target)
              /\ tx[t].creates = {s \in DOMAIN tx[t].diff : folder[s] = Absent}
         /\ Open(t) => With(folder, tx[t].commit.effect) = FolderAt(log, tx[t].target)

\* When numbers and visibility agree, the folder at a commit is what the commits with
\* smaller numbers say.
LEMMA FolderAtReplayed ==
  ASSUME History, Ordered, marks = {}, NEW id \in Ids(log)
  PROVE  FolderAt(log, id) = Replay(Empty, Between(log, 0, id))
  <1> DEFINE i == CHOOSE j \in DOMAIN log : log[j].id = id
             at(s) == {j \in 1..i : s \in DOMAIN log[j].effect}
             cs == Between(log, 0, id)
  <1>1. log \in Seq(Commit) /\ Distinct(Range(log)) /\ Len(log) \in Nat /\ DOMAIN log = 1..Len(log)
    BY DEF History, Numbers, TypeOK, Numbered
  <1>2. i \in 1..Len(log) /\ log[i].id = id
    <2>1. PICK c \in Range(log) : c.id = id  BY DEF Ids
    <2>2. \E j \in DOMAIN log : log[j].id = id  BY <1>1, <2>1, RangeTyped
    <2>3. QED  BY <1>1, <2>2
  <1>3. \A j \in 1..Len(log) :
          log[j] \in Range(log) /\ log[j].id \in 1..MaxCommits /\ log[j].effect = log[j].change
    BY <1>1, RangeTyped, CommitTyped DEF Ordered
  <1>4. \A j, k \in 1..Len(log) : j < k => log[j].id < log[k].id  BY DEF Ordered
  <1> HIDE DEF i
  <1>5. cs = {log[j] : j \in 1..i}
    <2>1. \A j \in 1..Len(log) : log[j].id <= id <=> j <= i
      BY <1>2, <1>3, <1>4, HistoryAssumption
    <2>2. \A j \in 1..Len(log) : 0 < log[j].id  BY <1>3, HistoryAssumption
    <2>3. \A j \in 1..i : j \in 1..Len(log)  BY <1>1, <1>2
    <2>4. cs \subseteq {log[j] : j \in 1..i}
      <3>1. SUFFICES ASSUME NEW c \in cs  PROVE c \in {log[j] : j \in 1..i}  OBVIOUS
      <3>2. c \in Range(log) /\ c.id <= id  BY DEF Between
      <3>3. PICK j \in 1..Len(log) : c = log[j]  BY <1>1, <3>2, RangeTyped
      <3>4. j \in 1..i  BY <1>1, <1>2, <2>1, <3>2, <3>3
      <3>5. QED  BY <3>3, <3>4
    <2>5. {log[j] : j \in 1..i} \subseteq cs
      <3>1. ASSUME NEW j \in 1..i  PROVE log[j] \in cs
        BY <1>1, <1>2, <1>3, <2>1, <2>2, <2>3 DEF Between
      <3>2. QED  BY <3>1
    <2>6. QED  BY <2>4, <2>5
  <1>6. Distinct(cs)  BY <1>1 DEF Distinct, Between
  <1>7. ASSUME NEW s \in Secrets
        PROVE  (IF at(s) = {} THEN Absent
                ELSE LET j == CHOOSE j \in at(s) : \A k \in at(s) : k <= j IN log[j].effect[s])
               = Replay(Empty, cs)[s]
    <2>1. \A j \in 1..i : j \in 1..Len(log) /\ log[j] \in cs  BY <1>1, <1>2, <1>5
    <2>2. \A j \in 1..i : j \in at(s) <=> s \in DOMAIN log[j].change  BY <1>3, <2>1
    <2>3. CASE at(s) = {}
      <3>1. Touching(s, cs) = {}  BY <1>5, <2>2, <2>3 DEF Touching
      <3>2. QED  BY <2>3, <3>1, ReplayAt DEF Empty
    <2>4. CASE at(s) # {}
      <3>1. Touching(s, cs) # {} /\ Touching(s, cs) \in SUBSET Commit
        BY <1>6, <2>1, <2>2, <2>4 DEF Touching, Distinct
      <3>2. PICK n \in Touching(s, cs) : \A d \in Touching(s, cs) : d.id <= n.id
        BY <3>1, NewestIsLast
      <3>3. PICK m \in 1..i : n = log[m]  BY <1>5 DEF Touching
      <3>4. m \in at(s) /\ m \in 1..Len(log)  BY <2>1, <2>2, <3>3 DEF Touching
      <3>5. ASSUME NEW k \in at(s)  PROVE k <= m
        <4>1. k \in 1..i /\ k \in 1..Len(log) /\ log[k] \in Touching(s, cs)
          BY <2>1, <2>2 DEF Touching
        <4>2. log[k].id <= log[m].id  BY <3>2, <3>3, <4>1
        <4>3. log[k].id \in 1..MaxCommits /\ log[m].id \in 1..MaxCommits  BY <1>3, <3>4, <4>1
        <4>4. ~(m < k)  BY <1>4, <3>4, <4>1, <4>2, <4>3, HistoryAssumption
        <4>5. QED  BY <1>1, <3>4, <4>1, <4>4
      <3> DEFINE j == CHOOSE j \in at(s) : \A k \in at(s) : k <= j
      <3>6. j \in at(s) /\ m <= j  BY <3>4, <3>5
      <3>7. j = m
        <4>1. j <= m /\ j \in 1..i  BY <3>5, <3>6
        <4>2. QED  BY <1>1, <1>2, <3>6, <4>1
      <3>8. log[j].effect[s] = n.change[s]  BY <1>3, <3>3, <3>4, <3>7
      <3>9. n \in cs /\ s \in DOMAIN n.change /\ \A d \in cs : s \in DOMAIN d.change => d.id <= n.id
        BY <3>2 DEF Touching
      <3> HIDE DEF cs
      <3>10. Replay(Empty, cs)[s] = n.change[s]  BY <1>6, <3>9, ReplayNewest
      <3>11. QED  BY <2>4, <3>8, <3>10
    <2>5. QED  BY <2>3, <2>4
  <1>8. FolderAt(log, id) =
          [s \in Secrets |-> IF at(s) = {} THEN Absent
             ELSE LET j == CHOOSE j \in at(s) : \A k \in at(s) : k <= j IN log[j].effect[s]]
    BY DEF FolderAt, i
  <1> HIDE DEF at
  <1>9. FolderAt(log, id) = [s \in Secrets |-> Replay(Empty, cs)[s]]  BY <1>7, <1>8
  <1>10. Replay(Empty, cs) = [s \in Secrets |-> Replay(Empty, cs)[s]]  BY DEF Replay
  <1>11. QED  BY <1>9, <1>10

\* A request that compared all that is visible knows the folder.
LEMMA ComparedAll ==
  ASSUME History, Ordered, marks = {}, Reconstructible(log, Latest(log))
  PROVE  /\ Reconstruct(log, Latest(log)) = folder
         /\ \A id \in Ids(log) : Reconstruct(log, id) = FolderAt(log, id)
  BY LatestReconstructed, ReconstructedAll, FolderAtReplayed

\* The differences to a state lead to it.
LEMMA RollbackAims ==
  ASSUME History, Ordered, NEW t \in Txs, NEW n \in 1..Len(log), NEW m \in 1..Len(log),
         NEW id \in Ids(log), Rollback(t, n, m, id), marks = {}, n = Len(log), m = n
  PROVE  LET here == SubSeq(log, 1, n)
             there == SubSeq(log, 1, m)
             now == Reconstruct(here, Latest(here))
             diff == Difference(now, Reconstruct(there, id)) IN
         /\ With(folder, diff) = FolderAt(log, id)
         /\ {s \in DOMAIN diff : now[s] = Absent} = {s \in DOMAIN diff : folder[s] = Absent}
  <1>1. log \in Seq(Commit) /\ SubSeq(log, 1, n) = log /\ SubSeq(log, 1, m) = log
    BY RangeOfPart DEF History, Numbers, TypeOK
  <1>2. Reconstructible(log, Latest(log)) /\ Reconstruct(log, Latest(log)) \in Folders
       /\ Reconstruct(log, id) \in Folders
    BY <1>1, RollbackCompares
  <1>3. Reconstruct(log, Latest(log)) = folder /\ Reconstruct(log, id) = FolderAt(log, id)
    BY <1>2, ComparedAll
  <1>4. With(folder, Difference(folder, Reconstruct(log, id))) = Reconstruct(log, id)
    BY <1>2, <1>3, DifferenceLeads
  <1>5. QED  BY <1>1, <1>3, <1>4

LEMMA RevertAims ==
  ASSUME History, Ordered, NEW t \in Txs, NEW n \in 1..Len(log), NEW m \in 1..Len(log),
         NEW id \in Ids(log), Revert(t, n, m, id), marks = {}, n = Len(log), m = n,
         id = Latest(SubSeq(log, 1, n))
  PROVE  LET here == SubSeq(log, 1, n)
             there == SubSeq(log, 1, m)
             previous == Newest({c \in Range(there) : c.id < id}).id
             now == Reconstruct(here, Latest(here))
             from == Reconstruct(there, id)
             inverse == Difference(from, Reconstruct(there, previous))
             kept == {s \in DOMAIN inverse : (from[s] = Absent) <=> (now[s] = Absent)}
             diff == [s \in kept |-> inverse[s]] IN
         /\ With(folder, diff) = FolderAt(log, previous)
         /\ {s \in DOMAIN diff : from[s] = Absent} = {s \in DOMAIN diff : folder[s] = Absent}
  <1> DEFINE here == SubSeq(log, 1, n)
             there == SubSeq(log, 1, m)
             previous == Newest({c \in Range(there) : c.id < id}).id
             now == Reconstruct(here, Latest(here))
             from == Reconstruct(there, id)
             inverse == Difference(from, Reconstruct(there, previous))
             kept == {s \in DOMAIN inverse : (from[s] = Absent) <=> (now[s] = Absent)}
             diff == [s \in kept |-> inverse[s]]
  <1>1. /\ Reconstructible(there, id) /\ from \in Folders
        /\ previous \in Ids(there) /\ Reconstruct(there, previous) \in Folders
    BY RevertCompares
  <1>2. here = log /\ there = log  BY RangeOfPart DEF History, Numbers, TypeOK
  <1>3. id = Latest(here)  OBVIOUS
  <1> HIDE DEF here, there, previous
  <1>4. from = folder /\ now = from /\ Reconstruct(there, previous) = FolderAt(log, previous)
    BY <1>1, <1>2, <1>3, ComparedAll
  <1>5. With(from, inverse) = Reconstruct(there, previous) /\ inverse \in Changes
    BY <1>1, DifferenceLeads
  <1> HIDE DEF inverse, now, from
  <1>6. kept = DOMAIN inverse  BY <1>4
  <1>7. diff = inverse  BY <1>5, <1>6, ChangesTyped
  <1> HIDE DEF diff
  <1>8. /\ With(folder, diff) = FolderAt(log, previous)
        /\ {s \in DOMAIN diff : from[s] = Absent} = {s \in DOMAIN diff : folder[s] = Absent}
    BY <1>4, <1>5, <1>7
  <1>9. QED  BY <1>8 DEF diff, inverse, now, from, previous, here, there

\* A step of t that makes nothing visible keeps the aims when it keeps or sets its own.
LEMMA AimKept ==
  ASSUME Ordered, Aimed, NEW t \in Txs, UNCHANGED <<folder, log, marks>>, tx \in [Txs -> Request],
         NEW r, tx' = [tx EXCEPT ![t] = r], r.seen <= Len(log),
         marks = {} /\ r.target # 0 /\ r.seen = Len(log) =>
           /\ r.state = "compared" =>
                /\ With(folder, r.diff) = FolderAt(log, r.target)
                /\ r.creates = {s \in DOMAIN r.diff : folder[s] = Absent}
           /\ r.state \in {"written", "due", "ready"} =>
                With(folder, r.commit.effect) = FolderAt(log, r.target)
  PROVE  Ordered' /\ Aimed'
  <1>1. tx'[t] = r /\ \A u \in Txs : u # t => tx'[u] = tx[u]  OBVIOUS
  <1>2. Ordered'  BY DEF Ordered
  <1>3. ASSUME NEW u \in Txs
        PROVE  /\ tx'[u].seen <= Len(log)
               /\ marks = {} /\ tx'[u].target # 0 /\ tx'[u].seen = Len(log) =>
                    /\ tx'[u].state = "compared" =>
                         /\ With(folder, tx'[u].diff) = FolderAt(log, tx'[u].target)
                         /\ tx'[u].creates = {s \in DOMAIN tx'[u].diff : folder[s] = Absent}
                    /\ tx'[u].state \in {"written", "due", "ready"} =>
                         With(folder, tx'[u].commit.effect) = FolderAt(log, tx'[u].target)
    <2>1. CASE u = t  BY <1>1, <2>1
    <2>2. CASE u # t  BY <1>1, <2>2 DEF Aimed, Open
    <2>3. QED  BY <2>1, <2>2
  <1>4. Aimed'  BY <1>3 DEF Aimed, Open
  <1>5. QED  BY <1>2, <1>4

\* What a request without a target aims at.
LEMMA IdleAims ==
  ASSUME History
  PROVE  Idle.seen <= Len(log) /\ Idle.target = 0
  <1>1. Len(log) \in Nat  BY DEF History, Numbers, TypeOK
  <1>2. QED  BY <1>1 DEF Idle

\* The changes of a rollback are all made when nothing became visible since.
LEMMA ApplyAims ==
  ASSUME History, Ordered, Aimed, NEW t \in Txs, Apply(t)
  PROVE  Ordered' /\ Aimed'
  <1> DEFINE r == tx[t]
             D == {s \in DOMAIN r.diff : s \in r.creates \/ folder[s] # Absent}
             effect == [s \in D |-> r.diff[s]]
             c == [id |-> nextId, change |-> r.diff, effect |-> effect, checkpoint |-> Nothing]
             w == [r EXCEPT !.state = "written", !.commit = c]
  <1>1. tx \in [Txs -> Request] /\ r \in Request /\ r.state = "compared" /\ r.diff \in Changes
       /\ Write(t, r, r.diff, effect)
    BY ApplyWrites DEF History, Numbers, TypeOK
  <1>2. tx' = [tx EXCEPT ![t] = w] /\ UNCHANGED <<folder, log, marks>>  BY <1>1 DEF Write
  <1>3. w.seen = r.seen /\ w.target = r.target /\ w.state = "written" /\ w.commit.effect = effect
    BY <1>1 DEF Request
  <1>4. ASSUME marks = {}, r.target # 0, r.seen = Len(log)
        PROVE  With(folder, effect) = FolderAt(log, r.target)
    <2>1. /\ With(folder, r.diff) = FolderAt(log, r.target)
          /\ r.creates = {s \in DOMAIN r.diff : folder[s] = Absent}
      BY <1>1, <1>4 DEF Aimed
    <2>2. D = DOMAIN r.diff  BY <2>1
    <2>3. effect = r.diff  BY <1>1, <2>2, ChangesTyped
    <2>4. QED  BY <2>1, <2>3
  <1>5. r.seen <= Len(log)  BY DEF Aimed
  <1> HIDE DEF r, w, effect
  <1>6. QED  BY <1>1, <1>2, <1>3, <1>4, <1>5, AimKept

\* When a commit becomes visible, no request has compared all that is visible any more.
LEMMA FinishAims ==
  ASSUME History, Ordered, Aimed, NEW t \in Txs, Finish(t)
  PROVE  Ordered' /\ Aimed'
  <1> DEFINE c == tx[t].commit
  <1>1. log \in Seq(Commit) /\ Len(log) \in Nat /\ tx \in [Txs -> Request]
    BY DEF History, Numbers, TypeOK
  <1>2. log' = Append(log, c) /\ tx' = [tx EXCEPT ![t] = Idle]  BY DEF Finish
  <1>3. /\ c \in Commit /\ marks \subseteq marks'
        /\ "ghost" \notin marks' => c.effect = c.change
        /\ "late" \notin marks' => \A d \in Range(log) : d.id < c.id
    BY UnmarkedFinish
  <1> HIDE DEF c
  <1>4. /\ Len(log') = Len(log) + 1 /\ log'[Len(log) + 1] = c
        /\ \A i \in 1..Len(log) : log'[i] = log[i]
    BY <1>1, <1>2, <1>3
  <1>5. Range(log') = Range(log) \cup {c}  BY <1>1, <1>2, <1>3, RangeOfAppend
  <1>6. ASSUME "late" \notin marks', NEW i \in 1..Len(log'), NEW j \in 1..Len(log'), i < j
        PROVE  log'[i].id < log'[j].id
    <2>1. i \in 1..Len(log)  BY <1>1, <1>4, <1>6
    <2>2. CASE j \in 1..Len(log)
      <3>1. "late" \notin marks  BY <1>3, <1>6
      <3>2. log[i].id < log[j].id  BY <1>6, <2>1, <2>2, <3>1 DEF Ordered
      <3>3. QED  BY <1>4, <2>1, <2>2, <3>2
    <2>3. CASE j = Len(log) + 1
      <3>1. log[i] \in Range(log)  BY <1>1, <2>1, RangeTyped
      <3>2. log[i].id < c.id  BY <1>3, <1>6, <3>1
      <3>3. QED  BY <1>4, <2>1, <2>3, <3>2
    <2>4. QED  BY <1>1, <1>4, <2>2, <2>3
  <1>7. Ordered'  BY <1>3, <1>5, <1>6 DEF Ordered
  <1>8. ASSUME NEW u \in Txs
        PROVE  tx'[u].seen <= Len(log') /\ (tx'[u].target # 0 => tx'[u].seen # Len(log'))
    <2>1. CASE u = t
      <3>1. tx'[u] = Idle  BY <1>1, <1>2, <2>1
      <3>2. QED  BY <1>1, <1>4, <3>1 DEF Idle
    <2>2. CASE u # t
      <3>1. tx'[u] = tx[u] /\ tx[u].seen \in Nat  BY <1>1, <1>2, <2>2 DEF Request
      <3>2. tx[u].seen <= Len(log)  BY DEF Aimed
      <3>3. QED  BY <1>1, <1>4, <3>1, <3>2
    <2>3. QED  BY <2>1, <2>2
  <1>9. Aimed'  BY <1>8 DEF Aimed
  <1>10. QED  BY <1>7, <1>9

\* Every step keeps the order and the aims.
LEMMA NextAims == History /\ Ordered /\ Aimed /\ [Next]_vars => Ordered' /\ Aimed'
  <1> SUFFICES ASSUME History, Ordered, Aimed, [Next]_vars  PROVE Ordered' /\ Aimed'  OBVIOUS
  <1>1. tx \in [Txs -> Request] /\ Len(log) \in Nat  BY DEF History, Numbers, TypeOK
  <1>2. ASSUME NEW t \in Txs, NEW change \in Changes, Edit(t, change)  PROVE Ordered' /\ Aimed'
    <2> DEFINE w == [Idle EXCEPT !.state = "written",
                       !.commit = [id |-> nextId, change |-> change, effect |-> change,
                                   checkpoint |-> Nothing]]
    <2>1. tx' = [tx EXCEPT ![t] = w] /\ UNCHANGED <<folder, log, marks>>
      BY <1>2 DEF Edit, Write
    <2>2. w.target = 0 /\ w.seen = 0  BY DEF Idle
    <2> HIDE DEF w
    <2>3. w.seen <= Len(log)  BY <1>1, <2>2
    <2>4. QED  BY <1>1, <2>1, <2>2, <2>3, AimKept
  <1>3. ASSUME NEW t \in Txs, NEW n \in 1..Len(log), NEW m \in 1..Len(log), NEW id \in Ids(log),
               Rollback(t, n, m, id)
        PROVE  Ordered' /\ Aimed'
    <2> DEFINE here == SubSeq(log, 1, n)
               there == SubSeq(log, 1, m)
               now == Reconstruct(here, Latest(here))
               diff == Difference(now, Reconstruct(there, id))
               target == IF n = Len(log) /\ m = n THEN id ELSE 0
               creates == {s \in DOMAIN diff : now[s] = Absent}
               seen == IF target = 0 THEN 0 ELSE Len(log)
               r == [Idle EXCEPT !.state = "compared", !.diff = diff, !.target = target,
                                 !.seen = seen, !.creates = creates]
    <2>1. Compared(t, now, diff, target)  BY <1>3, RollbackCompares
    <2>2. marks = {} /\ n = Len(log) /\ m = n =>
            /\ With(folder, diff) = FolderAt(log, id)
            /\ creates = {s \in DOMAIN diff : folder[s] = Absent}
      BY <1>3, RollbackAims
    <2> HIDE DEF diff, now
    <2>3. tx' = [tx EXCEPT ![t] = r] /\ UNCHANGED <<folder, log, marks>>
      BY <2>1 DEF Compared
    <2>4. target # 0 => n = Len(log) /\ m = n /\ target = id  OBVIOUS
    <2>5. seen <= Len(log)  BY <1>1
    <2> HIDE DEF creates, target, seen
    <2>6. r.state = "compared" /\ r.seen = seen /\ r.diff = diff /\ r.target = target /\ r.creates = creates
      BY DEF Idle
    <2> HIDE DEF r
    <2>7. QED  BY <1>1, <2>2, <2>3, <2>4, <2>5, <2>6, AimKept
  <1>4. ASSUME NEW t \in Txs, NEW n \in 1..Len(log), NEW m \in 1..Len(log), NEW id \in Ids(log),
               Revert(t, n, m, id)
        PROVE  Ordered' /\ Aimed'
    <2> DEFINE here == SubSeq(log, 1, n)
               there == SubSeq(log, 1, m)
               previous == Newest({c \in Range(there) : c.id < id}).id
               now == Reconstruct(here, Latest(here))
               from == Reconstruct(there, id)
               inverse == Difference(from, Reconstruct(there, previous))
               kept == {s \in DOMAIN inverse : (from[s] = Absent) <=> (now[s] = Absent)}
               diff == [s \in kept |-> inverse[s]]
               target == IF n = Len(log) /\ m = n /\ id = Latest(here) THEN previous ELSE 0
               creates == {s \in DOMAIN diff : from[s] = Absent}
               seen == IF target = 0 THEN 0 ELSE Len(log)
               r == [Idle EXCEPT !.state = "compared", !.diff = diff, !.target = target,
                                 !.seen = seen, !.creates = creates]
    <2>1. Compared(t, from, diff, target)  BY <1>4, RevertCompares
    <2>2. marks = {} /\ n = Len(log) /\ m = n /\ id = Latest(here) =>
            /\ With(folder, diff) = FolderAt(log, previous)
            /\ creates = {s \in DOMAIN diff : folder[s] = Absent}
      <3> SUFFICES ASSUME marks = {}, n = Len(log), m = n, id = Latest(here)
                   PROVE  With(folder, diff) = FolderAt(log, previous)
                          /\ creates = {s \in DOMAIN diff : folder[s] = Absent}
        OBVIOUS
      <3>1. QED  BY <1>4, RevertAims
    <2> HIDE DEF diff, from, previous, here
    <2>3. tx' = [tx EXCEPT ![t] = r] /\ UNCHANGED <<folder, log, marks>>
      BY <2>1 DEF Compared
    <2>4. target # 0 => n = Len(log) /\ m = n /\ id = Latest(here) /\ target = previous  OBVIOUS
    <2>5. seen <= Len(log)  BY <1>1
    <2> HIDE DEF creates, target, seen
    <2>6. r.state = "compared" /\ r.seen = seen /\ r.diff = diff /\ r.target = target /\ r.creates = creates
      BY DEF Idle
    <2> HIDE DEF r
    <2>7. QED  BY <1>1, <2>2, <2>3, <2>4, <2>5, <2>6, AimKept
  <1>5. ASSUME NEW t \in Txs, Decide(t)  PROVE Ordered' /\ Aimed'
    <2> DEFINE next == IF CheckpointDue(tx[t].commit) THEN "due" ELSE "ready"
               r == [tx[t] EXCEPT !.state = next]
    <2>1. tx' = [tx EXCEPT ![t] = r] /\ UNCHANGED <<folder, log, marks>> /\ Open(t)
      BY <1>1, <1>5 DEF Decide, Open
    <2>2. next \in {"due", "ready"}  OBVIOUS
    <2> HIDE DEF next
    <2>3. r.state = next /\ r.seen = tx[t].seen /\ r.target = tx[t].target /\ r.commit = tx[t].commit
      BY <1>1 DEF Request
    <2> HIDE DEF r
    <2>4. QED  BY <1>1, <2>1, <2>2, <2>3, AimKept DEF Aimed
  <1>6. ASSUME NEW t \in Txs, AddCheckpoint(t)  PROVE Ordered' /\ Aimed'
    <2> DEFINE r == [[tx[t] EXCEPT !.state = "ready"] EXCEPT !.commit.checkpoint = Resources(t)]
    <2>1. tx' = [tx EXCEPT ![t] = r] /\ UNCHANGED <<folder, log, marks>> /\ Open(t)
      BY <1>1, <1>6 DEF AddCheckpoint, Open
    <2>2. tx[t].commit \in Commit  BY <2>1 DEF History, Numbers, Numbered
    <2>3. r.state = "ready" /\ r.seen = tx[t].seen /\ r.target = tx[t].target
         /\ r.commit = [tx[t].commit EXCEPT !.checkpoint = Resources(t)]
      BY <1>1 DEF Request
    <2>4. r.commit.effect = tx[t].commit.effect  BY <2>2, <2>3 DEF Commit
    <2> HIDE DEF r
    <2>5. QED  BY <1>1, <2>1, <2>3, <2>4, AimKept DEF Aimed
  <1>7. ASSUME NEW t \in Txs, Abort(t)  PROVE Ordered' /\ Aimed'
    BY <1>1, <1>7, IdleAims, AimKept DEF Abort
  <1>8. CASE UNCHANGED vars
    BY <1>8 DEF vars, Ordered, Aimed, Open
  <1>9. QED
    BY <1>2, <1>3, <1>4, <1>5, <1>6, <1>7, <1>8, ApplyAims, FinishAims DEF Next

LEMMA InitAims == Init => Ordered /\ Aimed
  <1> SUFFICES ASSUME Init  PROVE Ordered /\ Aimed  OBVIOUS
  <1>1. log = <<>> /\ Len(log) = 0 /\ Range(log) = {} /\ \A t \in Txs : tx[t] = Idle
    BY DEF Init, Range
  <1>2. Ordered  BY <1>1 DEF Ordered
  <1>3. Aimed  BY <1>1 DEF Aimed, Idle
  <1>4. QED  BY <1>2, <1>3

-----------------------------------------------------------------------------
(* Theorems.                                                               *)

\* Every variable has its type, and no number is given twice: the sequence of commitId
\* is not rolled back with the transaction.
THEOREM TypeCorrect == Spec => []TypeOK
  <1>1. History => TypeOK  BY DEF History, Numbers
  <1>2. QED  BY <1>1, InitHistory, NextKeepsHistory, PTL DEF Spec

\* Every visible commit can be gone back to, unless it is late: createFolderCheckpoint
\* adds a checkpoint when the folder has none, so that the first commit that becomes
\* visible has one.
THEOREM StatesExist == Spec => []EveryCommitHasState
  <1>1. History => EveryCommitHasState  BY DEF History, Commits
  <1>2. QED  BY <1>1, InitHistory, NextKeepsHistory, PTL DEF Spec

\* reconstructFolderState gives, at the latest commit, what the folder holds: row locks
\* put the changes of a secret in the order of the numbers, and a checkpoint is read in
\* the transaction, so that it has its changes and all that is visible.
THEOREM LatestCorrect == Spec => []LatestIsFolder
  <1>1. History => LatestIsFolder  BY LatestReconstructed DEF LatestIsFolder
  <1>2. QED  BY <1>1, InitHistory, NextKeepsHistory, PTL DEF Spec

\* Checkpoints only save time: what reconstructFolderState makes of the nearest
\* checkpoint is what all the commits make.
THEOREM CheckpointsCorrect == Spec => []CheckpointsAgree
  <1>1. History => CheckpointsAgree  BY ReconstructedAll DEF CheckpointsAgree, Empty
  <1>2. QED  BY <1>1, InitHistory, NextKeepsHistory, PTL DEF Spec

\* Going back restores: the differences rollbackToCommit and revertCommitChanges
\* compared lead to the contents the folder had at the commit, as long as nothing became
\* visible in between.
THEOREM GoingBack == Spec => GoingBackRestores
  <1> DEFINE IInv == History /\ Ordered /\ Aimed
  <1>1. Init => IInv  BY InitHistory, InitAims
  <1>2. IInv /\ [Next]_vars => IInv'  BY NextKeepsHistory, NextAims
  <1>3. IInv /\ [Next]_vars =>
          [\A t \in Txs :
             /\ tx[t].state = "ready" /\ log' # log /\ Last(log').id = tx[t].commit.id
             /\ tx[t].target # 0 /\ tx[t].seen = Len(log) /\ marks = {}
             => folder' = FolderAt(log, tx[t].target)]_vars
    <2> SUFFICES ASSUME IInv, [Next]_vars, NEW t \in Txs,
                        tx[t].state = "ready", log' # log, Last(log').id = tx[t].commit.id,
                        tx[t].target # 0, tx[t].seen = Len(log), marks = {}
                 PROVE  folder' = FolderAt(log, tx[t].target)
      OBVIOUS
    <2>1. PICK u \in Txs : Finish(u)
      <3>1. PICK u \in Txs :
              \/ \E change \in Changes : Edit(u, change)
              \/ \E n, m \in 1..Len(log), id \in Ids(log) :
                   Rollback(u, n, m, id) \/ Revert(u, n, m, id)
              \/ Apply(u) \/ Decide(u) \/ AddCheckpoint(u) \/ Finish(u) \/ Abort(u)
        BY DEF Next, vars
      <3>2. ~\E change \in Changes : Edit(u, change)  BY DEF Edit, Write
      <3>3. ASSUME NEW n, NEW m, NEW id, Rollback(u, n, m, id) \/ Revert(u, n, m, id)
            PROVE  FALSE
        <4>1. log' = log  BY <3>3 DEF Rollback, Revert, Compared
        <4>2. QED  BY <4>1
      <3>4. ~Apply(u) /\ ~Decide(u) /\ ~AddCheckpoint(u) /\ ~Abort(u)
        BY DEF Apply, Write, Decide, AddCheckpoint, Abort
      <3>5. QED  BY <3>1, <3>2, <3>3, <3>4
    <2>2. Open(u) /\ Open(t) /\ tx[u].commit \in Commit
      BY <2>1 DEF History, Numbers, Numbered, Finish, Open
    <2>3. Last(log') = tx[u].commit
      <3>1. log \in Seq(Commit) /\ log' = Append(log, tx[u].commit)
        BY <2>1 DEF Finish, History, Numbers, TypeOK
      <3>2. Len(log') = Len(log) + 1 /\ log'[Len(log) + 1] = tx[u].commit  BY <2>2, <3>1
      <3>3. QED  BY <3>2 DEF Last
    <2>4. u = t  BY <2>2, <2>3 DEF History, Numbers, Numbered
    <2>5. With(folder, tx[t].commit.effect) = FolderAt(log, tx[t].target)  BY <2>2 DEF Aimed
    <2>6. QED  BY <2>1, <2>4, <2>5 DEF Finish
  <1>4. QED  BY <1>1, <1>2, <1>3, PTL DEF Spec, GoingBackRestores
=============================================================================
