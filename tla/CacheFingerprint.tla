--------------------------- MODULE CacheFingerprint ---------------------------
(***************************************************************************)
(* The cache of project permissions: withCacheFingerprint of               *)
(* lib/cache/with-cache.ts, as permission-service.ts uses it.              *)
(*                                                                         *)
(* A marker in Redis, which lives for seconds, says that the cached data   *)
(* were validated lately.  Without it a call reads a fingerprint of the    *)
(* permissions, from any replica, compares it with the one the data were   *)
(* stored under, and fetches the data when they differ, from any replica   *)
(* again: replicaNode() chooses one for each query.                        *)
(*                                                                         *)
(* The permissions of an actor are a version; the fingerprint of a version *)
(* is the version, as if no two had the same.  There is no clock but ages  *)
(* and times that are left; a tick of time needs that no call is older     *)
(* than MaxCall and no replica more than MaxLag behind.                    *)
(***************************************************************************)
EXTENDS Naturals

CONSTANTS
  Calls,      \* calls of withCacheFingerprint for one actor and project
  Replicas,   \* read replicas of the database
  MarkerTTL,  \* ProjectPermissionMarkerTtlSeconds
  DataTTL,    \* ProjectPermissionDataTtlSeconds
  MaxCall,    \* assumed: the time a call takes at most
  MaxLag,     \* assumed: the time a replica is behind at most
  OneRedis,   \* Redis is one server, without read replicas and not a cluster
  MaxWrites   \* bound: changes of the permissions

ASSUME CacheAssumption ==
  /\ MarkerTTL \in Nat \ {0} /\ DataTTL \in Nat \ {0}
  /\ MaxCall \in Nat /\ MaxLag \in Nat /\ MaxWrites \in Nat /\ OneRedis \in BOOLEAN

VARIABLES
  db,       \* version at the primary
  age,      \* how long ago a version was replaced, MaxAge for longer
  replica,  \* version at a replica
  marker,   \* for how long the marker stands
  data,     \* what the data key holds
  call,     \* the calls
  lost      \* history: a write of data failed

database == <<db, age, replica>>
redis == <<marker, data>>
vars == <<database, redis, call, lost>>

Versions == 0..MaxWrites

\* For how long permissions may be served after they were replaced.  While the marker
\* vouches for the data: a slow call stored what a replica still had; a call that had
\* validated the key wrote the marker in the end; and another read the marker when it
\* was about to expire.
Outdated == MaxLag + MaxCall
MarkerBound == Outdated + MaxCall + MarkerTTL + MaxCall
\* In any case: the data were stored once, and are read before they expire.
DataBound == Outdated + DataTTL + MaxCall
MaxAge == IF DataBound < MarkerBound THEN MarkerBound ELSE DataBound

\* A call reads marker and data, still has to read one of them, has both, must fetch
\* without the cache, has a matching or another fingerprint, has the new data, has
\* written them, or has returned `payload'.
States == {"reading", "marker?", "data?", "looked", "bypass", "match", "differs", "fetched", "stored", "done"}
\* `left' is for how long the data stand, `mixed' a history: they and their fingerprint
\* were read at different replicas.
Entry == [fp : Versions, payload : Versions, left : 0..DataTTL, mixed : BOOLEAN]
NoEntry == [fp |-> 0, payload |-> 0, left |-> 0, mixed |-> FALSE]
\* `marked' and `hit' are whether marker and data were found, `from' the replica that
\* the fingerprint was read at.
Call == [state : States, age : 0..MaxCall, marked : BOOLEAN, hit : BOOLEAN,
         fp : Versions, payload : Versions, from : SUBSET Replicas, mixed : BOOLEAN]
Idle == [state |-> "done", age |-> 0, marked |-> FALSE, hit |-> FALSE,
         fp |-> 0, payload |-> 0, from |-> {}, mixed |-> FALSE]

Init ==
  /\ db = 0
  /\ age = [v \in Versions |-> 0]
  /\ replica = [r \in Replicas |-> 0]
  /\ marker = 0
  /\ data = NoEntry
  /\ call = [c \in Calls |-> Idle]
  /\ lost = FALSE

SetCall(c, r) == call' = [call EXCEPT ![c] = r]
Goto(c, st) == SetCall(c, [call[c] EXCEPT !.state = st])
\* What is not needed any more is forgotten.
Return(c, v, m) == SetCall(c, [Idle EXCEPT !.payload = v, !.mixed = m])

-----------------------------------------------------------------------------
(* The database.                                                           *)

Change ==
  /\ db < MaxWrites
  /\ db' = db + 1
  /\ UNCHANGED <<age, replica, redis, call, lost>>

Replicate(r) ==
  /\ replica[r] < db
  /\ replica' = [replica EXCEPT ![r] = @ + 1]
  /\ UNCHANGED <<db, age, redis, call, lost>>

Less(n) == IF n = 0 THEN 0 ELSE n - 1

Tick ==
  /\ \A c \in Calls : call[c].state # "done" => call[c].age < MaxCall
  /\ \A r \in Replicas : replica[r] < db => age[replica[r]] < MaxLag
  /\ age' = [v \in Versions |-> IF v < db /\ age[v] < MaxAge THEN age[v] + 1 ELSE age[v]]
  /\ marker' = Less(marker)
  /\ data' = IF data.left > 1 THEN [data EXCEPT !.left = @ - 1] ELSE NoEntry
  /\ call' = [c \in Calls |-> IF call[c].state = "done" THEN call[c] ELSE [call[c] EXCEPT !.age = @ + 1]]
  /\ UNCHANGED <<db, replica, lost>>

-----------------------------------------------------------------------------
(* A call.                                                                 *)

Begin(c) ==
  /\ call[c].state = "done"
  /\ SetCall(c, [Idle EXCEPT !.state = "reading"])
  /\ UNCHANGED <<database, redis, lost>>

\* The two reads go out together, the marker's first.  One server answers them in
\* that order; otherwise each may come from another replica.  A read that fails
\* finds nothing.
ReadMarker(c) ==
  /\ call[c].state \in {"reading", "marker?"}
  /\ \E found \in {marker > 0, FALSE} :
       SetCall(c, [call[c] EXCEPT !.state = IF @ = "reading" THEN "data?" ELSE "looked", !.marked = found])
  /\ UNCHANGED <<database, redis, lost>>

ReadData(c) ==
  /\ call[c].state \in IF OneRedis THEN {"data?"} ELSE {"reading", "data?"}
  /\ \E found \in {data.left > 0, FALSE} :
       SetCall(c, [call[c] EXCEPT !.state = IF @ = "reading" THEN "marker?" ELSE "looked",
                                  !.hit = found,
                                  !.fp = IF found THEN data.fp ELSE 0,
                                  !.payload = IF found THEN data.payload ELSE 0,
                                  !.mixed = found /\ data.mixed])
  /\ UNCHANGED <<database, redis, lost>>

ServeMarked(c) ==
  /\ call[c].state = "looked" /\ call[c].marked /\ call[c].hit
  /\ Return(c, call[c].payload, call[c].mixed)
  /\ UNCHANGED <<database, redis, lost>>

\* getPermissionFingerprint reads any replica, or fails.
FetchFingerprint(c) ==
  /\ call[c].state = "looked" /\ ~(call[c].marked /\ call[c].hit)
  /\ \/ \E r \in Replicas :
          SetCall(c, [call[c] EXCEPT
            !.state = IF call[c].hit /\ call[c].fp = replica[r] THEN "match" ELSE "differs",
            !.fp = replica[r], !.from = {r}])
     \/ Goto(c, "bypass")
  /\ UNCHANGED <<database, redis, lost>>

\* The data fetcher alone: nothing is cached.
Bypass(c) ==
  /\ call[c].state = "bypass"
  /\ \E r \in Replicas : Return(c, replica[r], FALSE)
  /\ UNCHANGED <<database, redis, lost>>

\* Mutant of Marker: the marker gets the lifetime of the data.
Marker_Long == DataTTL

Marker == MarkerTTL

\* Mutant of WriteMarker: a match renews the lifetime of the data, too.
WriteMarker_RenewsData(c) ==
  /\ call[c].state \in {"match", "stored"}
  /\ marker' \in {Marker, marker}
  /\ data' = IF data.left > 0 THEN [data EXCEPT !.left = DataTTL] ELSE data
  /\ Return(c, call[c].payload, call[c].mixed)
  /\ UNCHANGED <<database, lost>>

\* The marker is written, or the write fails and is forgotten.
WriteMarker(c) ==
  /\ call[c].state \in {"match", "stored"}
  /\ marker' \in {Marker, marker}
  /\ Return(c, call[c].payload, call[c].mixed)
  /\ UNCHANGED <<database, data, lost>>

\* getPermission reads a replica of its own choice.
FetchData(c) ==
  /\ call[c].state = "differs"
  /\ \E r \in Replicas :
       SetCall(c, [call[c] EXCEPT !.state = "fetched", !.payload = replica[r],
                                  !.mixed = r \notin call[c].from])
  /\ UNCHANGED <<database, redis, lost>>

\* Mutant of WriteData: the data are stored under a fingerprint read after them.
WriteData_FreshFingerprint(c) ==
  /\ call[c].state = "fetched"
  /\ \/ /\ \E r \in call[c].from :
             data' = [fp |-> replica[r], payload |-> call[c].payload, left |-> DataTTL,
                      mixed |-> call[c].mixed]
        /\ UNCHANGED lost
     \/ lost' = TRUE /\ UNCHANGED data
  /\ Goto(c, "stored")
  /\ UNCHANGED <<database, marker>>

\* The data are stored under the fingerprint that was read before them; the marker
\* is written even if that fails.
WriteData(c) ==
  /\ call[c].state = "fetched"
  /\ \/ /\ data' = [fp |-> call[c].fp, payload |-> call[c].payload, left |-> DataTTL,
                   mixed |-> call[c].mixed]
        /\ UNCHANGED lost
     \/ lost' = TRUE /\ UNCHANGED data
  /\ Goto(c, "stored")
  /\ UNCHANGED <<database, marker>>

-----------------------------------------------------------------------------
CallStep(c) ==
  \/ Begin(c) \/ ReadMarker(c) \/ ReadData(c) \/ ServeMarked(c)
  \/ FetchFingerprint(c) \/ Bypass(c) \/ FetchData(c) \/ WriteData(c) \/ WriteMarker(c)

Next ==
  \/ Change \/ Tick
  \/ \E r \in Replicas : Replicate(r)
  \/ \E c \in Calls : CallStep(c)

Spec == Init /\ [][Next]_vars

-----------------------------------------------------------------------------
(* Properties.                                                             *)

TypeOK ==
  /\ db \in Versions
  /\ age \in [Versions -> 0..MaxAge]
  /\ replica \in [Replicas -> 0..db]
  /\ marker \in 0..MarkerTTL
  /\ data \in Entry
  /\ call \in [Calls -> Call]
  /\ lost \in BOOLEAN

\* The cached data are never older than the fingerprint they are stored under, although
\* the replica lags, calls overlap and writes fail: so a fingerprint that matches does
\* not make data live on that it has seen replaced.  That is so of data that were read
\* at the same replica as their fingerprint; another replica may be further behind.
DataNotOlder ==
  data.mixed \/ data.fp <= data.payload

Replaced(v, time) == v = db \/ age[v] < time

\* A call returns permissions that were replaced, if at all, less than the lag of a
\* replica, three calls and the lifetime of the marker ago.  This needs three things:
\* that the data were read at the same replica as their fingerprint, or an outdated
\* payload matches a newer fingerprint until it expires; that no write of data failed,
\* or the marker vouches for data that did not match; that one server answers both
\* reads of Redis, or old data are read beside a new marker.  Without them the lag,
\* two calls and the lifetime of the data remain: no match ever renews the data.
StaleBounded ==
  [][\A c \in Calls : call[c].state # "done" /\ call'[c].state = "done" =>
       /\ Replaced(call'[c].payload, DataBound)
       /\ OneRedis /\ ~lost /\ ~call'[c].mixed => Replaced(call'[c].payload, MarkerBound)]_vars
=============================================================================
