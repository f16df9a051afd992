------------------------ MODULE CacheFingerprintProofs ------------------------
(***************************************************************************)
(* Safety of CacheFingerprint: its types, that the cached data are never   *)
(* older than their fingerprint, but where two replicas were mixed, and    *)
(* for how long outdated data are served.                                  *)
(***************************************************************************)
EXTENDS CacheFingerprint, TLAPS

\* What is current was not replaced, and what came later was replaced later.
AgesFall ==
  /\ \A v \in Versions : v >= db => age[v] = 0
  /\ \A u, v \in Versions : u <= v => age[v] <= age[u]

ReplicasLag == \A r \in Replicas : age[replica[r]] <= MaxLag

\* A call holds what it has found in the data key.
Holds(r) == (r.state \in {"looked", "marker?"} /\ r.hit) \/ r.state = "match"

\* What a call has found, or is about to store: its data are not older than its
\* fingerprint if both are of one replica, and not replaced for longer than they can be.
Sound(r) ==
  /\ r.state = "differs" => \A p \in r.from : r.fp <= replica[p]
  /\ r.state = "fetched" => r.mixed \/ r.fp <= r.payload
  /\ r.state \in {"looked", "marker?"} /\ r.hit => r.mixed \/ r.fp <= r.payload
  /\ r.state = "match" => r.mixed \/ age[r.payload] <= MaxLag + r.age
  /\ r.state \in {"fetched", "stored"} => age[r.payload] <= MaxLag + r.age
  /\ Holds(r) => age[r.payload] < Outdated + DataTTL + r.age
  /\ OneRedis => r.state # "marker?"

CallsSound == \A c \in Calls : Sound(call[c])

\* The less time the data have left, the longer they may have been replaced.
DataInTime ==
  data.left > 0 => age[data.payload] + data.left <= Outdated + DataTTL

\* The less time the marker has left, the longer the data may have been replaced.
MarkerInTime ==
  marker > 0 /\ data.left > 0 /\ ~data.mixed => age[data.payload] + marker <= Outdated + MaxCall + MarkerTTL

\* A call that is to renew the marker stands for the data that the key holds, be they
\* those that it read or those of a call that overtook it; one that found the marker
\* for the data that it has read or will read.
InTime(r) ==
  /\ r.state \in {"match", "stored"} /\ data.left > 0 /\ ~data.mixed =>
       age[data.payload] <= Outdated + r.age
  /\ r.state = "looked" /\ r.hit /\ data.left > 0 /\ ~data.mixed =>
       \/ data.payload = r.payload /\ ~r.mixed
       \/ age[data.payload] <= Outdated + r.age
  /\ r.state = "data?" /\ r.marked /\ data.left > 0 /\ ~data.mixed =>
       age[data.payload] < Outdated + MaxCall + MarkerTTL + r.age
  /\ r.state = "looked" /\ r.marked /\ r.hit /\ ~r.mixed =>
       age[r.payload] < Outdated + MaxCall + MarkerTTL + r.age

Timely == OneRedis /\ ~lost => MarkerInTime /\ \A c \in Calls : InTime(call[c])

Inv == TypeOK /\ DataNotOlder /\ AgesFall /\ ReplicasLag /\ CallsSound /\ DataInTime /\ Timely

\* The bounds of the types are numbers.
LEMMA Bounds ==
  /\ MaxAge \in Nat /\ 0 \in Versions /\ Versions \subseteq Nat
  /\ 0 \in 0..MaxCall /\ 0 \in 0..DataTTL /\ 0 \in 0..MarkerTTL /\ 0 \in 0..MaxAge
  /\ DataTTL \in 0..DataTTL /\ MarkerTTL \in 0..MarkerTTL
  /\ Outdated \in Nat /\ MaxLag <= Outdated /\ MaxCall <= Outdated
  /\ Outdated = MaxLag + MaxCall
  /\ MarkerBound = Outdated + MaxCall + MarkerTTL + MaxCall
  /\ DataBound = Outdated + DataTTL + MaxCall
  BY CacheAssumption DEF MaxAge, MarkerBound, DataBound, Outdated, Versions

\* A call that is done is one of which nothing is asked.
LEMMA IdleType ==
  /\ Idle \in Call /\ [Idle EXCEPT !.state = "reading"] \in Call
  /\ Idle.state = "done" /\ [Idle EXCEPT !.state = "reading"].state = "reading"
  BY Bounds DEF Idle, Call, States

\* An age is a number.
LEMMA AgeType ==
  ASSUME Inv, NEW v \in Versions
  PROVE  age[v] \in Nat
  <1>1. age[v] \in 0..MaxAge  BY DEF Inv, TypeOK
  <1>2. QED  BY <1>1, Bounds

\* Nothing is cached at the start.
LEMMA InitInv == Init => Inv
  <1> SUFFICES ASSUME Init  PROVE Inv  OBVIOUS
  <1>1. data \in Entry /\ DataNotOlder /\ data.left = 0
    BY Bounds DEF Init, Entry, NoEntry, DataNotOlder
  <1>2. call \in [Calls -> Call]  BY IdleType DEF Init
  <1>3. replica \in [Replicas -> 0..db]  BY DEF Init
  <1>4. age \in [Versions -> 0..MaxAge]  BY Bounds DEF Init
  <1>5. TypeOK  BY <1>1, <1>2, <1>3, <1>4, Bounds DEF Init, TypeOK
  <1>6. AgesFall /\ ReplicasLag  BY Bounds, CacheAssumption DEF Init, AgesFall, ReplicasLag
  <1>7. \A c \in Calls : call[c].state = "done"  BY IdleType DEF Init
  <1>8. CallsSound  BY <1>7 DEF CallsSound, Sound, Holds
  <1>9. DataInTime /\ Timely  BY <1>1, <1>7 DEF DataInTime, Init, Timely, MarkerInTime, InTime
  <1>10. QED  BY <1>1, <1>5, <1>6, <1>8, <1>9 DEF Inv

\* Permissions change.
LEMMA ChangeKeepsInv ==
  ASSUME Inv, Change
  PROVE  Inv'
  <1>1. db' \in Versions /\ db \in Nat /\ db' = db + 1
    BY CacheAssumption DEF Change, Inv, TypeOK, Versions
  <1>2. UNCHANGED <<age, replica, marker, data, call, lost>>  BY DEF Change, redis
  <1>3. replica' \in [Replicas -> 0..db']  BY <1>1, <1>2 DEF Inv, TypeOK
  <1>4. TypeOK'  BY <1>1, <1>2, <1>3 DEF Inv, TypeOK
  <1>5. AgesFall'  BY <1>1, <1>2, Bounds DEF Inv, AgesFall
  <1>6. (CallsSound /\ DataNotOlder /\ ReplicasLag /\ DataInTime /\ Timely)'
    BY <1>2 DEF Inv, CallsSound, Sound, Holds, DataNotOlder, ReplicasLag, DataInTime, Timely,
                MarkerInTime, InTime
  <1>7. QED  BY <1>4, <1>5, <1>6 DEF Inv

\* A replica catches up.
LEMMA ReplicateKeepsInv ==
  ASSUME Inv, NEW r \in Replicas, Replicate(r)
  PROVE  Inv'
  <1>1. UNCHANGED <<db, age, marker, data, call, lost>>  BY DEF Replicate, redis
  <1>2. /\ replica[r] \in Versions /\ replica[r] + 1 \in Versions
        /\ replica' = [replica EXCEPT ![r] = replica[r] + 1]
        /\ replica' \in [Replicas -> 0..db]
    BY CacheAssumption DEF Replicate, Inv, TypeOK, Versions
  <1>3. age[replica[r] + 1] <= age[replica[r]] /\ age[replica[r]] <= MaxLag
    <2>1. replica[r] <= replica[r] + 1  BY <1>2, CacheAssumption DEF Versions
    <2>2. QED  BY <1>2, <2>1 DEF Inv, AgesFall, ReplicasLag
  <1>4. age[replica[r] + 1] \in Nat /\ age[replica[r]] \in Nat  BY <1>2, Bounds DEF Inv, TypeOK
  <1>5. ReplicasLag'
    BY <1>1, <1>2, <1>3, <1>4, CacheAssumption DEF Inv, TypeOK, ReplicasLag
  <1>6. TypeOK'  BY <1>1, <1>2 DEF Inv, TypeOK
  <1>7. ASSUME NEW c \in Calls  PROVE Sound(call[c])'
    <2>1. Sound(call[c]) /\ call[c] \in Call  BY DEF Inv, TypeOK, CallsSound
    <2>2. ASSUME call[c].state = "differs", NEW p \in call[c].from  PROVE call[c].fp <= replica'[p]
      <3>1. call[c].fp <= replica[p] /\ p \in Replicas /\ call[c].fp \in Nat
        BY <2>1, <2>2, Bounds DEF Sound, Call
      <3>2. replica[p] \in Nat /\ replica'[p] \in Nat /\ replica[p] <= replica'[p]
        BY <1>2, <3>1, CacheAssumption DEF Inv, TypeOK, Versions
      <3>3. QED  BY <3>1, <3>2
    <2>3. QED  BY <1>1, <2>1, <2>2 DEF Sound, Holds
  <1>8. CallsSound'  BY <1>7 DEF CallsSound
  <1>9. (DataNotOlder /\ AgesFall /\ DataInTime /\ Timely)'
    BY <1>1 DEF Inv, DataNotOlder, AgesFall, DataInTime, Timely, MarkerInTime, InTime
  <1>10. QED  BY <1>5, <1>6, <1>8, <1>9 DEF Inv

\* What one loses the other gains, at most.
LEMMA Sums ==
  ASSUME NEW a \in Nat, NEW b \in Nat, NEW m \in Nat, NEW n \in Nat, b <= a + 1, n + 1 = m
  PROVE  b + n <= a + m
  OBVIOUS

\* Time passes: what grows older does so by one, like the calls.
LEMMA TickKeepsInv ==
  ASSUME Inv, Tick
  PROVE  Inv'
  <1>1. UNCHANGED <<db, replica, lost>>  BY DEF Tick
  <1>2. age' \in [Versions -> 0..MaxAge]  BY Bounds DEF Tick, Inv, TypeOK
  <1>3. \A v \in Versions : /\ age[v] \in Nat /\ age'[v] \in Nat
                            /\ age[v] <= age'[v] /\ age'[v] <= age[v] + 1
                            /\ v >= db => age'[v] = age[v]
    BY <1>2, Bounds DEF Tick, Inv, TypeOK
  <1>4. marker' \in 0..MarkerTTL /\ (marker' > 0 => marker > 0 /\ marker' + 1 = marker)
    BY CacheAssumption DEF Tick, Less, Inv, TypeOK
  <1>5. data' \in Entry /\ DataNotOlder'
    BY Bounds, CacheAssumption DEF Tick, Inv, TypeOK, Entry, NoEntry, DataNotOlder
  <1>6. data'.left > 0 => /\ data.left > 0 /\ data'.payload = data.payload
                          /\ data'.left + 1 = data.left /\ data'.mixed = data.mixed
    <2>1. data \in Entry /\ data.left \in Nat  BY CacheAssumption DEF Inv, TypeOK, Entry
    <2>2. CASE data.left > 1
      <3>1. data' = [data EXCEPT !.left = data.left - 1]  BY <2>2 DEF Tick
      <3>2. /\ data'.payload = data.payload /\ data'.mixed = data.mixed
            /\ data'.left = data.left - 1
        BY <2>1, <3>1 DEF Entry
      <3>3. QED  BY <2>1, <2>2, <3>2
    <2>3. CASE ~(data.left > 1)
      <3>1. data'.left = 0  BY <2>3 DEF Tick, NoEntry
      <3>2. QED  BY <3>1
    <2>4. QED  BY <2>2, <2>3
  <1>7. \A c \in Calls : /\ call'[c] \in Call /\ call'[c].state = call[c].state
                         /\ call'[c].fp = call[c].fp /\ call'[c].payload = call[c].payload
                         /\ call'[c].marked = call[c].marked /\ call'[c].hit = call[c].hit
                         /\ call'[c].from = call[c].from /\ call'[c].mixed = call[c].mixed
                         /\ call[c].state # "done" => call'[c].age = call[c].age + 1
    BY CacheAssumption DEF Tick, Inv, TypeOK, Call
  <1>8. call' \in [Calls -> Call]  BY <1>7 DEF Tick
  <1>9. TypeOK'  BY <1>1, <1>2, <1>4, <1>5, <1>8 DEF Inv, TypeOK
  <1>10. AgesFall'
    <2>1. \A v \in Versions : v >= db => age'[v] = 0  BY <1>3 DEF Inv, AgesFall
    <2>2. ASSUME NEW u \in Versions, NEW v \in Versions, u <= v  PROVE age'[v] <= age'[u]
      <3>1. age[v] <= age[u]  BY <2>2 DEF Inv, AgesFall
      <3>2. db \in Nat /\ u \in Nat /\ v \in Nat  BY Bounds DEF Inv, TypeOK
      <3>3. /\ age'[u] = IF u < db /\ age[u] < MaxAge THEN age[u] + 1 ELSE age[u]
            /\ age'[v] = IF v < db /\ age[v] < MaxAge THEN age[v] + 1 ELSE age[v]
        BY DEF Tick
      <3>4. age[u] \in 0..MaxAge /\ age[v] \in 0..MaxAge  BY DEF Inv, TypeOK
      <3>5. QED  BY <2>2, <3>1, <3>2, <3>3, <3>4, Bounds
    <2>3. QED  BY <1>1, <2>1, <2>2 DEF AgesFall
  <1>11. ReplicasLag'
    <2>1. ASSUME NEW r \in Replicas  PROVE age'[replica[r]] <= MaxLag
      <3>1. replica[r] \in Versions /\ replica[r] <= db /\ db \in Nat /\ replica[r] \in Nat
        BY CacheAssumption DEF Inv, TypeOK, Versions
      <3>2. replica[r] < db => age[replica[r]] < MaxLag  BY DEF Tick
      <3>3. age[replica[r]] <= MaxLag  BY DEF Inv, ReplicasLag
      <3>4. QED  BY <1>3, <3>1, <3>2, <3>3, CacheAssumption
    <2>2. QED  BY <1>1, <2>1 DEF ReplicasLag
  <1>12. ASSUME NEW c \in Calls  PROVE Sound(call[c])' /\ (Timely /\ OneRedis /\ ~lost => InTime(call[c])')
    <2>1. /\ Sound(call[c])
          /\ call[c].age \in Nat /\ call'[c].age \in Nat /\ call[c].payload \in Versions
          /\ data.payload \in Versions /\ data'.payload \in Versions
      BY <1>5, <1>7, CacheAssumption DEF Inv, TypeOK, Call, Entry, CallsSound
    <2>2. /\ age[call[c].payload] \in Nat /\ age'[call[c].payload] \in Nat
          /\ age'[call[c].payload] <= age[call[c].payload] + 1
          /\ age[data.payload] \in Nat /\ age'[data.payload] \in Nat
          /\ age'[data.payload] <= age[data.payload] + 1
      BY <1>3, <2>1
    <2>3. Sound(call[c])'  BY <1>1, <1>7, <2>1, <2>2, Bounds, CacheAssumption DEF Sound, Holds
    <2>4. ASSUME Timely, OneRedis, ~lost  PROVE InTime(call[c])'
      <3>1. InTime(call[c])  BY <2>4 DEF Timely
      <3>2. QED  BY <1>6, <1>7, <2>1, <2>2, <3>1, Bounds, CacheAssumption DEF InTime
    <2>5. QED  BY <2>3, <2>4
  <1>13. Timely /\ OneRedis /\ ~lost => MarkerInTime'
    <2> SUFFICES ASSUME MarkerInTime  PROVE MarkerInTime'  BY DEF Timely
    <2>1. data.payload \in Versions /\ marker \in Nat /\ marker' \in Nat
      BY <1>4, CacheAssumption DEF Inv, TypeOK, Entry
    <2>2. age[data.payload] \in Nat /\ age'[data.payload] \in Nat /\ age'[data.payload] <= age[data.payload] + 1
      BY <1>3, <2>1
    <2> SUFFICES ASSUME marker' > 0, data'.left > 0, ~data'.mixed
                 PROVE  age'[data.payload] + marker' <= Outdated + MaxCall + MarkerTTL
      BY <1>6 DEF MarkerInTime
    <2>3. age[data.payload] + marker <= Outdated + MaxCall + MarkerTTL  BY <1>4, <1>6 DEF MarkerInTime
    <2>4. marker' + 1 = marker  BY <1>4
    <2>5. age'[data.payload] + marker' <= age[data.payload] + marker  BY ONLY <2>1, <2>2, <2>4, Sums
    <2>6. QED  BY <2>1, <2>2, <2>3, <2>5, Bounds, CacheAssumption
  <1>14. DataInTime'
    <2> SUFFICES ASSUME data'.left > 0
                 PROVE  age'[data.payload] + data'.left <= Outdated + DataTTL
      BY <1>6 DEF DataInTime
    <2>1. data.payload \in Versions /\ data.left \in Nat /\ data'.left \in Nat
      BY <1>5, CacheAssumption DEF Inv, TypeOK, Entry
    <2>2. age[data.payload] \in Nat /\ age'[data.payload] \in Nat /\ age'[data.payload] <= age[data.payload] + 1
      BY <1>3, <2>1
    <2>3. age[data.payload] + data.left <= Outdated + DataTTL  BY <1>6 DEF Inv, DataInTime
    <2>4. data'.left + 1 = data.left  BY <1>6
    <2>5. age'[data.payload] + data'.left <= age[data.payload] + data.left  BY ONLY <2>1, <2>2, <2>4, Sums
    <2>6. QED  BY <2>1, <2>2, <2>3, <2>5, Bounds, CacheAssumption
  <1>15. CallsSound' /\ Timely'  BY <1>1, <1>12, <1>13 DEF Inv, CallsSound, Timely
  <1>16. QED  BY <1>5, <1>9, <1>10, <1>11, <1>14, <1>15 DEF Inv

\* A step of a call that changes neither the database nor the data, and what has to
\* be shown of it.
LEMMA CallMoves ==
  ASSUME Inv, NEW c \in Calls, NEW r \in Call, SetCall(c, r),
         UNCHANGED <<database, data, lost>>, marker' \in 0..MarkerTTL,
         Sound(r), OneRedis /\ ~lost => InTime(r), OneRedis /\ ~lost => MarkerInTime'
  PROVE  Inv'
  <1>1. call' \in [Calls -> Call]  BY DEF SetCall, Inv, TypeOK
  <1>2. UNCHANGED <<db, age, replica, data, lost>>  BY DEF database
  <1>3. TypeOK'  BY <1>1, <1>2 DEF Inv, TypeOK
  <1>4. \A d \in Calls : call'[d] = IF d = c THEN r ELSE call[d]  BY DEF SetCall, Inv, TypeOK
  <1>5. ASSUME NEW d \in Calls
        PROVE  /\ Sound(call[d])'
               /\ OneRedis /\ ~lost => InTime(call[d])'
    <2>1. CASE d = c
      <3>1. call'[d] = r  BY <1>4, <2>1
      <3>2. Sound(call[d])'  BY <1>2, <3>1 DEF Sound, Holds
      <3>3. OneRedis /\ ~lost => InTime(call[d])'  BY <1>2, <3>1 DEF InTime
      <3>4. QED  BY <3>2, <3>3
    <2>2. CASE d # c
      <3>1. call'[d] = call[d]  BY <1>4, <2>2
      <3>2. Sound(call[d]) /\ (OneRedis /\ ~lost => InTime(call[d]))  BY DEF Inv, CallsSound, Timely
      <3>3. Sound(call[d])'  BY <1>2, <3>1, <3>2 DEF Sound, Holds
      <3>4. OneRedis /\ ~lost => InTime(call[d])'  BY <1>2, <3>1, <3>2 DEF InTime
      <3>5. QED  BY <3>3, <3>4
    <2>3. QED  BY <2>1, <2>2
  <1>6. CallsSound' /\ Timely'  BY <1>2, <1>5 DEF CallsSound, Timely
  <1>7. (DataNotOlder /\ AgesFall /\ ReplicasLag /\ DataInTime)'
    BY <1>2 DEF Inv, DataNotOlder, AgesFall, ReplicasLag, DataInTime
  <1>8. QED  BY <1>3, <1>6, <1>7 DEF Inv

\* The same for a step that leaves the marker, too.
LEMMA CallMovesOn ==
  ASSUME Inv, NEW c \in Calls, NEW r \in Call, SetCall(c, r),
         UNCHANGED <<database, redis, lost>>,
         Sound(r), OneRedis /\ ~lost => InTime(r)
  PROVE  Inv'
  <1>1. UNCHANGED <<age, marker, data>>  BY DEF database, redis
  <1>2. marker' \in 0..MarkerTTL  BY <1>1 DEF Inv, TypeOK
  <1>3. OneRedis /\ ~lost => MarkerInTime'  BY <1>1 DEF Inv, Timely, MarkerInTime
  <1>4. UNCHANGED data  BY DEF redis
  <1>5. QED  BY <1>2, <1>3, <1>4, CallMoves

\* Beginning, reading the two keys, and serving what they hold.
LEMMA LookingKeepsInv ==
  ASSUME Inv, NEW c \in Calls, Begin(c) \/ ReadMarker(c) \/ ReadData(c) \/ ServeMarked(c)
  PROVE  Inv'
  <1>1. /\ call[c] \in Call /\ data \in Entry /\ Sound(call[c])
        /\ OneRedis /\ ~lost => InTime(call[c]) /\ MarkerInTime
    BY DEF Inv, TypeOK, CallsSound, Timely
  <1>2. CASE Begin(c)
    <2> DEFINE r == [Idle EXCEPT !.state = "reading"]
    <2>1. r \in Call /\ r.state = "reading"  BY IdleType
    <2>2. SetCall(c, r) /\ UNCHANGED <<database, redis, lost>>  BY <1>2 DEF Begin
    <2> HIDE DEF r
    <2>3. Sound(r) /\ InTime(r)  BY <2>1 DEF Sound, Holds, InTime
    <2>4. QED  BY <2>1, <2>2, <2>3, CallMovesOn
  <1>3. CASE ReadMarker(c)
    <2>1. PICK found \in {marker > 0, FALSE} :
            SetCall(c, [call[c] EXCEPT !.state = IF @ = "reading" THEN "data?" ELSE "looked", !.marked = found])
      BY <1>3 DEF ReadMarker
    <2>2. UNCHANGED <<database, redis, lost>> /\ call[c].state \in {"reading", "marker?"}
      BY <1>3 DEF ReadMarker
    <2>3. found \in BOOLEAN /\ (found => marker > 0)
      <3>1. (marker > 0) \in BOOLEAN  OBVIOUS
      <3>2. QED  BY <3>1, Zenon
    <2> DEFINE r == [call[c] EXCEPT !.state = IF @ = "reading" THEN "data?" ELSE "looked", !.marked = found]
    <2>4. /\ r \in Call /\ r.state \in {"data?", "looked"} /\ r.age = call[c].age
          /\ r.marked = found /\ r.hit = call[c].hit /\ r.fp = call[c].fp /\ r.payload = call[c].payload
          /\ r.mixed = call[c].mixed
          /\ call[c].state = "reading" => r.state = "data?"
      BY <1>1, <2>3 DEF Call, States
    <2>5. SetCall(c, r)  BY <2>1
    <2> HIDE DEF r
    <2>6. Sound(r)
      <3>1. r.state = "data?" \/ (r.state = "looked" /\ call[c].state = "marker?")  BY <2>2, <2>4
      <3>2. CASE r.state = "data?"  BY <2>4, <3>2 DEF Sound, Holds
      <3>3. CASE r.state = "looked" /\ call[c].state = "marker?"
        BY <1>1, <2>4, <3>3 DEF Sound, Holds
      <3>4. QED  BY <3>1, <3>2, <3>3
    <2>7. ASSUME OneRedis, ~lost  PROVE InTime(r)
      <3>1. r.state = "data?"  BY <1>1, <2>2, <2>4, <2>7 DEF Sound
      <3>2. r.marked => marker > 0  BY <2>3, <2>4
      <3>3. data.payload \in Versions /\ marker \in Nat /\ r.age \in Nat
        BY <1>1, <2>4, CacheAssumption DEF Inv, TypeOK, Entry, Call
      <3>4. age[data.payload] \in Nat  BY <3>3, AgeType
      <3>5. r.marked /\ data.left > 0 /\ ~data.mixed => age[data.payload] + marker <= Outdated + MaxCall + MarkerTTL
        BY <1>1, <2>7, <3>2 DEF MarkerInTime
      <3>6. r.marked /\ data.left > 0 /\ ~data.mixed => age[data.payload] < Outdated + MaxCall + MarkerTTL + r.age
        BY <3>2, <3>3, <3>4, <3>5, Bounds, CacheAssumption
      <3>7. QED  BY <3>1, <3>6 DEF InTime
    <2>8. QED  BY <2>2, <2>4, <2>5, <2>6, <2>7, CallMovesOn
  <1>4. CASE ReadData(c)
    <2>1. PICK found \in {data.left > 0, FALSE} :
            SetCall(c, [call[c] EXCEPT !.state = IF @ = "reading" THEN "marker?" ELSE "looked",
                                       !.hit = found,
                                       !.fp = IF found THEN data.fp ELSE 0,
                                       !.payload = IF found THEN data.payload ELSE 0,
                                       !.mixed = found /\ data.mixed])
      BY <1>4 DEF ReadData
    <2>2. /\ UNCHANGED <<database, redis, lost>>
          /\ call[c].state \in IF OneRedis THEN {"data?"} ELSE {"reading", "data?"}
      BY <1>4 DEF ReadData
    <2>3. found \in BOOLEAN /\ (found => data.left > 0)
      <3>1. (data.left > 0) \in BOOLEAN  OBVIOUS
      <3>2. QED  BY <3>1, Zenon
    <2> DEFINE r == [call[c] EXCEPT !.state = IF @ = "reading" THEN "marker?" ELSE "looked",
                                    !.hit = found,
                                    !.fp = IF found THEN data.fp ELSE 0,
                                    !.payload = IF found THEN data.payload ELSE 0,
                                    !.mixed = found /\ data.mixed]
    <2>4. /\ r \in Call /\ r.state \in {"marker?", "looked"} /\ r.age = call[c].age
          /\ r.marked = call[c].marked /\ r.hit = found
          /\ found => r.fp = data.fp /\ r.payload = data.payload /\ r.mixed = data.mixed
          /\ call[c].state = "data?" => r.state = "looked"
      BY <1>1, <2>3, Bounds DEF Call, Entry, States
    <2>5. SetCall(c, r)  BY <2>1
    <2> HIDE DEF r
    <2>6. Sound(r)
      <3>1. r.hit => data.left > 0 /\ r.payload = data.payload /\ (r.mixed \/ r.fp <= r.payload)
        BY <2>3, <2>4 DEF Inv, DataNotOlder
      <3>2. data.payload \in Versions /\ data.left \in Nat /\ r.age \in Nat
        BY <1>1, <2>4, CacheAssumption DEF Entry, Call
      <3>3. age[data.payload] \in Nat  BY <3>2, AgeType
      <3>4. data.left > 0 => age[data.payload] + data.left <= Outdated + DataTTL
        BY DEF Inv, DataInTime
      <3>5. data.left > 0 => age[data.payload] < Outdated + DataTTL + r.age
        BY <3>2, <3>3, <3>4, Bounds, CacheAssumption
      <3>6. OneRedis => r.state # "marker?"  BY <2>2, <2>4
      <3>7. QED  BY <2>4, <3>1, <3>5, <3>6 DEF Sound, Holds
    <2>7. ASSUME OneRedis, ~lost  PROVE InTime(r)
      <3>1. call[c].state = "data?" /\ r.state = "looked"  BY <2>2, <2>4, <2>7
      <3>2. r.hit => data.left > 0 /\ r.payload = data.payload /\ r.mixed = data.mixed  BY <2>3, <2>4
      <3>3. QED  BY <1>1, <2>4, <2>7, <3>1, <3>2 DEF InTime
    <2>8. QED  BY <2>2, <2>4, <2>5, <2>6, <2>7, CallMovesOn
  <1>5. CASE ServeMarked(c)
    <2> DEFINE r == [Idle EXCEPT !.payload = call[c].payload, !.mixed = call[c].mixed]
    <2>1. r \in Call /\ r.state = "done"  BY <1>1, IdleType DEF Call, Idle
    <2>2. SetCall(c, r) /\ UNCHANGED <<database, redis, lost>>  BY <1>5 DEF ServeMarked, Return
    <2> HIDE DEF r
    <2>3. Sound(r) /\ InTime(r)  BY <2>1 DEF Sound, Holds, InTime
    <2>4. QED  BY <2>1, <2>2, <2>3, CallMovesOn
  <1>6. QED  BY <1>2, <1>3, <1>4, <1>5

\* Reading the fingerprint and the data.
LEMMA FetchingKeepsInv ==
  ASSUME Inv, NEW c \in Calls, FetchFingerprint(c) \/ Bypass(c) \/ FetchData(c)
  PROVE  Inv'
  <1>1. /\ call[c] \in Call /\ data \in Entry /\ Sound(call[c])
        /\ OneRedis /\ ~lost => InTime(call[c])
    BY DEF Inv, TypeOK, CallsSound, Timely
  <1>2. /\ db \in Versions /\ db \in Nat /\ call[c].age \in Nat /\ call[c].payload \in Versions
        /\ data.payload \in Versions
        /\ \A v \in Versions : v \in Nat /\ age[v] \in Nat
        /\ \A r \in Replicas : replica[r] \in Versions /\ replica[r] <= db /\ age[replica[r]] <= MaxLag
    BY <1>1, Bounds, CacheAssumption DEF Inv, TypeOK, Versions, Call, Entry, ReplicasLag
  <1>3. CASE FetchFingerprint(c)
    <2>1. UNCHANGED <<database, redis, lost>>  BY <1>3 DEF FetchFingerprint
    <2>2. CASE \E p \in Replicas :
                 SetCall(c, [call[c] EXCEPT
                   !.state = IF call[c].hit /\ call[c].fp = replica[p] THEN "match" ELSE "differs",
                   !.fp = replica[p], !.from = {p}])
      <3>1. PICK p \in Replicas :
                 SetCall(c, [call[c] EXCEPT
                   !.state = IF call[c].hit /\ call[c].fp = replica[p] THEN "match" ELSE "differs",
                   !.fp = replica[p], !.from = {p}])
        BY <2>2
      <3> DEFINE r == [call[c] EXCEPT
                   !.state = IF call[c].hit /\ call[c].fp = replica[p] THEN "match" ELSE "differs",
                   !.fp = replica[p], !.from = {p}]
      <3>2. /\ r \in Call /\ r.state \in {"match", "differs"} /\ r.fp = replica[p]
            /\ r.payload = call[c].payload /\ r.age = call[c].age
            /\ r.from = {p} /\ r.mixed = call[c].mixed
            /\ r.state = "match" => call[c].hit /\ call[c].fp = replica[p]
        BY <1>1, <1>2 DEF Call, States
      <3>3. SetCall(c, r)  BY <3>1
      <3> HIDE DEF r
      <3>4. call[c].state = "looked"  BY <1>3 DEF FetchFingerprint
      <3>5. r.state = "match" => r.mixed \/ age[r.payload] <= MaxLag
        <4> SUFFICES ASSUME r.state = "match", ~r.mixed  PROVE age[call[c].payload] <= MaxLag  BY <3>2
        <4>1. replica[p] <= call[c].payload  BY <1>1, <3>2, <3>4 DEF Sound
        <4>2. age[call[c].payload] <= age[replica[p]]  BY <1>2, <4>1 DEF Inv, AgesFall
        <4>3. age[replica[p]] <= MaxLag /\ age[replica[p]] \in Nat /\ age[call[c].payload] \in Nat  BY <1>2
        <4>4. QED  BY <4>2, <4>3, CacheAssumption
      <3>6. age[r.payload] \in Nat /\ r.age \in Nat /\ age[data.payload] \in Nat  BY <1>2, <3>2
      <3>7. Sound(r)
        <4>1. r.state = "differs" => \A q \in r.from : r.fp <= replica[q]
          <5>1. replica[p] \in Nat  BY <1>2
          <5>2. QED  BY <3>2, <5>1
        <4>2. r.state = "match" => r.mixed \/ age[r.payload] <= MaxLag + r.age
          BY <3>5, <3>6, CacheAssumption
        <4>3. r.state = "match" => age[r.payload] < Outdated + DataTTL + r.age
          BY <1>1, <3>2, <3>4 DEF Sound, Holds
        <4>4. QED  BY <3>2, <4>1, <4>2, <4>3 DEF Sound, Holds
      <3>8. ASSUME OneRedis, ~lost  PROVE InTime(r)
        <4>1. r.state = "match" /\ data.left > 0 /\ ~data.mixed =>
                \/ data.payload = r.payload /\ ~r.mixed
                \/ age[data.payload] <= Outdated + r.age
          BY <1>1, <3>2, <3>4, <3>8 DEF InTime
        <4>2. r.state = "match" /\ data.left > 0 /\ ~data.mixed => age[data.payload] <= Outdated + r.age
          BY <3>5, <3>6, <4>1, Bounds, CacheAssumption
        <4>3. QED  BY <3>2, <4>2 DEF InTime
      <3>9. QED  BY <2>1, <3>2, <3>3, <3>7, <3>8, CallMovesOn
    <2>3. CASE Goto(c, "bypass")
      <3> DEFINE r == [call[c] EXCEPT !.state = "bypass"]
      <3>1. r \in Call /\ r.state = "bypass"  BY <1>1 DEF Call, States
      <3>2. SetCall(c, r)  BY <2>3 DEF Goto
      <3> HIDE DEF r
      <3>3. Sound(r) /\ InTime(r)  BY <3>1 DEF Sound, Holds, InTime
      <3>4. QED  BY <2>1, <3>1, <3>2, <3>3, CallMovesOn
    <2>4. QED  BY <1>3, <2>2, <2>3 DEF FetchFingerprint
  <1>4. CASE Bypass(c)
    <2>0. PICK p \in Replicas : Return(c, replica[p], FALSE)  BY <1>4 DEF Bypass
    <2> DEFINE r == [Idle EXCEPT !.payload = replica[p], !.mixed = FALSE]
    <2>1. r \in Call /\ r.state = "done"  BY <1>2, IdleType DEF Call, Idle
    <2>2. SetCall(c, r) /\ UNCHANGED <<database, redis, lost>>  BY <1>4, <2>0 DEF Bypass, Return
    <2> HIDE DEF r
    <2>3. Sound(r) /\ InTime(r)  BY <2>1 DEF Sound, Holds, InTime
    <2>4. QED  BY <2>1, <2>2, <2>3, CallMovesOn
  <1>5. CASE FetchData(c)
    <2>1. PICK p \in Replicas :
            SetCall(c, [call[c] EXCEPT !.state = "fetched", !.payload = replica[p],
                                       !.mixed = p \notin call[c].from])
      BY <1>5 DEF FetchData
    <2> DEFINE r == [call[c] EXCEPT !.state = "fetched", !.payload = replica[p],
                                    !.mixed = p \notin call[c].from]
    <2>2. (p \notin call[c].from) \in BOOLEAN  OBVIOUS
    <2>3. /\ r \in Call /\ r.state = "fetched" /\ r.payload = replica[p] /\ r.fp = call[c].fp
          /\ r.age = call[c].age
      BY <1>1, <1>2, <2>2 DEF Call, States
    <2>4. r.mixed = (p \notin call[c].from)  BY <1>1 DEF Call
    <2>5. SetCall(c, r) /\ UNCHANGED <<database, redis, lost>>  BY <1>5, <2>1 DEF FetchData
    <2> HIDE DEF r
    <2>6. p \in call[c].from => call[c].fp <= replica[p]  BY <1>1, <1>5 DEF FetchData, Sound
    <2>7. r.mixed \/ r.fp <= r.payload  BY <2>3, <2>4, <2>6
    <2>8. age[r.payload] <= MaxLag + r.age
      <3>1. age[replica[p]] \in Nat /\ age[replica[p]] <= MaxLag  BY <1>2
      <3>2. QED  BY <1>2, <2>3, <3>1, CacheAssumption
    <2>9. Sound(r)  BY <2>3, <2>7, <2>8 DEF Sound, Holds
    <2>10. InTime(r)  BY <2>3 DEF InTime
    <2>11. QED  BY <2>3, <2>5, <2>9, <2>10, CallMovesOn
  <1>6. QED  BY <1>3, <1>4, <1>5

\* Writing the marker: for MarkerTTL it vouches for what the data key holds now.
LEMMA WriteMarkerKeepsInv ==
  ASSUME Inv, NEW c \in Calls, WriteMarker(c)
  PROVE  Inv'
  <1>1. /\ call[c] \in Call /\ data \in Entry /\ marker \in 0..MarkerTTL
        /\ OneRedis /\ ~lost => InTime(call[c]) /\ MarkerInTime
    BY DEF Inv, TypeOK, Timely
  <1> DEFINE r == [Idle EXCEPT !.payload = call[c].payload, !.mixed = call[c].mixed]
  <1>2. r \in Call /\ r.state = "done"  BY <1>1, IdleType DEF Call, Idle
  <1>3. SetCall(c, r) /\ UNCHANGED <<database, data, lost>>  BY DEF WriteMarker, Return
  <1>4. marker' \in {MarkerTTL, marker}  BY DEF WriteMarker, Marker
  <1> HIDE DEF r
  <1>5. marker' \in 0..MarkerTTL  BY <1>1, <1>4, Bounds
  <1>6. ASSUME OneRedis, ~lost  PROVE MarkerInTime'
    <2>1. call[c].age \in 0..MaxCall /\ data.payload \in Versions  BY <1>1 DEF Call, Entry
    <2>2. age[data.payload] \in Nat  BY <2>1, AgeType
    <2>3. data.left > 0 /\ ~data.mixed => age[data.payload] <= Outdated + call[c].age
      BY <1>1, <1>6 DEF InTime, WriteMarker
    <2>4. data.left > 0 /\ ~data.mixed => age[data.payload] + MarkerTTL <= Outdated + MaxCall + MarkerTTL
      BY <2>1, <2>2, <2>3, Bounds, CacheAssumption
    <2>5. UNCHANGED <<age, data>>  BY <1>3 DEF database
    <2>6. QED  BY <1>1, <1>4, <1>6, <2>4, <2>5 DEF MarkerInTime
  <1>7. Sound(r) /\ InTime(r)  BY <1>2 DEF Sound, Holds, InTime
  <1>8. QED  BY <1>2, <1>3, <1>5, <1>6, <1>7, CallMoves

\* Data are stored as they were fetched; they were replaced at most Outdated ago.
LEMMA WriteDataKeepsInv ==
  ASSUME Inv, NEW c \in Calls, WriteData(c)
  PROVE  Inv'
  <1> DEFINE r == [call[c] EXCEPT !.state = "stored"]
             new == [fp |-> call[c].fp, payload |-> call[c].payload, left |-> DataTTL,
                     mixed |-> call[c].mixed]
  <1>1. call[c] \in Call /\ Sound(call[c]) /\ call[c].state = "fetched" /\ data \in Entry
    BY DEF WriteData, Inv, TypeOK, CallsSound
  <1>2. SetCall(c, r) /\ UNCHANGED <<db, age, replica, marker>>
    BY DEF WriteData, Goto, database
  <1>3. \/ data' = new /\ lost' = lost
        \/ lost' = TRUE /\ data' = data
    BY DEF WriteData
  <1>4. /\ r \in Call /\ r.state = "stored" /\ r.payload = call[c].payload /\ r.age = call[c].age
    BY <1>1 DEF Call, States
  <1>5. /\ call[c].mixed \/ call[c].fp <= call[c].payload
        /\ age[call[c].payload] <= MaxLag + call[c].age
    BY <1>1 DEF Sound
  <1>6. /\ call[c].age \in 0..MaxCall /\ call[c].payload \in Versions /\ call[c].fp \in Versions
        /\ age[call[c].payload] \in Nat
    BY <1>1, AgeType DEF Call
  <1>7. /\ new \in Entry /\ (new.mixed \/ new.fp <= new.payload)
        /\ new.payload = call[c].payload /\ new.left = DataTTL
    BY <1>1, <1>5, <1>6, Bounds DEF Entry, Call
  <1> HIDE DEF r, new
  <1>8. data' \in Entry /\ DataNotOlder'  BY <1>1, <1>3, <1>7 DEF Inv, DataNotOlder
  <1>9. lost' \in BOOLEAN  BY <1>3 DEF Inv, TypeOK
  <1>10. /\ call' \in [Calls -> Call]
         /\ \A d \in Calls : call'[d] = IF d = c THEN r ELSE call[d]
    BY <1>2, <1>4 DEF SetCall, Inv, TypeOK
  <1>11. TypeOK'  BY <1>2, <1>8, <1>9, <1>10 DEF Inv, TypeOK
  <1>12. (AgesFall /\ ReplicasLag)'  BY <1>2 DEF Inv, AgesFall, ReplicasLag
  <1>13. CallsSound'
    <2>1. Sound(r)  BY <1>4, <1>5 DEF Sound, Holds
    <2>2. ASSUME NEW d \in Calls  PROVE Sound(call[d])'
      <3>1. Sound(call'[d])  BY <1>10, <2>1 DEF Inv, CallsSound
      <3>2. QED  BY <1>2, <3>1 DEF Sound, Holds
    <2>3. QED  BY <2>2 DEF CallsSound
  <1>14. age[call[c].payload] <= Outdated  BY <1>5, <1>6, Bounds, CacheAssumption
  <1>15. DataInTime'
    <2>1. CASE data' = new  BY <1>2, <1>6, <1>7, <1>14, <2>1, Bounds, CacheAssumption DEF DataInTime
    <2>2. CASE data' = data  BY <1>2, <2>2 DEF Inv, DataInTime
    <2>3. QED  BY <1>3, <2>1, <2>2
  <1>16. ASSUME OneRedis, ~lost'  PROVE MarkerInTime' /\ \A d \in Calls : InTime(call[d])'
    <2>1. data' = new /\ ~lost  BY <1>3, <1>16
    <2>2. data'.payload = call[c].payload /\ age' = age /\ marker' = marker  BY <1>2, <1>7, <2>1
    <2>3. age'[data'.payload] \in Nat /\ age'[data'.payload] <= Outdated
      BY <1>6, <1>14, <2>2
    <2>4. MarkerInTime'
      BY <2>2, <2>3, Bounds, CacheAssumption DEF MarkerInTime, Inv, TypeOK
    <2>5. ASSUME NEW d \in Calls  PROVE InTime(call[d])'
      <3>1. CASE d = c
        <4>1. call'[d] = r  BY <1>10, <3>1
        <4>2. age'[data'.payload] <= Outdated + r.age  BY <1>4, <1>6, <2>3, Bounds, CacheAssumption
        <4>3. QED  BY <1>4, <4>1, <4>2 DEF InTime
      <3>2. CASE d # c
        <4>1. call'[d] = call[d] /\ call[d].age \in Nat
          BY <1>10, <3>2, CacheAssumption DEF Inv, TypeOK, Call
        <4>2. InTime(call[d])  BY <1>16, <2>1 DEF Inv, Timely
        <4>3. /\ age'[data'.payload] <= Outdated + call[d].age
              /\ age'[data'.payload] < Outdated + MaxCall + MarkerTTL + call[d].age
          BY <2>3, <4>1, Bounds, CacheAssumption
        <4>4. QED  BY <2>2, <4>1, <4>2, <4>3 DEF InTime
      <3>3. QED  BY <3>1, <3>2
    <2>6. QED  BY <2>4, <2>5
  <1>17. Timely'  BY <1>16 DEF Timely
  <1>18. QED  BY <1>8, <1>11, <1>12, <1>13, <1>15, <1>17 DEF Inv

\* No step breaks the invariant.
LEMMA StepKeepsInv == Inv /\ [Next]_vars => Inv'
  <1> SUFFICES ASSUME Inv, [Next]_vars  PROVE Inv'  OBVIOUS
  <1>1. CASE Change  BY <1>1, ChangeKeepsInv
  <1>2. CASE Tick  BY <1>2, TickKeepsInv
  <1>3. ASSUME NEW r \in Replicas, Replicate(r)  PROVE Inv'  BY <1>3, ReplicateKeepsInv
  <1>4. ASSUME NEW c \in Calls, CallStep(c)  PROVE Inv'
    BY <1>4, LookingKeepsInv, FetchingKeepsInv, WriteMarkerKeepsInv, WriteDataKeepsInv DEF CallStep
  <1>5. CASE UNCHANGED vars
    BY <1>5 DEF vars, database, redis, Inv, TypeOK, DataNotOlder, AgesFall, ReplicasLag,
                CallsSound, Sound, Holds, DataInTime, Timely, MarkerInTime, InTime
  <1>6. QED  BY <1>1, <1>2, <1>3, <1>4, <1>5 DEF Next

\* Every reachable state satisfies it.
LEMMA AlwaysInv == Spec => []Inv
  BY InitInv, StepKeepsInv, PTL DEF Spec

\* Every variable of the cache keeps its type: ages and lifetimes stay within what
\* a call, a replica and a key may last.
THEOREM TypeCorrect == Spec => []TypeOK
  <1>1. Inv => TypeOK  BY DEF Inv
  <1>2. QED  BY <1>1, AlwaysInv, PTL

\* Cached data are never older than the fingerprint they are stored under if both were
\* read at one replica, for any number of calls and replicas and any lag.
THEOREM NeverOlder == Spec => []DataNotOlder
  <1>1. Inv => DataNotOlder  BY DEF Inv
  <1>2. QED  BY <1>1, AlwaysInv, PTL

\* What a call may return.
InBounds(v, m) ==
  /\ Replaced(v, DataBound)
  /\ OneRedis /\ ~lost /\ ~m => Replaced(v, MarkerBound)

\* A call that ends returns permissions that were not replaced too long ago.
LEMMA ReturnsRecent ==
  ASSUME Inv, Next, NEW c \in Calls, call[c].state # "done", call'[c].state = "done"
  PROVE  InBounds(call'[c].payload, call'[c].mixed)
  <1>1. /\ call[c] \in Call /\ Sound(call[c]) /\ (OneRedis /\ ~lost => InTime(call[c]))
        /\ call[c].age \in 0..MaxCall /\ call[c].payload \in Versions
        /\ call \in [Calls -> Call]
    BY DEF Inv, TypeOK, CallsSound, Timely, Call
  <1>2. age[call[c].payload] \in Nat  BY <1>1, AgeType
  <1>3. CASE Change \/ Tick \/ (\E r \in Replicas : Replicate(r))
    <2>1. call'[c].state = call[c].state  BY <1>1, <1>3 DEF Change, Tick, Replicate, Call
    <2>2. QED  BY <2>1
  <1>4. ASSUME NEW d \in Calls, CallStep(d)  PROVE InBounds(call'[c].payload, call'[c].mixed)
    <2>1. PICK r : SetCall(d, r)
      BY <1>4 DEF CallStep, Begin, ReadMarker, ReadData, ServeMarked, FetchFingerprint, Bypass,
                  FetchData, WriteData, WriteMarker, Goto, Return
    <2>2. d = c  BY <1>1, <2>1 DEF SetCall
    <2>3. \A v, m : Return(c, v, m) => call'[c].payload = v /\ call'[c].mixed = m
      BY <1>1 DEF Return, SetCall, Idle
    <2>4. CASE ServeMarked(c)
      <3>1. call'[c].payload = call[c].payload /\ call'[c].mixed = call[c].mixed
        BY <2>3, <2>4 DEF ServeMarked
      <3>2. call[c].state = "looked" /\ call[c].marked /\ call[c].hit  BY <2>4 DEF ServeMarked
      <3>3. age[call[c].payload] < Outdated + DataTTL + call[c].age  BY <1>1, <3>2 DEF Sound, Holds
      <3>4. OneRedis /\ ~lost /\ ~call[c].mixed =>
              age[call[c].payload] < Outdated + MaxCall + MarkerTTL + call[c].age
        BY <1>1, <3>2 DEF InTime
      <3>5. age[call[c].payload] < DataBound  BY <1>1, <1>2, <3>3, Bounds, CacheAssumption
      <3>6. OneRedis /\ ~lost /\ ~call[c].mixed => age[call[c].payload] < MarkerBound
        BY <1>1, <1>2, <3>4, Bounds, CacheAssumption
      <3>7. QED  BY <3>1, <3>5, <3>6 DEF InBounds, Replaced
    <2>5. CASE Bypass(c)
      <3>1. PICK p \in Replicas : Return(c, replica[p], FALSE)  BY <2>5 DEF Bypass
      <3>2. call'[c].payload = replica[p]  BY <2>3, <3>1
      <3>3. replica[p] \in Versions  BY CacheAssumption DEF Inv, TypeOK, Versions
      <3>4. age[replica[p]] \in Nat /\ age[replica[p]] <= MaxLag
        BY <3>3, AgeType DEF Inv, ReplicasLag
      <3>5. age[replica[p]] < DataBound /\ age[replica[p]] < MarkerBound
        BY <3>4, Bounds, CacheAssumption
      <3>6. QED  BY <3>2, <3>5 DEF InBounds, Replaced
    <2>6. CASE WriteMarker(c)
      <3>1. call'[c].payload = call[c].payload /\ call'[c].mixed = call[c].mixed
        BY <2>3, <2>6 DEF WriteMarker
      <3>2. call[c].state \in {"match", "stored"}  BY <2>6 DEF WriteMarker
      <3>3. CASE call[c].mixed /\ call[c].state = "match"
        <4>1. age[call[c].payload] < Outdated + DataTTL + call[c].age  BY <1>1, <3>3 DEF Sound, Holds
        <4>2. age[call[c].payload] < DataBound  BY <1>1, <1>2, <4>1, Bounds, CacheAssumption
        <4>3. QED  BY <3>1, <3>3, <4>2 DEF InBounds, Replaced
      <3>4. CASE ~(call[c].mixed /\ call[c].state = "match")
        <4>1. age[call[c].payload] <= MaxLag + call[c].age  BY <1>1, <3>2, <3>4 DEF Sound
        <4>2. age[call[c].payload] < DataBound /\ age[call[c].payload] < MarkerBound
          BY <1>1, <1>2, <4>1, Bounds, CacheAssumption
        <4>3. QED  BY <3>1, <4>2 DEF InBounds, Replaced
      <3>5. QED  BY <3>3, <3>4
    <2>7. CASE Begin(c) \/ ReadMarker(c) \/ ReadData(c) \/ FetchFingerprint(c) \/ FetchData(c) \/ WriteData(c)
      <3>1. CASE Begin(c)  BY <3>1 DEF Begin
      <3>2. CASE ReadMarker(c)
        <4>1. PICK found : SetCall(c, [call[c] EXCEPT !.state = IF @ = "reading" THEN "data?" ELSE "looked", !.marked = found])
          BY <3>2 DEF ReadMarker
        <4>2. call'[c].state \in {"data?", "looked"}  BY <1>1, <4>1 DEF SetCall, Call
        <4>3. QED  BY <4>2
      <3>3. CASE ReadData(c)
        <4>1. PICK found : SetCall(c, [call[c] EXCEPT !.state = IF @ = "reading" THEN "marker?" ELSE "looked",
                                       !.hit = found,
                                       !.fp = IF found THEN data.fp ELSE 0,
                                       !.payload = IF found THEN data.payload ELSE 0,
                                       !.mixed = found /\ data.mixed])
          BY <3>3 DEF ReadData
        <4>2. call'[c].state \in {"marker?", "looked"}  BY <1>1, <4>1 DEF SetCall, Call
        <4>3. QED  BY <4>2
      <3>4. CASE FetchFingerprint(c)
        <4>1. call'[c].state \in {"match", "differs", "bypass"}
          BY <1>1, <3>4 DEF FetchFingerprint, Goto, SetCall, Call
        <4>2. QED  BY <4>1
      <3>5. CASE FetchData(c)
        <4>1. call'[c].state = "fetched"  BY <1>1, <3>5 DEF FetchData, SetCall, Call
        <4>2. QED  BY <4>1
      <3>6. CASE WriteData(c)
        <4>1. call'[c].state = "stored"  BY <1>1, <3>6 DEF WriteData, Goto, SetCall, Call
        <4>2. QED  BY <4>1
      <3>7. QED  BY <2>7, <3>1, <3>2, <3>3, <3>4, <3>5, <3>6
    <2>8. QED  BY <1>4, <2>2, <2>4, <2>5, <2>6, <2>7 DEF CallStep
  <1>5. QED  BY <1>3, <1>4 DEF Next

\* No call returns permissions that were replaced longer ago than DataBound, and none,
\* with one server of Redis, data and fingerprint of one replica and no lost write,
\* longer ago than MarkerBound: for any number of calls, replicas and changes, and
\* whatever the lag, the time of a call and the lifetimes are.
THEOREM StalenessBounded == Spec => StaleBounded
  <1>1. Inv /\ [Next]_vars =>
          [\A c \in Calls : call[c].state # "done" /\ call'[c].state = "done" =>
             /\ Replaced(call'[c].payload, DataBound)
             /\ OneRedis /\ ~lost /\ ~call'[c].mixed => Replaced(call'[c].payload, MarkerBound)]_vars
    BY ReturnsRecent DEF InBounds
  <1>2. QED  BY <1>1, AlwaysInv, PTL DEF Spec, StaleBounded
=============================================================================
