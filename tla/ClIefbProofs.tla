---------------------------- MODULE ClIefbProofs ----------------------------
(***************************************************************************)
(* The search of cl_iefb_analyze_slave_ids() for a slave in the list of    *)
(* slave ids, for every list and every id: what the C loop computes        *)
(* station by station is what the definitions of ClIefb say of the whole   *)
(* list.  The loop is a recursive function, so its values are reached by   *)
(* induction, here over sets of numbers: a set that holds 0, and with      *)
(* every number up to a bound the next one, holds all of them.             *)
(***************************************************************************)
EXTENDS ClIefb, Integers, FiniteSetTheorems, WellFoundedInduction, TLAPS

LessThan == {p \in Nat \X Nat : p[1] < p[2]}

LEMMA LessThanIsWellFounded == IsWellFoundedOn(LessThan, Nat)
  BY NatLessThanWellFounded DEF OpToRel, LessThan

LEMMA LeastNumber ==
    ASSUME NEW T, T \subseteq Nat, T # {}
    PROVE  \E x \in T : \A y \in T : x <= y
  <1>1. PICK x \in T : \A y \in T : ~ (<<y, x>> \in LessThan)
    BY LessThanIsWellFounded, WFMin
  <1>2. \A y \in T : <<y, x>> \in LessThan <=> y < x
    BY DEF LessThan
  <1>3. \A y \in T : ~(y < x)
    BY <1>1, <1>2
  <1>4. \A y \in T : x \in Nat /\ y \in Nat
    BY <1>1
  <1>5. \A y \in T : x <= y
    BY <1>3, <1>4
  <1> QED BY <1>5

LEMMA SetInduction ==
    ASSUME NEW S, NEW N \in Nat, 0 \in S,
           \A n \in 1 .. N : n - 1 \in S => n \in S
    PROVE  0 .. N \subseteq S
  <1> SUFFICES ASSUME (0 .. N) \ S # {} PROVE FALSE
    OBVIOUS
  <1> DEFINE T == (0 .. N) \ S
  <1>1. T \subseteq Nat /\ T # {}
    OBVIOUS
  <1>2. PICK x \in T : \A y \in T : x <= y
    <2> HIDE DEF T
    <2> QED BY <1>1, LeastNumber
  <1>3. x # 0 /\ x \in 1 .. N
    BY <1>2
  <1>4. x - 1 \in S
    <2>1. x - 1 \in 0 .. N /\ ~(x <= x - 1)
      BY <1>3
    <2> QED BY <1>2, <2>1
  <1> QED BY <1>2, <1>3, <1>4

-----------------------------------------------------------------------------
(* One round of the loop, and the equation that defines all of them.       *)
WalkStep(before, id, req, station) ==
    IF before.failed THEN before
    ELSE AnalyzeSlot(before, id, req.slave_ids[station], station)

IsWalk(walk, id, req, n) ==
    walk = [station \in 0 .. n |->
                IF station = 0 THEN NotFound
                ELSE WalkStep(walk[station - 1], id, req, station)]

(* The loop ends for every list: the recursive definition has a value.     *)
LEMMA WalkExists ==
    ASSUME NEW id, NEW req, NEW N \in Nat
    PROVE  \E walk : IsWalk(walk, id, req, N)
  <1> DEFINE S == {n \in Nat : \E walk : IsWalk(walk, id, req, n)}
  <1>1. 0 \in S
    <2> DEFINE w == [station \in 0 .. 0 |-> NotFound]
    <2>1. IsWalk(w, id, req, 0)
      BY DEF IsWalk
    <2> QED BY <2>1
  <1>2. ASSUME NEW n \in 1 .. N, n - 1 \in S
        PROVE  n \in S
    <2>1. PICK w : IsWalk(w, id, req, n - 1)
      BY <1>2
    <2> DEFINE last == WalkStep(w[n - 1], id, req, n)
               v == [station \in 0 .. n |-> IF station = n THEN last ELSE w[station]]
    <2>2. ASSUME NEW s \in 0 .. n
          PROVE  v[s] = IF s = 0 THEN NotFound
                        ELSE WalkStep(v[s - 1], id, req, s)
      <3>1. CASE s = n
        <4>1. s # 0 /\ n - 1 \in 0 .. n /\ n - 1 # n
          BY <3>1
        <4>2. v[s] = last /\ v[s - 1] = w[n - 1]
          BY <3>1, <4>1
        <4> QED BY <3>1, <4>1, <4>2
      <3>2. CASE s # n
        <4>1. s \in 0 .. n - 1
          BY <3>2
        <4>2. w[s] = IF s = 0 THEN NotFound ELSE WalkStep(w[s - 1], id, req, s)
          BY <2>1, <4>1 DEF IsWalk
        <4>3. v[s] = w[s]
          BY <3>2
        <4>4. s # 0 => v[s - 1] = w[s - 1]
          BY <4>1
        <4> QED BY <4>2, <4>3, <4>4
      <3> QED BY <3>1, <3>2
    <2>3. v = [station \in 0 .. n |->
                 IF station = 0 THEN NotFound
                 ELSE WalkStep(v[station - 1], id, req, station)]
      <3>1. v = [station \in 0 .. n |-> v[station]]
        OBVIOUS
      <3> HIDE DEF v
      <3> QED BY <2>2, <3>1
    <2>4. IsWalk(v, id, req, n)
      BY <2>3 DEF IsWalk
    <2> QED BY <2>4
  <1> HIDE DEF S
  <1>3. 0 .. N \subseteq S
    BY <1>1, <1>2, SetInduction
  <1> QED BY <1>3 DEF S

(***************************************************************************)
(* What the loop knows after so many stations: it has failed if the id     *)
(* was there twice; otherwise, if the id was there, the station is its     *)
(* place, the count is a run of marks behind it, and the run is over or    *)
(* reaches the present station.                                            *)
(***************************************************************************)
SeenIn(id, req, s) == {station \in 1 .. s : req.slave_ids[station] = id}

Knows(found, id, req, s) ==
    LET seen == SeenIn(id, req, s)
    IN  /\ found.failed \in BOOLEAN
        /\ found.failed <=> \E i, j \in seen : i # j
        /\ ~found.failed /\ seen = {} => found = NotFound
        /\ ~found.failed /\ seen # {} =>
                /\ seen = {found.station}
                /\ found = [station |-> found.station, count |-> found.count,
                            look |-> found.look, failed |-> FALSE]
                /\ found.station \in 1 .. s
                /\ found.look \in BOOLEAN
                /\ found.count \in Nat \ {0}
                /\ found.station + found.count - 1 <= s
                /\ \A i \in found.station + 1 .. found.station + found.count - 1 :
                        req.slave_ids[i] = Multistation
                /\ found.look => found.station + found.count - 1 = s
                /\ ~found.look => /\ found.station + found.count <= s
                                  /\ req.slave_ids[found.station + found.count]
                                        # Multistation

(* The id at the station first and the run of marks behind it.             *)
Run(ids, first, total) ==
    {last \in first .. total : \A i \in first + 1 .. last : ids[i] = Multistation}

LEMMA RunIsInterval ==
    ASSUME NEW ids, NEW first \in Nat, NEW total \in Nat, NEW count \in Nat \ {0},
           first + count - 1 <= total,
           \A i \in first + 1 .. first + count - 1 : ids[i] = Multistation,
           first + count <= total => ids[first + count] # Multistation
    PROVE  Cardinality(Run(ids, first, total)) = count
  <1> DEFINE run == {last \in first .. total :
                        \A i \in first + 1 .. last : ids[i] = Multistation}
  <1>1. run = first .. first + count - 1
    <2>1. ASSUME NEW last \in run, last > first + count - 1
          PROVE  FALSE
      <3>1. first + count \in first + 1 .. last /\ first + count <= total
        BY <2>1
      <3> QED BY <2>1, <3>1
    <2>2. ASSUME NEW last \in first .. first + count - 1
          PROVE  last \in run
      <3>1. \A i \in first + 1 .. last : i \in first + 1 .. first + count - 1
        OBVIOUS
      <3>2. last \in first .. total
        OBVIOUS
      <3> QED BY <3>1, <3>2
    <2>3. ASSUME NEW last \in run
          PROVE  last \in first .. first + count - 1
      <3>1. last \in first .. total
        OBVIOUS
      <3> QED BY <2>1, <3>1
    <2> HIDE DEF run
    <2> QED BY <2>2, <2>3
  <1>2. Cardinality(first .. first + count - 1) = count
    <2>1. /\ first \in Int /\ first + count - 1 \in Int
          /\ ~(first > first + count - 1)
          /\ (first + count - 1) - first + 1 = count
      OBVIOUS
    <2> QED BY <2>1, FS_Interval
  <1>3. Run(ids, first, total) = run
    BY DEF Run
  <1> HIDE DEF run
  <1> QED BY <1>1, <1>2, <1>3

LEMMA SeenOneMore ==
    ASSUME NEW id, NEW req, NEW s \in Nat \ {0}
    PROVE  SeenIn(id, req, s) =
                IF req.slave_ids[s] = id THEN SeenIn(id, req, s - 1) \cup {s}
                ELSE SeenIn(id, req, s - 1)
  BY DEF SeenIn

(* One slot behind the id: the id again, a mark, or anything else.         *)
LEMMA SlotsBehindTheId ==
    ASSUME NEW id, NEW slot, NEW s, NEW st \in Nat \ {0}, NEW n \in Nat,
           NEW look \in BOOLEAN, NEW b,
           b = [station |-> st, count |-> n, look |-> look, failed |-> FALSE]
    PROVE  /\ slot = id => AnalyzeSlot(b, id, slot, s) =
                [station |-> 0, count |-> 0, look |-> FALSE, failed |-> TRUE]
           /\ slot # id /\ look /\ slot = Multistation =>
                AnalyzeSlot(b, id, slot, s) =
                [station |-> st, count |-> n + 1, look |-> TRUE, failed |-> FALSE]
           /\ slot # id /\ look /\ slot # Multistation =>
                AnalyzeSlot(b, id, slot, s) =
                [station |-> st, count |-> n, look |-> FALSE, failed |-> FALSE]
           /\ slot # id /\ ~look => AnalyzeSlot(b, id, slot, s) = b
  <1>0. b.station = st /\ b.station # 0 /\ b.count = n /\ b.look = look
    OBVIOUS
  <1>1. ASSUME slot = id
        PROVE  AnalyzeSlot(b, id, slot, s) = [NotFound EXCEPT !.failed = TRUE]
    BY <1>0, <1>1 DEF AnalyzeSlot
  <1>2. ASSUME slot # id, look, slot = Multistation
        PROVE  AnalyzeSlot(b, id, slot, s) = [b EXCEPT !.count = @ + 1]
    BY <1>0, <1>2 DEF AnalyzeSlot
  <1>3. ASSUME slot # id, look, slot # Multistation
        PROVE  AnalyzeSlot(b, id, slot, s) = [b EXCEPT !.look = FALSE]
    BY <1>0, <1>3 DEF AnalyzeSlot
  <1>4. ASSUME slot # id, ~look
        PROVE  AnalyzeSlot(b, id, slot, s) = b
    BY <1>0, <1>4 DEF AnalyzeSlot
  <1> QED BY <1>1, <1>2, <1>3, <1>4 DEF NotFound

LEMMA WalkStepKnows ==
    ASSUME NEW id, NEW req, NEW s \in Nat \ {0}, NEW before,
           Knows(before, id, req, s - 1)
    PROVE  Knows(WalkStep(before, id, req, s), id, req, s)
  <1> DEFINE seen == SeenIn(id, req, s - 1)
             now == SeenIn(id, req, s)
             slot == req.slave_ids[s]
             found == WalkStep(before, id, req, s)
  <1>1. seen \subseteq 1 .. s - 1 /\ s \notin seen
    BY DEF SeenIn
  <1>2. now = IF slot = id THEN seen \cup {s} ELSE seen
    BY SeenOneMore
  <1>3. CASE before.failed
    <2>1. \E i, j \in now : i # j
      BY <1>2, <1>3 DEF Knows
    <2>2. found = before
      BY <1>3 DEF WalkStep
    <2> QED BY <1>3, <2>1, <2>2 DEF Knows
  <1>4. CASE ~before.failed /\ seen = {}
    <2>1. before = NotFound
      BY <1>4 DEF Knows
    <2>2. CASE slot = id
      <3>1. found = [station |-> s, count |-> 1, look |-> TRUE, failed |-> FALSE]
        BY <1>4, <2>1, <2>2 DEF WalkStep, AnalyzeSlot, NotFound
      <3>2. now = {s}
        BY <1>2, <1>4, <2>2
      <3> HIDE DEF found, now
      <3>9. Knows(found, id, req, s)
        BY <3>1, <3>2 DEF Knows, now
      <3> QED BY <3>9 DEF found
    <2>3. CASE slot # id
      <3>1. found = NotFound
        BY <1>4, <2>1, <2>3 DEF WalkStep, AnalyzeSlot, NotFound
      <3>2. now = {}
        BY <1>2, <1>4, <2>3
      <3> HIDE DEF found, now
      <3>9. Knows(found, id, req, s)
        BY <3>1, <3>2 DEF Knows, now, NotFound
      <3> QED BY <3>9 DEF found
    <2> QED BY <2>2, <2>3
  <1>5. CASE ~before.failed /\ seen # {}
    <2> DEFINE st == before.station
               n == before.count
    <2>1. /\ seen = {st}
          /\ before = [station |-> st, count |-> n, look |-> before.look,
                       failed |-> FALSE]
          /\ st \in 1 .. s - 1
          /\ before.look \in BOOLEAN
          /\ n \in Nat \ {0}
          /\ st + n - 1 <= s - 1
          /\ \A i \in st + 1 .. st + n - 1 : req.slave_ids[i] = Multistation
          /\ before.look => st + n - 1 = s - 1
          /\ ~before.look => /\ st + n <= s - 1
                             /\ req.slave_ids[st + n] # Multistation
      BY <1>5 DEF Knows
    <2>2. st \in Nat \ {0} /\ n \in Nat
      BY <2>1
    <2>3. found = AnalyzeSlot(before, id, slot, s)
      BY <1>5 DEF WalkStep
    <2>4. /\ slot = id => AnalyzeSlot(before, id, slot, s) =
                [station |-> 0, count |-> 0, look |-> FALSE, failed |-> TRUE]
          /\ slot # id /\ before.look /\ slot = Multistation =>
                AnalyzeSlot(before, id, slot, s) =
                [station |-> st, count |-> n + 1, look |-> TRUE, failed |-> FALSE]
          /\ slot # id /\ before.look /\ slot # Multistation =>
                AnalyzeSlot(before, id, slot, s) =
                [station |-> st, count |-> n, look |-> FALSE, failed |-> FALSE]
          /\ slot # id /\ ~before.look => AnalyzeSlot(before, id, slot, s) = before
      <3> HIDE DEF st, n, slot
      <3> QED BY <2>1, <2>2, SlotsBehindTheId
    <2>5. CASE slot = id
      <3>1. found = [station |-> 0, count |-> 0, look |-> FALSE, failed |-> TRUE]
        BY <2>5, <2>3, <2>4
      <3>2. now = {st, s} /\ st # s
        BY <1>1, <1>2, <2>1, <2>5
      <3>3. \E i, j \in now : i # j
        BY <3>2
      <3> HIDE DEF found, now
      <3>9. Knows(found, id, req, s)
        BY <3>1, <3>3 DEF Knows, now
      <3> QED BY <3>9 DEF found
    <2>6. CASE slot # id /\ before.look /\ slot = Multistation
      <3>1. found = [station |-> st, count |-> n + 1, look |-> TRUE,
                     failed |-> FALSE]
        BY <2>6, <2>3, <2>4
      <3>2. now = {st}
        BY <1>2, <2>1, <2>6
      <3>3. st + n = s
        BY <2>1, <2>6
      <3>4. \A i \in st + 1 .. st + (n + 1) - 1 : req.slave_ids[i] = Multistation
        BY <2>1, <2>6, <3>3
      <3>5. n + 1 \in Nat \ {0} /\ st + (n + 1) - 1 = s /\ st \in 1 .. s
        BY <2>1, <3>3
      <3> HIDE DEF found, now, st, n
      <3>9. Knows(found, id, req, s)
        BY <3>1, <3>2, <3>4, <3>5 DEF Knows, now
      <3> QED BY <3>9 DEF found
    <2>7. CASE slot # id /\ before.look /\ slot # Multistation
      <3>1. found = [station |-> st, count |-> n, look |-> FALSE, failed |-> FALSE]
        BY <2>7, <2>3, <2>4
      <3>2. now = {st}
        BY <1>2, <2>1, <2>7
      <3>3. st + n = s
        BY <2>1, <2>7
      <3>4. st + n - 1 <= s /\ st + n <= s /\ st \in 1 .. s
            /\ req.slave_ids[st + n] # Multistation
        BY <2>1, <2>7, <3>3
      <3> HIDE DEF found, now, st, n
      <3>9. Knows(found, id, req, s)
        BY <2>1, <3>1, <3>2, <3>4 DEF Knows, now
      <3> QED BY <3>9 DEF found
    <2>8. CASE slot # id /\ ~before.look
      <3>1. found = before
        BY <2>8, <2>3, <2>4
      <3>2. now = {st}
        BY <1>2, <2>1, <2>8
      <3>3. st + n - 1 <= s /\ st + n <= s /\ st \in 1 .. s
        BY <2>1, <2>8
      <3> HIDE DEF found, now, st, n
      <3>4. Knows(before, id, req, s)
        BY <1>5, <2>1, <2>8, <3>2, <3>3 DEF Knows, now, st, n
      <3> QED BY <3>1, <3>4 DEF found
    <2> QED BY <2>1, <2>5, <2>6, <2>7, <2>8
  <1>6. before.failed \in BOOLEAN
    BY DEF Knows
  <1> QED BY <1>3, <1>4, <1>5, <1>6

LEMMA WalkKnows ==
    ASSUME NEW id, NEW req, NEW N \in Nat, NEW walk, IsWalk(walk, id, req, N)
    PROVE  Knows(walk[N], id, req, N)
  <1> DEFINE S == {n \in Nat : n <= N => Knows(walk[n], id, req, n)}
  <1>1. 0 \in S
    <2>1. walk[0] = NotFound
      BY DEF IsWalk
    <2>2. Knows(NotFound, id, req, 0)
      BY DEF Knows, NotFound, SeenIn
    <2> QED BY <2>1, <2>2
  <1>2. ASSUME NEW n \in 1 .. N, n - 1 \in S
        PROVE  n \in S
    <2>1. walk[n] = WalkStep(walk[n - 1], id, req, n)
      BY DEF IsWalk
    <2>2. Knows(walk[n - 1], id, req, n - 1)
      BY <1>2
    <2>3. Knows(walk[n], id, req, n)
      BY <2>1, <2>2, WalkStepKnows
    <2> QED BY <2>3
  <1> HIDE DEF S
  <1>3. 0 .. N \subseteq S
    BY <1>1, <1>2, SetInduction
  <1> QED BY <1>3 DEF S

(***************************************************************************)
(* cl_iefb_analyze_slave_ids() for every list of slave ids and every id:   *)
(* it fails exactly when the id is repeated; otherwise the station is 0    *)
(* exactly when the id is not in the list, and is the id's only place      *)
(* otherwise, with the count of the marks that follow without a gap.       *)
(***************************************************************************)
THEOREM AnalysisIsTheReference ==
    ASSUME NEW id, NEW req, Len(req.slave_ids) \in Nat
    PROVE  LET found == cl_iefb_analyze_slave_ids(id, req)
           IN  /\ found.failed \in BOOLEAN
               /\ found.failed <=> IsSlaveIdRepeated(id, req)
               /\ ~found.failed =>
                    /\ found.station \in 0 .. total_occupied(req)
                    /\ found.station # 0 <=> IsSlaveIdFound(id, req)
               /\ ~found.failed /\ found.station # 0 =>
                    /\ StationsOf(id, req) = {found.station}
                    /\ found.station = my_slave_station_no(id, req)
                    /\ found.count = implied_occupation_count(id, req)
  <1> DEFINE N == total_occupied(req)
             found == cl_iefb_analyze_slave_ids(id, req)
             walk == CHOOSE w : IsWalk(w, id, req, N)
  <1>1. N \in Nat
    BY DEF total_occupied
  <1>2. IsWalk(walk, id, req, N)
    <2>1. \E w : IsWalk(w, id, req, N)
      BY <1>1, WalkExists
    <2> QED BY <2>1
  <1>3. found = walk[N]
    BY DEF cl_iefb_analyze_slave_ids, IsWalk, WalkStep
  <1>4. Knows(found, id, req, N)
    <2> HIDE DEF walk, found, N
    <2> QED BY <1>1, <1>2, <1>3, WalkKnows
  <1>5. SeenIn(id, req, N) = StationsOf(id, req)
    BY DEF SeenIn, StationsOf
  <1> HIDE DEF walk, found
  <1>6. found.failed \in BOOLEAN /\ (found.failed <=> IsSlaveIdRepeated(id, req))
    BY <1>4, <1>5 DEF Knows, IsSlaveIdRepeated
  <1>7. ASSUME ~found.failed, ~IsSlaveIdFound(id, req)
        PROVE  found.station = 0
    BY <1>4, <1>5, <1>7 DEF Knows, IsSlaveIdFound, NotFound
  <1>8. ASSUME ~found.failed, IsSlaveIdFound(id, req)
        PROVE  /\ found.station \in 1 .. N
               /\ StationsOf(id, req) = {found.station}
               /\ found.station = my_slave_station_no(id, req)
               /\ found.count = implied_occupation_count(id, req)
    <2> DEFINE first == found.station
               count == found.count
    <2>1. /\ StationsOf(id, req) = {first}
          /\ first \in 1 .. N
          /\ count \in Nat \ {0}
          /\ first + count - 1 <= N
          /\ \A i \in first + 1 .. first + count - 1 : req.slave_ids[i] = Multistation
          /\ first + count <= N => req.slave_ids[first + count] # Multistation
      BY <1>1, <1>4, <1>5, <1>8 DEF Knows, IsSlaveIdFound
    <2>2. first = my_slave_station_no(id, req)
      BY <2>1 DEF my_slave_station_no
    <2> HIDE DEF first, count
    <2>3. first \in Nat
      BY <2>1
    <2>4. Cardinality(Run(req.slave_ids, first, N)) = count
      <3> HIDE DEF N
      <3> QED BY <1>1, <2>1, <2>3, RunIsInterval
    <2>5. implied_occupation_count(id, req) = count
      BY <2>2, <2>4 DEF implied_occupation_count, Run
    <2> QED BY <2>1, <2>2, <2>5 DEF first, count
  <1>9. found.failed \in BOOLEAN /\ IsSlaveIdFound(id, req) \in BOOLEAN
    BY <1>6 DEF IsSlaveIdFound
  <1>10. 0 \notin 1 .. N /\ 1 .. N \subseteq 0 .. N /\ 0 \in 0 .. N
    BY <1>1
  <1> HIDE DEF N
  <1> QED BY <1>6, <1>7, <1>8, <1>9, <1>10 DEF found, N

-----------------------------------------------------------------------------
(***************************************************************************)
(* The stations of a group: each device has the ones behind those of the   *)
(* devices before it, as many as it occupies, and there are no others.     *)
(* The settings are those of the devices of one group.                     *)
(***************************************************************************)
PairsBefore(settings, i) ==
    {p \in (1 .. Len(settings)) \X (MinOccupied .. MaxOccupied) :
        p[1] < i /\ p[2] <= settings[p[1]].num_occupied_stations}

Before(settings, i) == Cardinality(PairsBefore(settings, i))

OccupiedBy(settings, i) == settings[i].num_occupied_stations

HasSettings(settings) ==
    /\ Len(settings) \in Nat
    /\ \A i \in 1 .. Len(settings) :
            OccupiedBy(settings, i) \in MinOccupied .. MaxOccupied

(* Device i occupies the station.                                          *)
Occupies(settings, i, station) ==
    /\ 1 + Before(settings, i) <= station
    /\ station < 1 + Before(settings, i) + OccupiedBy(settings, i)

LEMMA OccupiedRange ==
    ASSUME NEW settings, HasSettings(settings), NEW i \in 1 .. Len(settings)
    PROVE  OccupiedBy(settings, i) \in 1 .. 16 /\ OccupiedBy(settings, i) \in Nat
  <1>1. OccupiedBy(settings, i) \in 1 .. 16
    BY DEF HasSettings, MinOccupied, MaxOccupied
  <1> QED BY <1>1

LEMMA PairsAreFinite ==
    ASSUME NEW settings, HasSettings(settings), NEW i
    PROVE  /\ IsFiniteSet(PairsBefore(settings, i))
           /\ Before(settings, i) \in Nat
  <1>1. /\ IsFiniteSet(1 .. Len(settings))
        /\ IsFiniteSet(MinOccupied .. MaxOccupied)
    <2>1. /\ 1 \in Int /\ Len(settings) \in Int
          /\ MinOccupied \in Int /\ MaxOccupied \in Int
      BY DEF HasSettings, MinOccupied, MaxOccupied
    <2> QED BY <2>1, FS_Interval
  <1>2. IsFiniteSet((1 .. Len(settings)) \X (MinOccupied .. MaxOccupied))
    BY <1>1, FS_Product
  <1>3. PairsBefore(settings, i)
            \subseteq (1 .. Len(settings)) \X (MinOccupied .. MaxOccupied)
    BY DEF PairsBefore
  <1>4. IsFiniteSet(PairsBefore(settings, i))
    BY <1>2, <1>3, FS_Subset
  <1> QED BY <1>4, FS_CardinalityType DEF Before

LEMMA NoneBeforeTheFirst ==
    ASSUME NEW settings
    PROVE  Before(settings, 1) = 0
  <1>1. PairsBefore(settings, 1) = {}
    BY DEF PairsBefore
  <1> QED BY <1>1, FS_EmptySet DEF Before

LEMMA BeforeTheNext ==
    ASSUME NEW settings, HasSettings(settings), NEW i \in 1 .. Len(settings)
    PROVE  Before(settings, i + 1) = Before(settings, i) + OccupiedBy(settings, i)
  <1> DEFINE n == OccupiedBy(settings, i)
             own == {i} \X (1 .. n)
  <1>1. n \in 1 .. 16
    BY OccupiedRange
  <1>2. Len(settings) \in Nat
    BY DEF HasSettings
  <1>3. PairsBefore(settings, i + 1) = PairsBefore(settings, i) \cup own
    <2>1. ASSUME NEW p \in PairsBefore(settings, i + 1),
                 p \notin PairsBefore(settings, i)
          PROVE  p \in own
      <3>1. PICK a \in 1 .. Len(settings), b \in 1 .. 16 : p = <<a, b>>
        BY DEF PairsBefore, MinOccupied, MaxOccupied
      <3>2. a < i + 1 /\ ~(a < i) /\ b <= settings[a].num_occupied_stations
        BY <2>1, <3>1 DEF PairsBefore, MinOccupied, MaxOccupied
      <3>3. a = i
        BY <3>2
      <3>4. b \in 1 .. n
        BY <1>1, <3>2, <3>3 DEF OccupiedBy
      <3> QED BY <3>1, <3>3, <3>4
    <2>2. PairsBefore(settings, i) \subseteq PairsBefore(settings, i + 1)
      BY DEF PairsBefore
    <2>3. ASSUME NEW b \in 1 .. n
          PROVE  <<i, b>> \in PairsBefore(settings, i + 1)
      <3>1. b \in 1 .. 16 /\ b <= settings[i].num_occupied_stations
        <4>1. b \in 1 .. 16 /\ b <= n
          <5> HIDE DEF n
          <5> QED BY <1>1
        <4> QED BY <4>1 DEF OccupiedBy
      <3>2. b \in MinOccupied .. MaxOccupied /\ i < i + 1
        BY <1>2, <3>1 DEF MinOccupied, MaxOccupied
      <3> HIDE DEF n
      <3> DEFINE p == <<i, b>>
      <3>3. p \in (1 .. Len(settings)) \X (MinOccupied .. MaxOccupied)
            /\ p[1] = i /\ p[2] = b
        BY <3>2
      <3> HIDE DEF p
      <3>4. p \in PairsBefore(settings, i + 1)
        BY <3>1, <3>2, <3>3 DEF PairsBefore
      <3> QED BY <3>4 DEF p
    <2>4. \A p \in own : p[2] \in 1 .. n /\ p = <<i, p[2]>>
      OBVIOUS
    <2> HIDE DEF own, n
    <2> QED BY <2>1, <2>2, <2>3, <2>4
  <1>4. PairsBefore(settings, i) \cap own = {}
    BY DEF PairsBefore
  <1>5. IsFiniteSet(own) /\ Cardinality(own) = n
    <2>1. IsFiniteSet(1 .. n) /\ Cardinality(1 .. n) = n
      <3>1. 1 \in Int /\ n \in Int /\ ~(1 > n) /\ n - 1 + 1 = n
        BY <1>1
      <3> HIDE DEF n
      <3> QED BY <3>1, FS_Interval
    <2>2. IsFiniteSet({i}) /\ Cardinality({i}) = 1
      BY FS_Singleton
    <2>3. IsFiniteSet({i} \X (1 .. n))
            /\ Cardinality({i} \X (1 .. n)) = Cardinality({i}) * Cardinality(1 .. n)
      BY <2>1, <2>2, FS_Product
    <2> HIDE DEF n
    <2> QED BY <1>1, <2>1, <2>2, <2>3
  <1> HIDE DEF own, n
  <1>6. IsFiniteSet(PairsBefore(settings, i)) /\ Before(settings, i) \in Nat
    BY PairsAreFinite
  <1>7. Cardinality(PairsBefore(settings, i) \cup own)
            = Cardinality(PairsBefore(settings, i)) + Cardinality(own)
                - Cardinality(PairsBefore(settings, i) \cap own)
    BY <1>5, <1>6, FS_Union
  <1>8. Cardinality(PairsBefore(settings, i) \cap own) = 0
    BY <1>4, FS_EmptySet
  <1>9. Before(settings, i + 1) = Before(settings, i) + n - 0
    BY <1>3, <1>5, <1>7, <1>8 DEF Before
  <1> QED BY <1>1, <1>6, <1>9 DEF n

LEMMA BeforeIsMonotone ==
    ASSUME NEW settings, HasSettings(settings),
           NEW i \in Nat, NEW j \in Nat, i <= j
    PROVE  Before(settings, i) <= Before(settings, j)
  <1>1. PairsBefore(settings, i) \subseteq PairsBefore(settings, j)
    BY DEF PairsBefore, HasSettings
  <1> QED BY <1>1, PairsAreFinite, FS_Subset DEF Before

(* Devices lie one behind the other, and within the group.                 *)
LEMMA DevicesInOrder ==
    ASSUME NEW settings, HasSettings(settings),
           NEW i \in 1 .. Len(settings), NEW j \in 1 .. Len(settings) + 1, i < j
    PROVE  Before(settings, i) + OccupiedBy(settings, i) <= Before(settings, j)
  <1>1. Len(settings) \in Nat
    BY DEF HasSettings
  <1>2. i + 1 \in Nat /\ j \in Nat /\ i + 1 <= j
    BY <1>1
  <1> QED BY <1>2, BeforeTheNext, BeforeIsMonotone

(* No station has two devices.                                             *)
LEMMA StationHasOneDevice ==
    ASSUME NEW settings, HasSettings(settings), NEW station \in Nat,
           NEW i \in 1 .. Len(settings), NEW j \in 1 .. Len(settings),
           Occupies(settings, i, station), Occupies(settings, j, station)
    PROVE  i = j
  <1>1. Len(settings) \in Nat
    BY DEF HasSettings
  <1>2. ASSUME NEW a \in 1 .. Len(settings), NEW b \in 1 .. Len(settings), a < b,
               Occupies(settings, a, station), Occupies(settings, b, station)
        PROVE  FALSE
    <2>1. b \in 1 .. Len(settings) + 1
      BY <1>1
    <2>2. /\ Before(settings, a) + OccupiedBy(settings, a) <= Before(settings, b)
          /\ Before(settings, a) \in Nat /\ Before(settings, b) \in Nat
      BY <1>2, <2>1, DevicesInOrder, PairsAreFinite
    <2>3. OccupiedBy(settings, a) \in Nat
      BY OccupiedRange
    <2> QED BY <1>2, <2>2, <2>3 DEF Occupies
  <1> QED BY <1>1, <1>2

(* Every station of the group has a device.                                *)
LEMMA StationHasADevice ==
    ASSUME NEW settings, HasSettings(settings),
           NEW station \in 1 .. Before(settings, Len(settings) + 1)
    PROVE  \E i \in 1 .. Len(settings) : Occupies(settings, i, station)
  <1> DEFINE n == Len(settings)
             T == {j \in 1 .. n + 1 : station <= Before(settings, j)}
  <1>1. n \in Nat
    BY DEF HasSettings
  <1>2. \A j : Before(settings, j) \in Nat
    BY PairsAreFinite
  <1>3. n + 1 \in T /\ T \subseteq Nat
    <2>1. n + 1 \in 1 .. n + 1 /\ station <= Before(settings, n + 1)
      BY <1>1, <1>2
    <2>2. 1 .. n + 1 \subseteq Nat
      BY <1>1
    <2> QED BY <2>1, <2>2
  <1>4. PICK j \in T : \A k \in T : j <= k
    <2> HIDE DEF T
    <2> QED BY <1>3, LeastNumber
  <1>5. j \in 1 .. n + 1 /\ station <= Before(settings, j)
    BY <1>4
  <1>6. station \in Nat \ {0}
    BY <1>1, <1>2
  <1>7. j # 1
    BY <1>5, <1>6, NoneBeforeTheFirst
  <1> DEFINE i == j - 1
  <1>8. i \in 1 .. n /\ i + 1 = j
    BY <1>1, <1>5, <1>7
  <1>9. ~(station <= Before(settings, i))
    <2>1. i \notin T
      BY <1>1, <1>4, <1>5, <1>8
    <2> QED BY <1>1, <1>8, <2>1
  <1>10. Before(settings, j) = Before(settings, i) + OccupiedBy(settings, i)
    <2> HIDE DEF i, n
    <2> QED BY <1>8, BeforeTheNext DEF n
  <1>11. Before(settings, i) \in Nat /\ OccupiedBy(settings, i) \in Nat
    <2> HIDE DEF i
    <2> QED BY <1>2, <1>8, OccupiedRange
  <1> HIDE DEF i, n, T
  <1>12. Occupies(settings, i, station)
    BY <1>5, <1>6, <1>9, <1>10, <1>11 DEF Occupies
  <1> QED BY <1>8, <1>12 DEF n
=============================================================================
