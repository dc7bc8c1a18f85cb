------------------------- MODULE CronServiceProofs -------------------------
(***************************************************************************)
(* Whatever batches, runs by hand, edits, closes and exits do to one       *)
(* another: something wakes for the earliest due job, the file follows the *)
(* memory (CronInv), and no job is lost and no due time lost, moved or     *)
(* used twice (DuesAreKept).                                               *)
(*                                                                         *)
(* What the properties promise of the file must hold of the memory too, as *)
(* the next save makes it the file, and the other way about, as the next   *)
(* reload makes it the memory: Kept, Regular and Unused speak of any       *)
(* store, the empty one of a file that cannot be read included.  A due     *)
(* time that was used lies in the past (Past), so that a "cron" job, which  *)
(* computes its next time from the clock, cannot meet it again.  One timed *)
(* run at a time ends its batch (OneBatch).                                *)
(***************************************************************************)
EXTENDS CronService, FiniteSetTheorems, WellFoundedInduction, TLAPS

Stores == [Jobs -> Job \cup {Absent}]

\* What the store keeps of a job that is promised, and how an enabled job is on its grid.
Promised(j, e) == e # Absent /\ e.on /\ (e.kind \in OneShot => e.next = At[j])
OnGrid(j, e, phi) == e # Absent /\ e.on => e.next # None /\ Phase(j, e.kind, e.next) = phi

\* A store in which every acknowledged job is, and one in which each is on its grid.
Kept(m)    == \A j \in Jobs \ (fresh \cup over) : Promised(j, m[j])
Regular(m) == \A j \in Jobs \ over : OnGrid(j, m[j], anchor[j])

\* A store in which no due time has been used.
Later(m) == \A j \in Scheduled(m) : m[j].next > consumed[j]

\* A store without jobs that nobody has added.
Unused(m) == \A j \in Jobs : j \in fresh => m[j] = Absent

\* A batch has one run at a time.
OneBatch ==
  \A r \in runs : r.by = "timer" =>
    batch # NoBatch /\ \A q \in runs : q.by = "timer" => q = r

\* A process that has ended runs nothing, knows nothing and has used no due time.
Ended == phase = "down" => runs = {} /\ mem = Empty /\ \A j \in Jobs : consumed[j] = None

\* What has been used is in the past, and of jobs that were added.
Past == \A j \in Jobs : consumed[j] <= now /\ (j \in fresh => consumed[j] = None)

\* What the memory and the file are, when the next save, reload or start makes them
\* each other.
Memory ==
  /\ Unused(mem) /\ Regular(mem) /\ Later(mem)
  /\ phase # "down" => Kept(mem)
Disk == Unused(file) /\ Kept(file) /\ Regular(file)

IInv ==
  /\ TypeOK
  /\ OneBatch
  /\ Ended
  /\ Past
  /\ Memory
  /\ Disk
  /\ AlarmIsSet
  /\ FileFollows

-----------------------------------------------------------------------------
(* Arithmetic of schedules.                                                 *)

\* A set of natural numbers has a least one.
LEMMA LeastNumber ==
  ASSUME NEW I \in SUBSET Nat, I # {}
  PROVE  \E k \in I : \A j \in I : k <= j
<1> DEFINE Less == {p \in Nat \X Nat : p[1] < p[2]}
<1>1. IsWellFoundedOn(Less, Nat)
  BY NatLessThanWellFounded DEF OpToRel
<1>2. \A j, k \in Nat : <<j, k>> \in Less <=> j < k
  OBVIOUS
<1> HIDE DEF Less
<1>3. PICK k \in I : \A j \in I : <<j, k>> \notin Less
  <2>1. I \subseteq Nat
    OBVIOUS
  <2>2. \E k \in I : \A j \in I : ~(<<j, k>> \in Less)
    BY <1>1, <2>1, WFMin
  <2> QED BY <2>2
<1>4. ASSUME NEW j \in I PROVE k <= j
  <2>1. j \in Nat /\ k \in Nat /\ ~(<<j, k>> \in Less)
    BY <1>3
  <2> QED BY <1>2, <2>1
<1> QED BY <1>4

\* Products and multiples.
LEMMA Products ==
  ASSUME NEW a \in Nat, NEW p \in Nat \ {0}
  PROVE  a * p \in Nat /\ (a # 0 => a * p >= p)
<1>1. a * p \in Nat
  OBVIOUS
<1>2. ASSUME a >= 1 PROVE a * p >= p
  <2>1. PICK b \in Nat : a = b + 1
    BY <1>2
  <2>2. a * p = b * p + p
    BY <2>1
  <2>3. b * p >= 0
    OBVIOUS
  <2>4. b * p \in Nat /\ p \in Nat
    OBVIOUS
  <2> QED BY <2>2, <2>3, <2>4
<1> QED BY <1>1, <1>2

\* Division with a remainder.
LEMMA Division ==
  ASSUME NEW a \in Nat, NEW p \in Nat \ {0}
  PROVE  /\ a \div p \in Nat /\ a % p \in 0 .. p - 1
         /\ a = (a \div p) * p + (a % p)
OBVIOUS

\* A quotient and a remainder are unique.
LEMMA OneRemainder ==
  ASSUME NEW p \in Nat \ {0}, NEW q \in Nat, NEW r \in 0 .. p - 1,
         NEW s \in Nat, NEW t \in 0 .. p - 1, q * p + r = s * p + t
  PROVE  r = t
<1>1. ASSUME NEW x \in Nat, NEW y \in Nat, NEW v \in 0 .. p - 1, NEW w \in 0 .. p - 1,
             x > y, x * p + v = y * p + w
      PROVE  FALSE
  <2>1. PICK d \in Nat \ {0} : x = y + d
    <3>1. x - y \in Nat \ {0} /\ x = y + (x - y)
      BY <1>1
    <3> QED BY <3>1
  <2>2. x * p = y * p + d * p
    BY <2>1
  <2>3. d * p >= p /\ d * p \in Nat /\ y * p \in Nat
    BY Products
  <2> QED BY <1>1, <2>2, <2>3
<1>2. ~(q > s) /\ ~(s > q)
  BY <1>1
<1>3. q = s
  BY <1>2
<1>4. q * p \in Nat
  BY Products
<1> QED BY <1>3, <1>4

\* Whole periods do not change the phase.
LEMMA SamePhase ==
  ASSUME NEW a \in Nat, NEW k \in Nat, NEW p \in Nat \ {0}
  PROVE  a + k * p \in Nat /\ (a + k * p) % p = a % p
<1> DEFINE b == a + k * p
<1>1. k * p \in Nat /\ b \in Nat
  BY Products
<1>2. PICK q \in Nat, r \in 0 .. p - 1 : a = q * p + r /\ a % p = r
  BY Division
<1>3. PICK s \in Nat, t \in 0 .. p - 1 : b = s * p + t /\ b % p = t
  <2> HIDE DEF b
  <2> QED BY <1>1, Division
<1>4. b = (q + k) * p + r
  <2>1. (q + k) * p = q * p + k * p
    OBVIOUS
  <2>2. q * p \in Nat
    BY Products
  <2> QED BY <1>1, <1>2, <2>1, <2>2
<1>5. r = t
  <2> DEFINE n == q + k
  <2>1. n \in Nat /\ n * p + r = s * p + t
    BY <1>3, <1>4
  <2> HIDE DEF n, b
  <2> QED BY <2>1, OneRemainder
<1> QED BY <1>1, <1>2, <1>3, <1>5

\* The next point of a "cron" grid lies ahead.
LEMMA NextPoint ==
  ASSUME NEW a \in Nat, NEW p \in Nat \ {0}
  PROVE  (a \div p + 1) * p \in Nat /\ (a \div p + 1) * p > a
<1>1. PICK q \in Nat : q = a \div p /\ a < q * p + p
  <2>1. a \div p \in Nat /\ a % p < p /\ a % p \in Nat /\ a = (a \div p) * p + (a % p)
    BY Division
  <2>2. (a \div p) * p \in Nat
    BY <2>1, Products
  <2> QED BY <2>1, <2>2
<1>2. (q + 1) * p = q * p + p
  OBVIOUS
<1>3. q * p \in Nat
  BY Products
<1> QED BY <1>1, <1>2, <1>3

-----------------------------------------------------------------------------
(* Schedules.                                                               *)

\* A new due time is not None; that of a "cron" job lies ahead.
LEMMA FirstRunFacts ==
  ASSUME CronAssumption, now \in Nat, NEW j \in Jobs, NEW kind \in Kind
  PROVE  /\ FirstRun(j, kind) \in Nat \ {0}
         /\ kind \in OneShot => FirstRun(j, kind) = At[j]
         /\ kind = "cron" => FirstRun(j, kind) > now
<1> USE DEF CronAssumption
<1>1. CASE kind \in OneShot
  BY <1>1 DEF FirstRun, OneShot
<1>2. CASE kind = "every"
  <2>1. FirstRun(j, kind) = now + Period[j]
    BY <1>2 DEF FirstRun, OneShot
  <2> QED BY <1>2, <2>1 DEF OneShot
<1>3. CASE kind = "cron"
  <2>1. FirstRun(j, kind) = (now \div Period[j] + 1) * Period[j]
    BY <1>3 DEF FirstRun, OneShot
  <2>2. (now \div Period[j] + 1) * Period[j] \in Nat /\ (now \div Period[j] + 1) * Period[j] > now
    BY NextPoint
  <2> QED BY <1>3, <2>1, <2>2 DEF OneShot
<1> QED BY <1>1, <1>2, <1>3 DEF Kind, OneShot

\* The due time after another lies ahead of it, or of the clock, on the same grid.
LEMMA NextRepeatFacts ==
  ASSUME CronAssumption, now \in Nat \ {0}, NEW j \in Jobs, NEW kind \in {"every", "cron"},
         NEW due \in Nat
  PROVE  /\ NextRepeat(j, kind, due) \in Nat \ {0}
         /\ NextRepeat(j, kind, due) > due \/ NextRepeat(j, kind, due) > now
         /\ due <= now => NextRepeat(j, kind, due) > due
         /\ due # None => Phase(j, kind, NextRepeat(j, kind, due)) = Phase(j, kind, due)
<1> USE DEF CronAssumption
<1>1. CASE kind = "cron"
  <2>1. NextRepeat(j, kind, due) = FirstRun(j, kind)
    BY <1>1 DEF NextRepeat
  <2>2. FirstRun(j, kind) \in Nat \ {0} /\ FirstRun(j, kind) > now
    BY <1>1, FirstRunFacts DEF Kind
  <2> QED BY <1>1, <2>1, <2>2 DEF Phase
<1>2. CASE kind = "every"
  <2> DEFINE base   == IF due = None THEN now ELSE due
             missed == IF now > base THEN (now - base) \div Period[j] ELSE 0
  <2>1. PICK b \in Nat, k \in Nat, p \in Nat \ {0} :
          /\ b = base /\ k = missed + 1 /\ k # 0 /\ p = Period[j]
          /\ NextRepeat(j, kind, due) = b + k * p
    <3>1. base \in Nat
      BY DEF None
    <3>2. missed \in Nat
      <4>1. CASE now > base
        <5>1. now - base \in Nat
          BY <3>1, <4>1
        <5> HIDE DEF base
        <5> QED BY <4>1, <5>1, Division
      <4>2. CASE ~(now > base)
        BY <4>2
      <4> HIDE DEF missed
      <4> QED BY <4>1, <4>2
    <3>3. NextRepeat(j, kind, due) = base + (missed + 1) * Period[j]
      BY <1>2 DEF NextRepeat
    <3> HIDE DEF base, missed
    <3> QED BY <3>1, <3>2, <3>3
  <2>2. k * p \in Nat /\ k * p >= p
    BY <2>1, Products
  <2>3. (b + k * p) % p = b % p
    BY SamePhase
  <2>4. b >= due /\ (due # None => b = due)
    BY <2>1 DEF None
  <2> HIDE DEF base, missed
  <2>5. NextRepeat(j, kind, due) \in Nat \ {0} /\ NextRepeat(j, kind, due) > due
    BY <2>1, <2>2, <2>4
  <2> QED BY <1>2, <2>1, <2>3, <2>4, <2>5 DEF Phase
<1> QED BY <1>1, <1>2

\* The timer is set for a due time of the store, and none is earlier.
LEMMA WakeFacts ==
  ASSUME NEW m \in Stores
  PROVE  /\ NextWake(m) \in Nat
         /\ \A j \in Scheduled(m) : NextWake(m) # None /\ NextWake(m) <= m[j].next
<1> DEFINE Times == {m[j].next : j \in Scheduled(m)}
<1>1. CASE Scheduled(m) = {}
  BY <1>1 DEF NextWake, None
<1>2. CASE Scheduled(m) # {}
  <2>1. Times \in SUBSET (Nat \ {0}) /\ Times # {}
    BY <1>2 DEF Scheduled, Stores, Job, None
  <2>2. \E k \in Times : \A t \in Times : k <= t
    <3> HIDE DEF Times
    <3> QED BY <2>1, LeastNumber
  <2>3. Min(Times) \in Times /\ \A t \in Times : Min(Times) <= t
    <3> HIDE DEF Times
    <3> QED BY <2>2 DEF Min
  <2>4. NextWake(m) = Min(Times)
    BY <1>2 DEF NextWake
  <2> QED BY <2>1, <2>3, <2>4 DEF None
<1> QED BY <1>1, <1>2

\* What is left of a queue is a queue.
LEMMA FromFreeFacts ==
  ASSUME NEW queue \in Seq(Jobs), NEW held
  PROVE  FromFree(queue, held) \in Seq(Jobs)
<1> DEFINE free == {i \in DOMAIN queue : ~IsLocked(queue[i], held)}
<1>1. CASE free = {}
  BY <1>1 DEF FromFree
<1>2. CASE free # {}
  <2>1. free \in SUBSET Nat
    OBVIOUS
  <2>2. \E k \in free : \A i \in free : k <= i
    <3> HIDE DEF free
    <3> QED BY <1>2, <2>1, LeastNumber
  <2>3. PICK k \in free : k = Min(free)
    <3> HIDE DEF free
    <3> QED BY <2>2 DEF Min
  <2>4. FromFree(queue, held) = SubSeq(queue, Min(free), Len(queue))
    BY <1>2 DEF FromFree
  <2>5. k \in 1 .. Len(queue)
    BY <2>3
  <2>6. SubSeq(queue, k, Len(queue)) \in Seq(Jobs)
    BY <2>5
  <2> QED BY <2>3, <2>4, <2>6
<1> QED BY <1>1, <1>2

-----------------------------------------------------------------------------
(* Stores.                                                                  *)

\* The bounded counter stays in its bounds.
LEMMA MishapFacts ==
  ASSUME CronAssumption, mishaps \in 0 .. MaxMishaps, NEW happens \in BOOLEAN, Mishap(happens)
  PROVE  mishaps' \in 0 .. MaxMishaps
BY DEF Mishap, CronAssumption

\* The store that an operation starts from: the memory, the file, or nothing.
LEMMA LoadedFacts ==
  ASSUME IInv, phase # "down", NEW unread \in BOOLEAN, unread => changed
  PROVE  /\ Loaded(unread) \in Stores
         /\ ~changed => Loaded(unread) = mem
         /\ \A j \in Jobs : j \in fresh => Loaded(unread)[j] = Absent
         /\ \A j \in Jobs : j \notin Owed(unread) => OnGrid(j, Loaded(unread)[j], anchor[j])
         /\ \A j \in Jobs : j \notin Owed(unread) /\ j \notin fresh => Promised(j, Loaded(unread)[j])
<1>1. mem \in Stores /\ file \in Stores /\ Empty \in Stores /\ changed \in BOOLEAN
  BY DEF IInv, TypeOK, Stores, Empty
<1>2. /\ Unused(mem) /\ Regular(mem) /\ Kept(mem)
      /\ Unused(file) /\ Regular(file) /\ Kept(file)
  BY DEF IInv, Memory, Disk
<1>3. CASE unread
  <2>1. Loaded(unread) = Empty
    BY <1>3 DEF Loaded
  <2>2. \A j \in Jobs : Empty[j] = Absent
    BY DEF Empty
  <2>3. \A j \in Jobs : j \notin Owed(unread) => j \in fresh
    BY <1>2, <1>3 DEF Owed, Kept, Promised
  <2> QED BY <1>1, <1>3, <2>1, <2>2, <2>3 DEF OnGrid
<1>4. CASE ~unread
  <2>1. Owed(unread) = over
    BY <1>4 DEF Owed
  <2>2. Loaded(unread) \in {mem, file} /\ (~changed => Loaded(unread) = mem)
    BY <1>1, <1>4 DEF Loaded
  <2> QED BY <1>1, <1>2, <2>1, <2>2 DEF Unused, Regular, Kept
<1> QED BY <1>3, <1>4

\* What the history makes of it.
LEMMA RecalledFacts ==
  ASSUME IInv, NEW m \in Stores
  PROVE  /\ Recalled(m) \in [Jobs -> Nat]
         /\ \A j \in Jobs : Recalled(m)[j] <= now /\ (j \in fresh => Recalled(m)[j] = None)
         /\ \A j \in Scheduled(m) : m[j].next > Recalled(m)[j]
<1>1. consumed \in [Jobs -> Nat] /\ now \in Nat /\ Past /\ Later(mem)
  BY DEF IInv, TypeOK, Memory
<1>2. \A j \in Jobs : Recalled(m)[j] = IF m[j] = mem[j] THEN consumed[j] ELSE None
  BY DEF Recalled
<1>3. Recalled(m) \in [Jobs -> Nat]
  BY <1>1 DEF Recalled, None
<1>4. ASSUME NEW j \in Scheduled(m) PROVE m[j].next > Recalled(m)[j]
  <2>1. j \in Jobs /\ m[j].next \in Nat \ {0}
    BY DEF Scheduled, Stores, Job, None
  <2>2. m[j] = mem[j] => m[j].next > consumed[j]
    BY <1>1, <2>1 DEF Later, Scheduled
  <2> QED BY <1>2, <2>1, <2>2 DEF None
<1> QED BY <1>1, <1>2, <1>3, <1>4 DEF Past, None

\* Who is dropped from the promises, who is not armed, who is detached.
LEMMA SetFacts ==
  ASSUME IInv, NEW m, NEW unread
  PROVE  /\ over \subseteq Owed(unread) /\ Owed(unread) \subseteq Jobs
         /\ Moved(m) \subseteq Jobs
         /\ DetachedNow \subseteq Jobs /\ BatchIsStale \in BOOLEAN
<1>1. over \subseteq Jobs /\ unarmed \subseteq Jobs /\ detached \subseteq Jobs
  BY DEF IInv, TypeOK
<1>2. {r.job : r \in runs} \subseteq Jobs
  BY DEF IInv, TypeOK
<1>3. BatchIsStale \in BOOLEAN
  BY DEF BatchIsStale
<1> QED BY <1>1, <1>2, <1>3 DEF Owed, Moved, DetachedNow

\* A store in memory that the file has become, or not.
LEMMA SaveKeeps ==
  ASSUME CronAssumption, IInv, phase # "down", NEW m \in Stores, NEW fails \in BOOLEAN,
         Save(m, fails), Mishap(fails),
         UNCHANGED <<now, phase, stops>>, ticked' \in BOOLEAN, timer' \in Nat,
         batch' = NoBatch \/ batch' \in Seq(Jobs), stale' \in BOOLEAN,
         runs' \subseteq [job : Jobs, by : {"timer", "hand"}], detached' \subseteq Jobs,
         unarmed' \subseteq Jobs, OneBatch', AlarmIsSet',
         fresh' \subseteq Jobs, over' \subseteq Jobs,
         consumed' \in [Jobs -> Nat], anchor' \in [Jobs -> Nat],
         Past', Kept(m)', Unused(m)', Regular(m)', Later(m)',
         NEW d \in Stores, d = file, Unused(d)', fails => Kept(d)' /\ Regular(d)'
  PROVE  IInv'
<1>1. /\ mem' = m /\ changed' \in BOOLEAN /\ unsaved' \in BOOLEAN
      /\ file' = m \/ (file' = d /\ fails /\ unsaved')
      /\ ~unsaved' /\ ~changed' => file' = m
  BY DEF Save, IInv, TypeOK
<1>2. TypeOK'
  <2>1. mishaps' \in 0 .. MaxMishaps
    BY MishapFacts DEF IInv, TypeOK
  <2>2. mem' \in Stores /\ file' \in Stores
    BY <1>1
  <2> QED BY <1>1, <2>1, <2>2 DEF IInv, TypeOK, Stores
<1>3. Ended'
  BY DEF Ended
<1>4. Memory'
  BY <1>1 DEF Memory, Kept, Regular, Later, Unused, Scheduled
<1>5. Disk'
  BY <1>1 DEF Disk, Kept, Regular, Unused
<1>6. FileFollows'
  BY <1>1 DEF FileFollows
<1> QED BY <1>2, <1>3, <1>4, <1>5, <1>6 DEF IInv

\* The alarm that is armed for the store in memory.
LEMMA ArmedAlarm ==
  ASSUME IInv, NEW m \in Stores, mem' = m, ArmTimer(m), phase' = phase
  PROVE  AlarmIsSet' /\ timer' \in Nat
<1>1. /\ NextWake(m) \in Nat
      /\ \A j \in Scheduled(m) : NextWake(m) # None /\ NextWake(m) <= m[j].next
  BY WakeFacts
<1>2. timer' = IF phase = "up" THEN NextWake(m) ELSE timer
  BY DEF ArmTimer
<1>3. Scheduled(mem)' = Scheduled(m)
  BY DEF Scheduled
<1>4. timer' \in Nat
  BY <1>1, <1>2 DEF IInv, TypeOK
<1> QED BY <1>1, <1>2, <1>3, <1>4 DEF AlarmIsSet

\* The alarm that stays: those who moved are not promised it.
LEMMA KeptAlarm ==
  ASSUME IInv, NEW m \in Stores, mem' = m, unarmed' = Moved(m), UNCHANGED <<phase, timer, batch, ticked>>
  PROVE  AlarmIsSet'
<1>1. Scheduled(mem)' = Scheduled(m)
  BY DEF Scheduled
<1>2. ASSUME phase = "up", NEW j \in Scheduled(m), j \notin Moved(m)
      PROVE  batch # NoBatch \/ ticked \/ (timer # None /\ timer <= m[j].next)
  <2>1. j \in Jobs /\ j \notin unarmed /\ m[j] = mem[j]
    BY <1>2 DEF Moved, Scheduled
  <2>2. j \in Scheduled(mem)
    BY <1>2, <2>1 DEF Scheduled
  <2> QED BY <1>2, <2>1, <2>2 DEF IInv, AlarmIsSet
<1> QED BY <1>1, <1>2 DEF AlarmIsSet

LEMMA SaveAndArmFacts ==
  ASSUME IInv, NEW m \in Stores, NEW fails \in BOOLEAN, SaveAndArm(m, fails),
         UNCHANGED <<phase, batch, ticked>>
  PROVE  /\ Save(m, fails)
         /\ AlarmIsSet' /\ timer' \in Nat /\ unarmed' \subseteq Jobs
<1>1. Save(m, fails) /\ mem' = m
  BY DEF SaveAndArm, Save
<1>2. CASE fails
  <2>1. timer' = timer /\ unarmed' = Moved(m)
    BY <1>2 DEF SaveAndArm
  <2>2. timer \in Nat /\ Moved(m) \subseteq Jobs
    BY SetFacts DEF IInv, TypeOK
  <2> QED BY <1>1, <2>1, <2>2, KeptAlarm
<1>3. CASE ~fails
  <2>1. ArmTimer(m) /\ unarmed' = {}
    BY <1>3 DEF SaveAndArm
  <2> QED BY <1>1, <2>1, ArmedAlarm
<1> QED BY <1>2, <1>3

\* A user adds, removes, enables or disables a job: the others stay what they are.
LEMMA UserStep ==
  ASSUME CronAssumption, IInv, phase # "down", NEW j \in Jobs,
         NEW unread \in BOOLEAN, NEW fails \in BOOLEAN, unread => changed,
         NEW L \in Stores, L = Loaded(unread), NEW m \in Stores,
         SaveAndArm(m, fails), Mishap(fails),
         UNCHANGED <<now, phase, ticked, batch, runs, stops>>,
         stale' = BatchIsStale, detached' = DetachedNow,
         fresh' \subseteq Jobs, over' \subseteq Jobs,
         consumed' \in [Jobs -> Nat], anchor' \in [Jobs -> Nat],
         \A q \in Jobs \ {j} :
           /\ m[q] = L[q] /\ consumed'[q] = Recalled(L)[q] /\ anchor'[q] = anchor[q]
           /\ (q \in fresh' <=> q \in fresh) /\ (q \in over' <=> q \in Owed(unread)),
         j \notin fresh', consumed'[j] <= now, fails => j \in over',
         j \in over' \/ (Promised(j, m[j]) /\ OnGrid(j, m[j], anchor'[j])),
         m[j] # Absent /\ m[j].on /\ m[j].next # None => m[j].next > consumed'[j]
  PROVE  IInv'
<1>1. /\ \A q \in Jobs : q \in fresh => L[q] = Absent
      /\ \A q \in Jobs : q \notin Owed(unread) => OnGrid(q, L[q], anchor[q])
      /\ \A q \in Jobs : q \notin Owed(unread) /\ q \notin fresh => Promised(q, L[q])
  BY LoadedFacts
<1>2. /\ \A q \in Jobs : Recalled(L)[q] <= now /\ (q \in fresh => Recalled(L)[q] = None)
      /\ \A q \in Scheduled(L) : L[q].next > Recalled(L)[q]
  BY RecalledFacts
<1>3. /\ over \subseteq Owed(unread) /\ Owed(unread) \subseteq Jobs
      /\ DetachedNow \subseteq Jobs /\ BatchIsStale \in BOOLEAN
  BY SetFacts
<1>4. Save(m, fails) /\ AlarmIsSet' /\ timer' \in Nat /\ unarmed' \subseteq Jobs
  BY SaveAndArmFacts
<1>5. Past'
  BY <1>2 DEF Past
<1>6. Kept(m)' /\ Unused(m)' /\ Regular(m)'
  BY <1>1 DEF Kept, Unused, Regular
<1>7. Later(m)'
  BY <1>2 DEF Later, Scheduled
<1>8. OneBatch'
  BY DEF IInv, OneBatch
<1>9. /\ batch' = NoBatch \/ batch' \in Seq(Jobs)
      /\ runs' \subseteq [job : Jobs, by : {"timer", "hand"}]
      /\ ticked' \in BOOLEAN /\ stale' \in BOOLEAN /\ detached' \subseteq Jobs
  BY <1>3 DEF IInv, TypeOK
<1>10. PICK d \in Stores : d = file
  BY DEF IInv, TypeOK, Stores
<1>11. Unused(d) /\ Kept(d) /\ Regular(d)
  BY <1>10 DEF IInv, Disk
<1>12. Unused(d)' /\ (fails => Kept(d)' /\ Regular(d)')
  BY <1>3, <1>11 DEF Unused, Kept, Regular
<1> QED BY <1>4, <1>5, <1>6, <1>7, <1>8, <1>9, <1>10, <1>12, SaveKeeps

\* What the end of a run makes of the memory: a one-shot is over, another job is due
\* later than before.
LEMMA ExecutedFacts ==
  ASSUME CronAssumption, IInv, phase # "down", NEW j \in Jobs, Consume(j),
         UNCHANGED now, NEW m, m = Executed(j, mem, j \in detached)
  PROVE  /\ m \in Stores /\ fresh' = fresh /\ anchor' = anchor
         /\ over' \subseteq Jobs /\ over \subseteq over' /\ consumed' \in [Jobs -> Nat]
         /\ Past' /\ Kept(m)' /\ Unused(m)' /\ Regular(m)' /\ Later(m)'
<1>1. /\ mem \in Stores /\ now \in Nat \ {0} /\ consumed \in [Jobs -> Nat] /\ over \subseteq Jobs
      /\ fresh \subseteq Jobs
  BY DEF IInv, TypeOK, Stores
<1>2. Past /\ Kept(mem) /\ Unused(mem) /\ Regular(mem) /\ Later(mem)
  BY DEF IInv, Memory
<1>3. mem[j] \in Job \cup {Absent}
  BY <1>1 DEF Stores
<1> DEFINE next == NextRepeat(j, mem[j].kind, mem[j].next)
<1>4. mem[j].kind \in {"every", "cron"} =>
        /\ mem[j] \in Job /\ next \in Nat \ {0}
        /\ next > mem[j].next \/ next > now
        /\ mem[j].next <= now => next > mem[j].next
        /\ mem[j].next # None => Phase(j, mem[j].kind, next) = Phase(j, mem[j].kind, mem[j].next)
  <2> SUFFICES ASSUME mem[j].kind \in {"every", "cron"} PROVE <1>4!2
    OBVIOUS
  <2>1. mem[j] \in Job /\ mem[j].next \in Nat
    BY <1>3 DEF Job, Absent
  <2> QED BY <1>1, <2>1, NextRepeatFacts
<1> HIDE DEF next
<1>5. PICK v \in Job \cup {Absent} :
        /\ \A q \in Jobs : m[q] = IF q = j THEN v ELSE mem[q]
        /\ m \in Stores
        /\ \/ v = Absent /\ mem[j].kind \in {"none", "once"}
           \/ v = mem[j] /\ j \in detached
           \/ mem[j].kind = "at" /\ v = [mem[j] EXCEPT !.on = FALSE, !.next = None]
           \/ mem[j].kind \in {"every", "cron"} /\ j \notin detached /\ v = [mem[j] EXCEPT !.next = next]
  <2>1. CASE mem[j].kind \in {"none", "once"}
    <3>1. m = [mem EXCEPT ![j] = Absent]
      BY <2>1 DEF Executed
    <3> QED BY <1>1, <2>1, <3>1 DEF Stores
  <2>2. CASE mem[j].kind \in {"at", "every", "cron"} /\ j \in detached
    <3>1. m = mem
      BY <2>2 DEF Executed
    <3> QED BY <1>1, <1>3, <2>2, <3>1
  <2>3. CASE mem[j].kind = "at" /\ j \notin detached
    <3>1. m = [mem EXCEPT ![j].on = FALSE, ![j].next = None]
      BY <2>3 DEF Executed
    <3>2. PICK v : v = [mem[j] EXCEPT !.on = FALSE, !.next = None]
      OBVIOUS
    <3>3. mem[j] \in Job
      BY <1>3, <2>3 DEF Absent
    <3>4. v \in Job
      BY <3>2, <3>3 DEF Job, None
    <3>5. m = [mem EXCEPT ![j] = v]
      BY <3>1, <3>2
    <3>6. m \in Stores /\ \A q \in Jobs : m[q] = IF q = j THEN v ELSE mem[q]
      BY <1>1, <3>4, <3>5 DEF Stores
    <3> QED BY <2>3, <3>2, <3>4, <3>6
  <2>4. CASE mem[j].kind \in {"every", "cron"} /\ j \notin detached
    <3>1. m = [mem EXCEPT ![j].next = next]
      BY <2>4 DEF Executed, next
    <3>2. [mem[j] EXCEPT !.next = next] \in Job
      BY <1>4, <2>4 DEF Job
    <3> QED BY <1>1, <2>4, <3>1, <3>2 DEF Stores
  <2>5. mem[j].kind \in {"none", "once", "at", "every", "cron"}
    BY <1>3 DEF Job, Absent, Kind
  <2> QED BY <2>1, <2>2, <2>3, <2>4, <2>5
<1>6. /\ fresh' = fresh /\ anchor' = anchor
      /\ over' = IF mem[j].kind \in OneShot THEN over \cup {j} ELSE over
      /\ \A q \in Jobs : consumed'[q] =
           IF q = j /\ ~(mem[j] = Absent \/ j \in detached \/ mem[j].next > now)
           THEN mem[j].next ELSE consumed[q]
  BY <1>1 DEF Consume
<1>7. consumed' \in [Jobs -> Nat]
  <2>1. mem[j] # Absent => mem[j].next \in Nat
    BY <1>3 DEF Job
  <2> QED BY <1>1, <2>1 DEF Consume
<1>8. Past'
  <2>1. mem[j] # Absent => mem[j].next \in Nat
    BY <1>3 DEF Job
  <2>2. j \in fresh => mem[j] = Absent
    BY <1>2 DEF Unused
  <2> QED BY <1>1, <1>2, <1>6, <2>1, <2>2 DEF Past
<1>9. ASSUME j \notin over'
      PROVE  OnGrid(j, v, anchor[j]) /\ (j \notin fresh => Promised(j, v))
  <2>1. j \notin over /\ mem[j].kind \notin OneShot
    BY <1>6, <1>9
  <2>2. OnGrid(j, mem[j], anchor[j]) /\ (j \notin fresh => Promised(j, mem[j]))
    BY <1>2, <2>1 DEF Regular, Kept
  <2>3. CASE v = Absent
    <3>1. mem[j].kind = "none"
      BY <1>3, <1>5, <2>1, <2>3 DEF OneShot, Job, Absent
    <3>2. mem[j] = Absent
      BY <1>3, <3>1 DEF Job, Kind
    <3> QED BY <2>2, <2>3, <3>2
  <2>4. CASE v = mem[j]
    BY <2>2, <2>4
  <2>5. CASE mem[j].kind \in {"every", "cron"} /\ v = [mem[j] EXCEPT !.next = next]
    <3>1. mem[j] \in Job /\ mem[j] # Absent
      BY <1>3, <2>5 DEF Job, Absent
    <3>2. v.kind = mem[j].kind /\ v.next = next /\ v.on = mem[j].on /\ next # None /\ v # Absent
      BY <1>4, <2>5, <3>1 DEF Job, Absent, None
    <3>3. OnGrid(j, v, anchor[j])
      BY <1>4, <2>2, <2>5, <3>1, <3>2 DEF OnGrid
    <3> QED BY <2>1, <2>2, <3>2, <3>3 DEF Promised
  <2> QED BY <1>5, <2>1, <2>3, <2>4, <2>5 DEF OneShot
<1>10. Kept(m)' /\ Regular(m)'
  <2>1. \A q \in Jobs : q \notin over' => q \notin over
    BY <1>6
  <2> QED BY <1>2, <1>5, <1>6, <1>9, <2>1 DEF Kept, Regular
<1>11. Unused(m)'
  <2>1. j \in fresh => v = Absent
    BY <1>2, <1>5 DEF Unused, Absent
  <2> QED BY <1>1, <1>2, <1>5, <1>6, <2>1 DEF Unused
<1>12. ASSUME v # Absent, v.on, v.next # None
       PROVE  v.next > consumed'[j]
  <2>1. CASE v = mem[j] /\ j \in detached
    BY <1>2, <1>6, <1>12, <2>1 DEF Later, Scheduled
  <2>2. CASE mem[j].kind = "at" /\ v = [mem[j] EXCEPT !.on = FALSE, !.next = None]
    <3>1. mem[j] \in Job
      BY <1>3, <2>2 DEF Absent
    <3>2. ~v.on
      BY <2>2, <3>1 DEF Job
    <3> QED BY <1>12, <3>2
  <2>3. CASE mem[j].kind \in {"every", "cron"} /\ j \notin detached /\ v = [mem[j] EXCEPT !.next = next]
    <3>1. mem[j] \in Job /\ mem[j] # Absent /\ mem[j].next \in Nat
      BY <1>3, <2>3 DEF Job, Absent
    <3>2. v.next = next /\ v.on = mem[j].on
      BY <2>3, <3>1 DEF Job
    <3>3. consumed[j] \in Nat /\ consumed[j] <= now
      BY <1>1, <1>2 DEF Past
    <3>4. consumed'[j] = IF mem[j].next > now THEN consumed[j] ELSE mem[j].next
      BY <1>6, <2>3, <3>1
    <3>5. mem[j].next > now => mem[j].next > consumed[j]
      BY <1>1, <3>1, <3>3
    <3> QED BY <1>1, <1>4, <2>3, <3>1, <3>2, <3>3, <3>4, <3>5
  <2> QED BY <1>5, <1>12, <2>1, <2>2, <2>3
<1>13. Later(m)'
  <2>1. ASSUME NEW q \in Jobs, q # j PROVE m[q] = mem[q] /\ consumed'[q] = consumed[q]
    BY <1>5, <1>6, <2>1
  <2> QED BY <1>2, <1>5, <1>12, <2>1 DEF Later, Scheduled
<1>14. over \subseteq over' /\ over' \subseteq Jobs
  BY <1>1, <1>6
<1> QED BY <1>5, <1>6, <1>7, <1>8, <1>10, <1>11, <1>13, <1>14

-----------------------------------------------------------------------------
(* Users.                                                                   *)

\* A phase is a number.
LEMMA PhaseFacts ==
  ASSUME CronAssumption, NEW j \in Jobs, NEW kind, NEW due \in Nat
  PROVE  Phase(j, kind, due) \in Nat
<1>1. CASE kind = "every"
  <2>1. Period[j] \in Nat \ {0}
    BY DEF CronAssumption
  <2>2. due % Period[j] \in 0 .. Period[j] - 1
    BY <2>1, Division
  <2> QED BY <1>1, <2>1, <2>2 DEF Phase
<1> QED BY <1>1 DEF Phase

LEMMA AddJobKeeps ==
  ASSUME CronAssumption, IInv, NEW j \in Jobs, NEW kind \in Kind, AddJob(j, kind)
  PROVE  IInv'
<1> DEFINE first == FirstRun(j, kind)
<1>1. /\ now \in Nat /\ anchor \in [Jobs -> Nat] /\ fresh \subseteq Jobs
  BY DEF IInv, TypeOK
<1>2. /\ first \in Nat \ {0} /\ (kind \in OneShot => first = At[j]) /\ Phase(j, kind, first) \in Nat
  <2>1. first \in Nat \ {0} /\ (kind \in OneShot => first = At[j])
    BY <1>1, FirstRunFacts
  <2> HIDE DEF first
  <2> QED BY <2>1, PhaseFacts
<1>3. PICK unread \in BOOLEAN, fails \in BOOLEAN :
        /\ phase # "down" /\ j \in fresh
        /\ unread => changed
        /\ Mishap(fails)
        /\ SaveAndArm([Loaded(unread) EXCEPT ![j] = [kind |-> kind, on |-> TRUE, next |-> first]], fails)
        /\ stale' = BatchIsStale /\ detached' = DetachedNow
        /\ fresh' = fresh \ {j}
        /\ over' = IF fails THEN Owed(unread) \cup {j} ELSE Owed(unread)
        /\ consumed' = Recalled(Loaded(unread))
        /\ anchor' = [anchor EXCEPT ![j] = Phase(j, kind, first)]
        /\ UNCHANGED <<now, phase, ticked, batch, runs, stops>>
  BY DEF AddJob, Alive
<1> HIDE DEF first
<1>4. PICK L \in Stores : L = Loaded(unread)
  BY <1>3, LoadedFacts
<1>5. PICK m : m = [L EXCEPT ![j] = [kind |-> kind, on |-> TRUE, next |-> first]]
  OBVIOUS
<1>6. m \in Stores /\ \A q \in Jobs : m[q] = IF q = j THEN [kind |-> kind, on |-> TRUE, next |-> first]
                                              ELSE L[q]
  BY <1>2, <1>5 DEF Stores, Job
<1>7. SaveAndArm(m, fails) /\ consumed' = Recalled(L)
  BY <1>3, <1>4, <1>5
<1>8. Recalled(L) \in [Jobs -> Nat] /\ Recalled(L)[j] = None
  BY <1>3, RecalledFacts
<1>9. /\ consumed'[j] <= now /\ consumed' \in [Jobs -> Nat] /\ anchor' \in [Jobs -> Nat]
      /\ anchor'[j] = Phase(j, kind, first)
      /\ \A q \in Jobs \ {j} : anchor'[q] = anchor[q] /\ consumed'[q] = Recalled(L)[q]
  <2>1. consumed'[j] = 0 /\ 0 <= now
    BY <1>1, <1>7, <1>8 DEF None
  <2>2. anchor' = [anchor EXCEPT ![j] = Phase(j, kind, first)]
    BY <1>3
  <2>3. anchor' \in [Jobs -> Nat] /\ anchor'[j] = Phase(j, kind, first)
    BY <1>1, <1>2, <2>2
  <2> QED BY <1>1, <1>7, <1>8, <2>1, <2>2, <2>3
<1>10. /\ m[j] # Absent /\ m[j].on /\ m[j].kind = kind /\ m[j].next = first
       /\ first # None /\ first > consumed'[j]
  BY <1>2, <1>6, <1>7, <1>8 DEF Absent, None
<1>11. Promised(j, m[j]) /\ OnGrid(j, m[j], anchor'[j])
  BY <1>2, <1>9, <1>10 DEF Promised, OnGrid
<1>12. Owed(unread) \subseteq Jobs
  BY SetFacts
<1>13. /\ fresh' \subseteq Jobs /\ over' \subseteq Jobs /\ j \notin fresh' /\ (fails => j \in over')
       /\ \A q \in Jobs \ {j} : (q \in fresh' <=> q \in fresh) /\ (q \in over' <=> q \in Owed(unread))
  BY <1>1, <1>3, <1>12
<1> QED BY <1>3, <1>4, <1>6, <1>7, <1>9, <1>10, <1>11, <1>13, UserStep

LEMMA RemoveJobKeeps ==
  ASSUME CronAssumption, IInv, NEW j \in Jobs, RemoveJob(j)
  PROVE  IInv'
<1>1. anchor \in [Jobs -> Nat] /\ fresh \subseteq Jobs /\ over \subseteq Jobs
  BY DEF IInv, TypeOK
<1>2. PICK fails \in BOOLEAN :
        /\ phase # "down" /\ Loaded(FALSE)[j] # Absent
        /\ Mishap(fails)
        /\ SaveAndArm([Loaded(FALSE) EXCEPT ![j] = Absent], fails)
        /\ stale' = BatchIsStale /\ detached' = DetachedNow
        /\ over' = over \cup {j}
        /\ consumed' = Recalled(Loaded(FALSE))
        /\ UNCHANGED <<now, phase, ticked, batch, runs, fresh, anchor, stops>>
  BY DEF RemoveJob, Alive
<1>3. PICK L \in Stores : L = Loaded(FALSE) /\ \A q \in Jobs : q \in fresh => L[q] = Absent
  BY <1>2, LoadedFacts
<1>4. PICK m : m = [L EXCEPT ![j] = Absent]
  OBVIOUS
<1>5. m \in Stores /\ \A q \in Jobs : m[q] = IF q = j THEN Absent ELSE L[q]
  BY <1>4 DEF Stores
<1>6. SaveAndArm(m, fails) /\ consumed' = Recalled(L)
  BY <1>2, <1>3, <1>4
<1>7. j \notin fresh'
  BY <1>2, <1>3
<1>8. consumed' \in [Jobs -> Nat] /\ consumed'[j] <= now
  BY <1>6, RecalledFacts
<1>9. Owed(FALSE) = over
  BY DEF Owed
<1>10. /\ m[j] = Absent
       /\ fresh' \subseteq Jobs /\ over' \subseteq Jobs /\ anchor' \in [Jobs -> Nat] /\ j \in over'
       /\ \A q \in Jobs \ {j} :
            /\ m[q] = L[q] /\ consumed'[q] = Recalled(L)[q] /\ anchor'[q] = anchor[q]
            /\ (q \in fresh' <=> q \in fresh) /\ (q \in over' <=> q \in Owed(FALSE))
  BY <1>1, <1>2, <1>5, <1>6, <1>9
<1>11. PICK unread \in BOOLEAN : unread = FALSE
  OBVIOUS
<1>12. /\ phase # "down" /\ Mishap(fails) /\ stale' = BatchIsStale /\ detached' = DetachedNow
       /\ UNCHANGED <<now, phase, ticked, batch, runs, stops>>
       /\ L = Loaded(unread) /\ (unread => changed)
       /\ \A q \in Jobs \ {j} :
            /\ m[q] = L[q] /\ consumed'[q] = Recalled(L)[q] /\ anchor'[q] = anchor[q]
            /\ (q \in fresh' <=> q \in fresh) /\ (q \in over' <=> q \in Owed(unread))
  BY <1>2, <1>3, <1>10, <1>11
<1> QED BY <1>5, <1>6, <1>7, <1>8, <1>10, <1>12, UserStep

LEMMA EnableKeeps ==
  ASSUME CronAssumption, IInv, NEW j \in Jobs, NEW on \in BOOLEAN, Enable(j, on)
  PROVE  IInv'
<1>1. /\ now \in Nat /\ anchor \in [Jobs -> Nat] /\ fresh \subseteq Jobs /\ over \subseteq Jobs
  BY DEF IInv, TypeOK
<1> DEFINE kind == Loaded(FALSE)[j].kind
           next == IF on THEN FirstRun(j, kind) ELSE None
<1>2. PICK fails \in BOOLEAN :
        /\ phase # "down" /\ Loaded(FALSE)[j] # Absent
        /\ Mishap(fails)
        /\ SaveAndArm([Loaded(FALSE) EXCEPT ![j].on = on, ![j].next = next], fails)
        /\ anchor' = [anchor EXCEPT ![j] = Phase(j, kind, next)]
        /\ stale' = BatchIsStale /\ detached' = DetachedNow
        /\ over' = IF on /\ ~fails THEN over \ {j} ELSE over \cup {j}
        /\ consumed' = [Recalled(Loaded(FALSE)) EXCEPT ![j] = None]
        /\ UNCHANGED <<now, phase, ticked, batch, runs, fresh, stops>>
  BY DEF Enable, Alive
<1>3. PICK L \in Stores : L = Loaded(FALSE) /\ \A q \in Jobs : q \in fresh => L[q] = Absent
  BY <1>2, LoadedFacts
<1>4. PICK w \in Job : w = L[j] /\ w.kind = kind /\ kind \in Kind
  BY <1>2, <1>3 DEF Stores, Job
<1>5. /\ next \in Nat /\ (on => next # None) /\ (on /\ kind \in OneShot => next = At[j])
      /\ Phase(j, kind, next) \in Nat
  <2>1. next \in Nat /\ (on => next # None) /\ (on /\ kind \in OneShot => next = At[j])
    <3>1. FirstRun(j, kind) \in Nat \ {0} /\ (kind \in OneShot => FirstRun(j, kind) = At[j])
      <4> HIDE DEF kind
      <4> QED BY <1>1, <1>4, FirstRunFacts
    <3> HIDE DEF kind
    <3> QED BY <3>1 DEF None
  <2> HIDE DEF next, kind
  <2> QED BY <2>1, PhaseFacts
<1> HIDE DEF next, kind
<1>6. PICK v : v = [w EXCEPT !.on = on, !.next = next]
  OBVIOUS
<1>7. v \in Job /\ v.kind = kind /\ v.on = on /\ v.next = next /\ v # Absent
  <2>1. v \in Job /\ v.kind = kind /\ v.on = on /\ v.next = next
    BY <1>4, <1>5, <1>6 DEF Job
  <2>2. v # Absent
    BY <1>4, <2>1 DEF Kind, Absent
  <2> QED BY <2>1, <2>2
<1>8. PICK m : m = [L EXCEPT ![j] = v]
  OBVIOUS
<1>9. m \in Stores /\ \A q \in Jobs : m[q] = IF q = j THEN v ELSE L[q]
  BY <1>7, <1>8 DEF Stores
<1>10. SaveAndArm(m, fails)
  <2>1. m = [L EXCEPT ![j].on = on, ![j].next = next]
    BY <1>4, <1>6, <1>8 DEF Stores
  <2> QED BY <1>2, <1>3, <2>1
<1>11. Recalled(L) \in [Jobs -> Nat]
  BY RecalledFacts
<1>12. /\ consumed' \in [Jobs -> Nat] /\ anchor' \in [Jobs -> Nat]
       /\ consumed'[j] = None /\ anchor'[j] = Phase(j, kind, next)
       /\ \A q \in Jobs \ {j} : anchor'[q] = anchor[q] /\ consumed'[q] = Recalled(L)[q]
  BY <1>1, <1>2, <1>3, <1>5, <1>11 DEF None
<1>13. Owed(FALSE) = over
  BY DEF Owed
<1>14. /\ fresh' \subseteq Jobs /\ over' \subseteq Jobs
       /\ \A q \in Jobs \ {j} : (q \in fresh' <=> q \in fresh) /\ (q \in over' <=> q \in Owed(FALSE))
       /\ ~on \/ fails => j \in over'
  BY <1>1, <1>2, <1>13
<1>15. j \notin fresh'
  BY <1>2, <1>3
<1>16. consumed'[j] <= now /\ (on => next > consumed'[j])
  BY <1>1, <1>5, <1>12 DEF None
<1>17. /\ on => Promised(j, m[j]) /\ OnGrid(j, m[j], anchor'[j])
       /\ m[j].on => on
       /\ m[j].next = next
  BY <1>5, <1>7, <1>9, <1>12 DEF Promised, OnGrid
<1>18. PICK unread \in BOOLEAN : unread = FALSE
  OBVIOUS
<1>19. \A q \in Jobs \ {j} :
         /\ m[q] = L[q] /\ consumed'[q] = Recalled(L)[q] /\ anchor'[q] = anchor[q]
         /\ (q \in fresh' <=> q \in fresh) /\ (q \in over' <=> q \in Owed(unread))
  BY <1>9, <1>12, <1>14, <1>18
<1>20. j \in over' \/ (Promised(j, m[j]) /\ OnGrid(j, m[j], anchor'[j]))
  BY <1>14, <1>17
<1>21. /\ phase # "down" /\ Mishap(fails) /\ stale' = BatchIsStale /\ detached' = DetachedNow
       /\ UNCHANGED <<now, phase, ticked, batch, runs, stops>>
       /\ L = Loaded(unread) /\ (unread => changed)
  BY <1>2, <1>3, <1>18
<1>22. m[j] # Absent /\ m[j].on /\ m[j].next # None => m[j].next > consumed'[j]
  BY <1>16, <1>17
<1> QED BY <1>9, <1>10, <1>12, <1>14, <1>15, <1>16, <1>19, <1>20, <1>21, <1>22, UserStep

-----------------------------------------------------------------------------
(* Runs.                                                                    *)

\* What the file holds stays promised and on its grid when fewer jobs are.
LEMMA FileKeeps ==
  ASSUME IInv, fresh' = fresh, anchor' = anchor, over \subseteq over'
  PROVE  \E d \in Stores : d = file /\ Unused(d)' /\ Kept(d)' /\ Regular(d)'
<1>1. PICK d \in Stores : d = file
  BY DEF IInv, TypeOK, Stores
<1>2. Unused(d) /\ Kept(d) /\ Regular(d)
  BY <1>1 DEF IInv, Disk
<1> QED BY <1>1, <1>2 DEF Unused, Kept, Regular

\* A run by hand ends.
LEMMA HandRunEndsKeeps ==
  ASSUME CronAssumption, IInv, NEW j \in Jobs, HandRunEnds(j)
  PROVE  IInv'
<1>1. PICK m : m = Executed(j, mem, j \in detached)
  OBVIOUS
<1>2. PICK fails \in BOOLEAN :
        /\ [job |-> j, by |-> "hand"] \in runs
        /\ runs' = runs \ {[job |-> j, by |-> "hand"]}
        /\ detached' = detached \ {j}
        /\ Mishap(fails) /\ SaveAndArm(m, fails) /\ Consume(j)
        /\ UNCHANGED <<now, phase, ticked, batch, stale, stops>>
  BY <1>1 DEF HandRunEnds
<1>3. phase # "down"
  BY <1>2 DEF IInv, Ended
<1>4. /\ m \in Stores /\ fresh' = fresh /\ anchor' = anchor
      /\ over' \subseteq Jobs /\ over \subseteq over' /\ consumed' \in [Jobs -> Nat]
      /\ Past' /\ Kept(m)' /\ Unused(m)' /\ Regular(m)' /\ Later(m)'
  BY <1>1, <1>2, <1>3, ExecutedFacts
<1>5. OneBatch'
  BY <1>2 DEF IInv, OneBatch
<1>6. /\ batch' = NoBatch \/ batch' \in Seq(Jobs)
      /\ runs' \subseteq [job : Jobs, by : {"timer", "hand"}]
      /\ stale' \in BOOLEAN /\ detached' \subseteq Jobs /\ fresh' \subseteq Jobs
      /\ ticked' \in BOOLEAN /\ anchor' \in [Jobs -> Nat]
  BY <1>2, <1>4 DEF IInv, TypeOK
<1>7. Save(m, fails) /\ AlarmIsSet' /\ timer' \in Nat /\ unarmed' \subseteq Jobs
  BY <1>2, <1>4, SaveAndArmFacts
<1>8. PICK d \in Stores : d = file /\ Unused(d)' /\ Kept(d)' /\ Regular(d)'
  BY <1>4, FileKeeps
<1> QED BY <1>2, <1>3, <1>4, <1>5, <1>6, <1>7, <1>8, SaveKeeps

\* A batch goes on with the rest of its queue, or ends.
LEMMA GoOnKeeps ==
  ASSUME CronAssumption, IInv, phase = "up", NEW queue \in Seq(Jobs), NEW m \in Stores,
         NEW held \in SUBSET runs, \A r \in held : r.by # "timer",
         NEW isStale \in BOOLEAN, NEW isDetached \in SUBSET Jobs, NEW fails \in BOOLEAN,
         GoOn(queue, m, held, isStale, isDetached, fails), Mishap(fails),
         UNCHANGED <<now, phase, stops>>, ticked' \in BOOLEAN,
         fresh' = fresh, anchor' = anchor,
         over' \subseteq Jobs, over \subseteq over', consumed' \in [Jobs -> Nat],
         Past', Kept(m)', Unused(m)', Regular(m)', Later(m)'
  PROVE  IInv'
<1>1. /\ held \subseteq [job : Jobs, by : {"timer", "hand"}]
      /\ fresh' \subseteq Jobs /\ anchor' \in [Jobs -> Nat]
  BY DEF IInv, TypeOK
<1>2. PICK d \in Stores : d = file /\ Unused(d)' /\ Kept(d)' /\ Regular(d)'
  BY FileKeeps
<1>3. CASE queue = <<>>
  <2>1. /\ Save(m, fails) /\ ArmTimer(m) /\ batch' = NoBatch /\ stale' = FALSE
        /\ unarmed' = {} /\ runs' = held /\ detached' = isDetached
    BY <1>3 DEF GoOn
  <2>2. OneBatch'
    BY <2>1 DEF OneBatch
  <2>3. /\ stale' \in BOOLEAN /\ detached' \subseteq Jobs /\ unarmed' \subseteq Jobs
        /\ runs' \subseteq [job : Jobs, by : {"timer", "hand"}]
        /\ batch' = NoBatch \/ batch' \in Seq(Jobs)
        /\ mem' = m
    BY <1>1, <2>1 DEF Save
  <2>4. AlarmIsSet' /\ timer' \in Nat
    BY <2>1, <2>3, ArmedAlarm
  <2> QED BY <1>1, <1>2, <2>1, <2>2, <2>3, <2>4, SaveKeeps
<1>4. CASE queue # <<>>
  <2>1. /\ mem' = m /\ batch' = Tail(queue) /\ stale' = isStale
        /\ runs' = held \cup {[job |-> Head(queue), by |-> "timer"]}
        /\ detached' = IF isStale THEN isDetached \cup {Head(queue)} ELSE isDetached
        /\ UNCHANGED <<file, changed, unsaved, timer, unarmed>>
    BY <1>4 DEF GoOn
  <2>2. Head(queue) \in Jobs /\ Tail(queue) \in Seq(Jobs)
    BY <1>4
  <2>3. batch' \in Seq(Jobs) /\ batch' # NoBatch
    <3>1. ASSUME Tail(queue) = NoBatch PROVE FALSE
      <4>1. PICK b \in Seq(Jobs) : b = <<"idle">>
        BY <2>2, <3>1 DEF NoBatch
      <4>2. b[1] \in Jobs
        BY <4>1
      <4> QED BY <4>1, <4>2 DEF CronAssumption
    <3> QED BY <2>1, <2>2, <3>1
  <2>4. TypeOK'
    <3>1. /\ runs' \subseteq [job : Jobs, by : {"timer", "hand"}]
          /\ detached' \subseteq Jobs /\ stale' \in BOOLEAN
      BY <1>1, <2>1, <2>2
    <3>2. /\ mem' \in Stores /\ file' \in Stores /\ changed' \in BOOLEAN /\ timer' \in Nat
          /\ unsaved' \in BOOLEAN /\ unarmed' \subseteq Jobs
      BY <2>1 DEF IInv, TypeOK, Stores
    <3>3. mishaps' \in 0 .. MaxMishaps
      BY MishapFacts DEF IInv, TypeOK
    <3> QED BY <1>1, <2>3, <3>1, <3>2, <3>3 DEF IInv, TypeOK, Stores
  <2>5. OneBatch'
    BY <2>1, <2>3 DEF OneBatch
  <2>6. Ended'
    BY DEF Ended
  <2>7. Memory'
    BY <2>1 DEF Memory, Kept, Unused, Regular, Later, Scheduled
  <2>8. Disk'
    BY <1>2, <2>1 DEF Disk, Kept, Unused, Regular
  <2> QED BY <2>3, <2>4, <2>5, <2>6, <2>7, <2>8 DEF IInv, AlarmIsSet, FileFollows
<1> QED BY <1>3, <1>4

\* A tick that meets no batch begins one with the jobs that are due.
LEMMA OnTimerKeeps ==
  ASSUME CronAssumption, IInv, OnTimer
  PROVE  IInv'
<1>1. PICK unread \in BOOLEAN, fails \in BOOLEAN :
        /\ phase = "up" /\ batch = NoBatch
        /\ unread => changed
        /\ Mishap(fails)
        /\ ticked' = FALSE
        /\ \E due \in SetToSeqs(DueJobs(Loaded(unread))) :
             GoOn(FromFree(due, runs), Loaded(unread), runs, FALSE, DetachedNow, fails)
        /\ over' = Owed(unread)
        /\ consumed' = Recalled(Loaded(unread))
        /\ UNCHANGED <<now, phase, fresh, anchor, stops>>
  BY DEF OnTimer
<1>2. PICK m \in Stores :
        /\ m = Loaded(unread)
        /\ \A j \in Jobs : j \in fresh => m[j] = Absent
        /\ \A j \in Jobs : j \notin Owed(unread) => OnGrid(j, m[j], anchor[j])
        /\ \A j \in Jobs : j \notin Owed(unread) /\ j \notin fresh => Promised(j, m[j])
  BY <1>1, LoadedFacts
<1>3. PICK due \in SetToSeqs(DueJobs(m)) :
        GoOn(FromFree(due, runs), m, runs, FALSE, DetachedNow, fails)
  BY <1>1, <1>2
<1>4. due \in Seq(Jobs)
  <2>1. DueJobs(m) \subseteq Jobs
    BY DEF DueJobs, Scheduled
  <2>2. Cardinality(DueJobs(m)) \in Nat
    BY <2>1, FS_Subset, FS_CardinalityType DEF CronAssumption
  <2>3. due \in [1 .. Cardinality(DueJobs(m)) -> DueJobs(m)]
    BY DEF SetToSeqs
  <2> QED BY <2>1, <2>2, <2>3
<1>5. PICK queue \in Seq(Jobs) : queue = FromFree(due, runs)
  BY <1>4, FromFreeFacts
<1>6. PICK isDetached \in SUBSET Jobs : isDetached = DetachedNow
  BY SetFacts
<1>7. GoOn(queue, m, runs, FALSE, isDetached, fails)
  BY <1>3, <1>5, <1>6
<1>8. \A r \in runs : r.by # "timer"
  BY <1>1 DEF IInv, OneBatch
<1>9. over' \subseteq Jobs /\ over \subseteq over'
  BY <1>1, SetFacts
<1>10. /\ consumed' \in [Jobs -> Nat]
       /\ \A j \in Jobs : consumed'[j] <= now /\ (j \in fresh => consumed'[j] = None)
       /\ \A j \in Scheduled(m) : m[j].next > consumed'[j]
  BY <1>1, <1>2, RecalledFacts
<1>11. Past' /\ Kept(m)' /\ Unused(m)' /\ Regular(m)' /\ Later(m)'
  <2>1. over' = Owed(unread) /\ fresh' = fresh /\ anchor' = anchor /\ now' = now
    BY <1>1
  <2>2. Past'
    BY <1>10, <2>1 DEF Past
  <2>3. Kept(m)' /\ Unused(m)' /\ Regular(m)'
    BY <1>2, <2>1 DEF Kept, Unused, Regular
  <2>4. Later(m)'
    BY <1>10 DEF Later, Scheduled
  <2> QED BY <2>2, <2>3, <2>4
<1> QED BY <1>1, <1>7, <1>8, <1>9, <1>10, <1>11, GoOnKeeps

\* A run of the batch ends, and the batch goes on.
LEMMA TimedRunEndsKeeps ==
  ASSUME CronAssumption, IInv, NEW j \in Jobs, TimedRunEnds(j)
  PROVE  IInv'
<1> DEFINE r    == [job |-> j, by |-> "timer"]
           held == runs \ {r}
<1>1. PICK m : m = Executed(j, mem, j \in detached)
  OBVIOUS
<1>2. PICK fails \in BOOLEAN :
        /\ r \in runs /\ phase = "up"
        /\ Mishap(fails)
        /\ GoOn(FromFree(batch, held), m, held, stale, detached \ {j}, fails)
        /\ Consume(j)
        /\ UNCHANGED <<now, phase, ticked, stops>>
  BY <1>1 DEF TimedRunEnds
<1>3. /\ m \in Stores /\ fresh' = fresh /\ anchor' = anchor
      /\ over' \subseteq Jobs /\ over \subseteq over' /\ consumed' \in [Jobs -> Nat]
      /\ Past' /\ Kept(m)' /\ Unused(m)' /\ Regular(m)' /\ Later(m)'
  BY <1>1, <1>2, ExecutedFacts
<1>4. batch \in Seq(Jobs)
  BY <1>2 DEF IInv, TypeOK, OneBatch
<1>5. \A q \in held : q.by # "timer"
  BY <1>2 DEF IInv, OneBatch
<1>6. held \in SUBSET runs
  OBVIOUS
<1> HIDE DEF held
<1>7. PICK queue \in Seq(Jobs) : queue = FromFree(batch, held)
  BY <1>4, FromFreeFacts
<1>8. PICK isStale \in BOOLEAN, isDetached \in SUBSET Jobs :
        isStale = stale /\ isDetached = detached \ {j}
  BY DEF IInv, TypeOK
<1>9. GoOn(queue, m, held, isStale, isDetached, fails)
  BY <1>2, <1>7, <1>8
<1>10. PICK busy \in SUBSET runs : busy = held
  BY <1>6
<1>11. ticked' \in BOOLEAN
  BY <1>2 DEF IInv, TypeOK
<1> QED BY <1>2, <1>3, <1>5, <1>9, <1>10, <1>11, GoOnKeeps

-----------------------------------------------------------------------------
(* The other steps.                                                         *)

\* A step that changes no due time and no file.
LEMMA QuietKeeps ==
  ASSUME IInv, UNCHANGED <<store, history, bounds>>,
         now' \in 1 .. MaxTime, now <= now',
         phase' \in {"down", "up", "closing", "closed"}, phase' # "down" => phase # "down",
         phase' = "down" => phase = "down" /\ runs' = runs,
         timer' \in Nat, ticked' \in BOOLEAN, batch' = batch \/ batch' = NoBatch, stale' \in BOOLEAN,
         runs' \subseteq [job : Jobs, by : {"timer", "hand"}], detached' \subseteq Jobs,
         unarmed' \subseteq Jobs, OneBatch', AlarmIsSet',
         phase' = "up" /\ batch' = NoBatch => phase = "up" /\ batch = NoBatch
  PROVE  IInv'
<1>1. /\ UNCHANGED <<file, mem, changed, unsaved>>
      /\ UNCHANGED <<fresh, over, consumed, anchor>>
      /\ UNCHANGED <<mishaps, stops>>
  BY DEF history, store, bounds
<1>2. TypeOK'
  BY <1>1 DEF IInv, TypeOK
<1>3. Ended'
  BY <1>1 DEF IInv, Ended
<1>4. Past'
  <2>1. \A j \in Jobs : consumed[j] \in Nat /\ now \in Nat /\ now' \in Nat
    BY DEF IInv, TypeOK
  <2> QED BY <1>1, <2>1 DEF IInv, Past
<1>5. Memory'
  BY <1>1 DEF IInv, Memory, Unused, Kept, Regular, Later, Scheduled
<1>6. Disk'
  BY <1>1 DEF IInv, Disk, Unused, Kept, Regular
<1>7. FileFollows'
  BY <1>1 DEF IInv, FileFollows
<1> QED BY <1>2, <1>3, <1>4, <1>5, <1>6, <1>7 DEF IInv

\* The timer fires, a tick meets a batch, a run by hand is cancelled, the scheduler
\* closes, its batch is cancelled, time passes.
LEMMA QuietSteps ==
  ASSUME CronAssumption, IInv,
         \/ Fire \/ TickMeetsBatch \/ Close \/ BatchCancelled \/ Tick
         \/ \E j \in Jobs : HandRunCancelled(j)
  PROVE  IInv'
<1>1. /\ now \in 1 .. MaxTime /\ now <= now /\ timer \in Nat /\ None \in Nat /\ ticked \in BOOLEAN
      /\ stale \in BOOLEAN /\ detached \subseteq Jobs /\ unarmed \subseteq Jobs
      /\ runs \subseteq [job : Jobs, by : {"timer", "hand"}]
      /\ phase \in {"down", "up", "closing", "closed"}
  BY DEF IInv, TypeOK, CronAssumption, None
<1>2. OneBatch /\ AlarmIsSet /\ Ended
  BY DEF IInv
<1>3. CASE Fire
  <2>1. /\ timer' = None /\ ticked' = TRUE
        /\ UNCHANGED <<now, phase, batch, stale, runs, detached, unarmed>>
        /\ UNCHANGED <<store, history, bounds>>
    BY <1>3 DEF Fire
  <2>2. OneBatch' /\ AlarmIsSet'
    BY <1>2, <2>1 DEF OneBatch, AlarmIsSet, store
  <2> QED BY <1>1, <2>1, <2>2, QuietKeeps
<1>4. CASE TickMeetsBatch
  <2>1. /\ ticked' = FALSE /\ batch # NoBatch
        /\ UNCHANGED <<now, phase, timer, batch, stale, runs, detached, unarmed>>
        /\ UNCHANGED <<store, history, bounds>>
    BY <1>4 DEF TickMeetsBatch
  <2>2. OneBatch' /\ AlarmIsSet'
    BY <1>2, <2>1 DEF OneBatch, AlarmIsSet
  <2> QED BY <1>1, <2>1, <2>2, QuietKeeps
<1>5. CASE Close
  <2>1. /\ phase = "up" /\ phase' \in {"closed", "closing"} /\ timer' = None /\ unarmed' = {}
        /\ UNCHANGED <<now, ticked, batch, stale, runs, detached>>
        /\ UNCHANGED <<store, history, bounds>>
    BY <1>5 DEF Close
  <2>2. OneBatch' /\ AlarmIsSet'
    BY <1>2, <2>1 DEF OneBatch, AlarmIsSet
  <2> QED BY <1>1, <2>1, <2>2, QuietKeeps
<1>6. CASE BatchCancelled
  <2>1. /\ phase = "closing" /\ phase' = "closed" /\ ticked' = FALSE /\ batch' = NoBatch
        /\ stale' = FALSE
        /\ runs' = {r \in runs : r.by = "hand"}
        /\ detached' \subseteq detached
        /\ UNCHANGED <<now, timer, unarmed>>
        /\ UNCHANGED <<store, history, bounds>>
    BY <1>6 DEF BatchCancelled
  <2>2. OneBatch' /\ AlarmIsSet'
    BY <2>1 DEF OneBatch, AlarmIsSet
  <2>3. detached' \subseteq Jobs /\ runs' \subseteq [job : Jobs, by : {"timer", "hand"}]
    BY <1>1, <2>1
  <2> QED BY <1>1, <2>1, <2>2, <2>3, QuietKeeps
<1>7. CASE Tick
  <2>1. /\ now < MaxTime /\ now' = now + 1
        /\ UNCHANGED <<phase, timer, ticked, batch, stale, runs, detached, unarmed>>
        /\ UNCHANGED <<store, history, bounds>>
    BY <1>7 DEF Tick, task
  <2>2. OneBatch' /\ AlarmIsSet'
    BY <1>2, <2>1 DEF OneBatch, AlarmIsSet, store, Scheduled
  <2>3. now' \in 1 .. MaxTime /\ now <= now'
    BY <1>1, <2>1 DEF CronAssumption
  <2> QED BY <1>1, <2>1, <2>2, <2>3, QuietKeeps
<1>8. ASSUME NEW j \in Jobs, HandRunCancelled(j) PROVE IInv'
  <2>1. /\ runs # {} /\ runs' \subseteq runs /\ detached' \subseteq detached
        /\ UNCHANGED <<now, phase, timer, ticked, batch, stale, unarmed>>
        /\ UNCHANGED <<store, history, bounds>>
    BY <1>8 DEF HandRunCancelled
  <2>2. OneBatch' /\ AlarmIsSet'
    BY <1>2, <2>1 DEF OneBatch, AlarmIsSet, store, Scheduled
  <2>3. phase # "down"
    BY <1>2, <2>1 DEF Ended
  <2> QED BY <1>1, <2>1, <2>2, <2>3, QuietKeeps
<1> QED BY <1>3, <1>4, <1>5, <1>6, <1>7, <1>8

\* The store is read, and nothing is saved.
LEMMA ReloadKeeps ==
  ASSUME CronAssumption, IInv, phase # "down", NEW unread \in BOOLEAN, Reload(unread),
         UNCHANGED <<now, phase, timer, ticked, batch, bounds>>,
         runs' \subseteq [job : Jobs, by : {"timer", "hand"}], OneBatch'
  PROVE  IInv'
<1>1. unread => changed
  BY DEF Reload
<1>2. PICK m \in Stores :
        /\ m = Loaded(unread)
        /\ ~changed => m = mem
        /\ \A j \in Jobs : j \in fresh => m[j] = Absent
        /\ \A j \in Jobs : j \notin Owed(unread) => OnGrid(j, m[j], anchor[j])
        /\ \A j \in Jobs : j \notin Owed(unread) /\ j \notin fresh => Promised(j, m[j])
  BY <1>1, LoadedFacts
<1>3. mem' = m
  BY <1>2 DEF Reload
<1>4. /\ stale' = BatchIsStale /\ detached' = DetachedNow /\ over' = Owed(unread)
      /\ consumed' = Recalled(m) /\ unarmed' = Moved(m)
      /\ UNCHANGED <<file, changed, unsaved, fresh, anchor, mishaps, stops>>
  BY <1>3 DEF Reload, bounds
<1>5. /\ over \subseteq Owed(unread) /\ Owed(unread) \subseteq Jobs /\ Moved(m) \subseteq Jobs
      /\ DetachedNow \subseteq Jobs /\ BatchIsStale \in BOOLEAN
  BY SetFacts
<1>6. /\ consumed' \in [Jobs -> Nat]
      /\ \A j \in Jobs : consumed'[j] <= now /\ (j \in fresh => consumed'[j] = None)
      /\ \A j \in Scheduled(m) : m[j].next > consumed'[j]
  BY <1>4, RecalledFacts
<1>7. TypeOK'
  BY <1>3, <1>4, <1>5, <1>6 DEF IInv, TypeOK, Stores
<1>8. Ended' /\ Past'
  BY <1>4, <1>6 DEF Ended, Past
<1>9. Memory'
  <2>1. Kept(m)' /\ Unused(m)' /\ Regular(m)'
    BY <1>2, <1>4 DEF Kept, Unused, Regular
  <2>2. Later(m)'
    BY <1>6 DEF Later, Scheduled
  <2> QED BY <1>3, <2>1, <2>2 DEF Memory, Kept, Unused, Regular, Later, Scheduled
<1>10. Disk'
  BY <1>4, <1>5 DEF IInv, Disk, Kept, Unused, Regular
<1>11. AlarmIsSet'
  BY <1>3, <1>4, KeptAlarm
<1>12. FileFollows'
  BY <1>2, <1>3, <1>4 DEF IInv, FileFollows
<1> QED BY <1>7, <1>8, <1>9, <1>10, <1>11, <1>12 DEF IInv

LEMMA ReloadSteps ==
  ASSUME CronAssumption, IInv, List \/ \E j \in Jobs : RunByHand(j)
  PROVE  IInv'
<1>1. CASE List
  <2>1. PICK unread \in BOOLEAN :
          /\ phase # "down" /\ Reload(unread)
          /\ UNCHANGED <<now, phase, timer, ticked, batch, runs, bounds>>
    BY <1>1 DEF List, Alive
  <2>2. OneBatch' /\ runs' \subseteq [job : Jobs, by : {"timer", "hand"}]
    BY <2>1 DEF IInv, TypeOK, OneBatch
  <2> QED BY <2>1, <2>2, ReloadKeeps
<1>2. ASSUME NEW j \in Jobs, RunByHand(j) PROVE IInv'
  <2>1. /\ phase # "down" /\ Reload(FALSE)
        /\ runs' = runs \cup {[job |-> j, by |-> "hand"]}
        /\ UNCHANGED <<now, phase, timer, ticked, batch, bounds>>
    BY <1>2 DEF RunByHand
  <2>2. OneBatch' /\ runs' \subseteq [job : Jobs, by : {"timer", "hand"}]
    BY <2>1 DEF IInv, TypeOK, OneBatch
  <2> QED BY <2>1, <2>2, ReloadKeeps
<1> QED BY <1>1, <1>2

\* A process that is down remembers no job.
LEMMA NothingIsRemembered ==
  ASSUME phase' = "down", \A j \in Jobs : mem'[j] = Absent
  PROVE  Memory'
<1>1. Unused(mem)'
  BY DEF Unused
<1>2. Regular(mem)'
  BY DEF Regular, OnGrid
<1>3. Later(mem)'
  BY DEF Later, Scheduled
<1> QED BY <1>1, <1>2, <1>3 DEF Memory

\* The process ends.
LEMMA ExitKeeps ==
  ASSUME CronAssumption, IInv, Exit
  PROVE  IInv'
<1>1. /\ phase' = "down" /\ mem' = Empty /\ changed' = FALSE
      /\ timer' = None /\ ticked' = FALSE /\ batch' = NoBatch /\ stale' = FALSE
      /\ runs' = {} /\ detached' = {} /\ consumed' = [j \in Jobs |-> None]
      /\ unsaved' = FALSE /\ unarmed' = {}
      /\ stops' \in 0 .. MaxStops
      /\ UNCHANGED <<now, file, fresh, over, anchor, mishaps>>
  BY DEF Exit, IInv, TypeOK, CronAssumption
<1>2. Empty \in Stores /\ \A j \in Jobs : Empty[j] = Absent
  BY DEF Empty, Stores
<1>3. TypeOK'
  BY <1>1, <1>2 DEF IInv, TypeOK, None, Stores
<1>4. OneBatch' /\ Ended' /\ AlarmIsSet' /\ FileFollows'
  BY <1>1 DEF OneBatch, Ended, AlarmIsSet, FileFollows
<1>5. Past'
  BY <1>1 DEF IInv, TypeOK, Past, None
<1>6. Memory'
  <2>1. \A j \in Jobs : mem'[j] = Absent
    BY <1>1, <1>2
  <2> QED BY <1>1, <2>1, NothingIsRemembered
<1>7. Disk'
  BY <1>1 DEF IInv, Disk, Unused, Kept, Regular
<1> QED BY <1>3, <1>4, <1>5, <1>6, <1>7 DEF IInv

\* A person edits the file.
LEMMA EditKeeps ==
  ASSUME CronAssumption, IInv, NEW j \in Jobs, Edit(j)
  PROVE  IInv'
<1>1. PICK v : v = [file[j] EXCEPT !.on = ~@]
  OBVIOUS
<1>2. /\ Mishap(TRUE) /\ phase # "down" /\ file[j] # Absent
      /\ file' = [file EXCEPT ![j] = v]
      /\ changed' = TRUE /\ over' = over \cup {j}
      /\ UNCHANGED <<now, phase, mem, unsaved, task, unarmed, fresh, consumed, anchor, stops>>
  BY <1>1 DEF Edit, Alive
<1>3. v \in Job
  BY <1>1, <1>2 DEF IInv, TypeOK, Job
<1>4. file' \in Stores /\ \A q \in Jobs : file'[q] = IF q = j THEN v ELSE file[q]
  BY <1>2, <1>3 DEF IInv, TypeOK, Stores
<1>5. mishaps' \in 0 .. MaxMishaps
  BY <1>2, MishapFacts DEF IInv, TypeOK
<1>6. TypeOK'
  BY <1>2, <1>4, <1>5 DEF IInv, TypeOK, task, Stores
<1>7. OneBatch' /\ Ended' /\ AlarmIsSet' /\ FileFollows'
  BY <1>2 DEF IInv, OneBatch, Ended, AlarmIsSet, FileFollows, task, Scheduled
<1>8. Past' /\ Memory'
  BY <1>2 DEF IInv, Past, Memory, Unused, Kept, Regular, Later, Scheduled
<1>9. Disk'
  <2>1. j \notin fresh
    BY <1>2 DEF IInv, Disk, Unused
  <2> QED BY <1>2, <1>4, <2>1 DEF IInv, Disk, Unused, Kept, Regular
<1> QED BY <1>6, <1>7, <1>8, <1>9 DEF IInv

\* start() schedules anew what has no time to keep, and writes it.
LEMMA RewriteFacts ==
  ASSUME CronAssumption, IInv, NEW unread \in BOOLEAN, Rewrite(unread), fresh' = fresh
  PROVE  /\ over' \subseteq Jobs /\ anchor' \in [Jobs -> Nat]
         /\ \E m \in Stores : file' = m /\ Unused(m)' /\ Kept(m)' /\ Regular(m)'
<1> DEFINE keeps(e) == e = Absent \/ ~e.on \/ (e.kind = "every" /\ e.next # None)
<1>1. /\ file \in Stores /\ now \in Nat /\ anchor \in [Jobs -> Nat] /\ Empty \in Stores
      /\ Unused(file) /\ Kept(file) /\ Regular(file)
  BY DEF IInv, TypeOK, Stores, Disk, Empty
<1>2. PICK f \in Stores : f = IF unread THEN Empty ELSE file
  BY <1>1
<1>3. PICK m : m = Recomputed(f)
  OBVIOUS
<1>4. /\ file' = m /\ over' = Owed(unread)
      /\ anchor' = [j \in Jobs |-> IF f[j] # m[j] THEN Phase(j, m[j].kind, m[j].next) ELSE anchor[j]]
  BY <1>2, <1>3 DEF Rewrite
<1>5. ASSUME NEW j \in Jobs
      PROVE  \/ m[j] = f[j] /\ keeps(f[j])
             \/ /\ f[j] # Absent /\ m[j] \in Job /\ m[j].kind = f[j].kind /\ m[j].on /\ f[j].on
                /\ m[j].next # None /\ m[j].next \in Nat
                /\ m[j].kind \in OneShot => m[j].next = At[j]
  <2>1. m[j] = IF keeps(f[j]) THEN f[j] ELSE [f[j] EXCEPT !.next = FirstRun(j, f[j].kind)]
    BY <1>3 DEF Recomputed
  <2>2. CASE keeps(f[j])
    BY <2>1, <2>2
  <2>3. CASE ~keeps(f[j])
    <3>1. PICK e \in Job : e = f[j]
      BY <2>3 DEF Stores
    <3>2. PICK first \in Nat \ {0} :
            first = FirstRun(j, e.kind) /\ (e.kind \in OneShot => first = At[j])
      BY <1>1, <3>1, FirstRunFacts DEF Job
    <3>3. m[j] = [e EXCEPT !.next = first]
      BY <2>1, <2>3, <3>1, <3>2
    <3>4. m[j] \in Job /\ m[j].kind = e.kind /\ m[j].on = e.on /\ m[j].next = first
      BY <3>3 DEF Job
    <3> QED BY <2>3, <3>1, <3>2, <3>4 DEF None
  <2> QED BY <2>2, <2>3
<1>6. m \in Stores
  <2>1. \A j \in Jobs : m[j] \in Job \cup {Absent}
    BY <1>5 DEF Stores
  <2>2. m = [j \in Jobs |-> m[j]]
    BY <1>3 DEF Recomputed
  <2> QED BY <2>1, <2>2 DEF Stores
<1>7. anchor' \in [Jobs -> Nat]
  <2>1. ASSUME NEW j \in Jobs, f[j] # m[j] PROVE Phase(j, m[j].kind, m[j].next) \in Nat
    <3>1. m[j].next \in Nat
      BY <1>5, <2>1
    <3> QED BY <3>1, PhaseFacts
  <2> QED BY <1>1, <1>4, <2>1
<1>8. ASSUME NEW j \in Jobs
      PROVE  /\ j \in fresh => f[j] = Absent
             /\ j \notin over' => OnGrid(j, f[j], anchor[j])
             /\ j \notin over' /\ j \notin fresh => Promised(j, f[j])
  <2>1. CASE unread
    <3>1. f[j] = Absent
      BY <1>2, <2>1 DEF Empty
    <3>2. j \notin over' => j \in fresh
      BY <1>1, <1>4, <2>1 DEF Owed, Kept, Promised
    <3> QED BY <3>1, <3>2 DEF OnGrid
  <2>2. CASE ~unread
    <3>1. f = file /\ over' = over
      BY <1>2, <1>4, <2>2 DEF Owed
    <3> QED BY <1>1, <3>1 DEF Unused, Regular, Kept
  <2> QED BY <2>1, <2>2
<1>9. Unused(m)'
  BY <1>5, <1>8 DEF Unused, IInv, TypeOK
<1>10. Kept(m)'
  <2>1. ASSUME NEW j \in Jobs, j \notin over', j \notin fresh PROVE Promised(j, m[j])
    <3>1. Promised(j, f[j])
      BY <1>8, <2>1
    <3>2. m[j] \in Job => m[j] # Absent
      BY DEF Job, Absent, Kind
    <3> QED BY <1>5, <3>1, <3>2 DEF Promised
  <2> QED BY <2>1 DEF Kept
<1>11. Regular(m)'
  <2>1. ASSUME NEW j \in Jobs, j \notin over' PROVE OnGrid(j, m[j], anchor'[j])
    <3>1. CASE f[j] # m[j]
      BY <1>4, <1>5, <3>1 DEF OnGrid
    <3>2. CASE f[j] = m[j]
      BY <1>4, <1>8, <2>1, <3>2
    <3> QED BY <3>1, <3>2
  <2> QED BY <2>1 DEF Regular
<1>12. over' \subseteq Jobs
  BY <1>4, SetFacts
<1> QED BY <1>4, <1>6, <1>7, <1>9, <1>10, <1>11, <1>12

\* The scheduler starts.
LEMMA StartKeeps ==
  ASSUME CronAssumption, IInv, Start
  PROVE  IInv'
<1>1. PICK unread \in BOOLEAN :
        /\ phase = "down" /\ phase' = "up"
        /\ Rewrite(unread)
        /\ mem' = file' /\ timer' = NextWake(file')
        /\ unsaved' = FALSE /\ unarmed' = {} /\ changed' = FALSE
        /\ UNCHANGED <<now, ticked, batch, stale, runs, detached, fresh, consumed, bounds>>
  BY DEF Start
<1>2. /\ over' \subseteq Jobs /\ anchor' \in [Jobs -> Nat]
      /\ \E m \in Stores : file' = m /\ Unused(m)' /\ Kept(m)' /\ Regular(m)'
  BY <1>1, RewriteFacts
<1>3. PICK m \in Stores : file' = m /\ Unused(m)' /\ Kept(m)' /\ Regular(m)'
  BY <1>2
<1>4. /\ NextWake(m) \in Nat
      /\ \A j \in Scheduled(m) : NextWake(m) # None /\ NextWake(m) <= m[j].next
  BY WakeFacts
<1>5. TypeOK'
  BY <1>1, <1>2, <1>3, <1>4 DEF IInv, TypeOK, Stores, bounds
<1>6. OneBatch' /\ Ended' /\ Past'
  BY <1>1 DEF IInv, OneBatch, Ended, Past
<1>7. AlarmIsSet' /\ FileFollows'
  <2>1. Scheduled(mem)' = Scheduled(m) /\ mem' = m /\ timer' = NextWake(m)
    BY <1>1, <1>3 DEF Scheduled
  <2> QED BY <1>1, <1>3, <1>4, <2>1 DEF AlarmIsSet, FileFollows
<1>8. ASSUME NEW j \in Scheduled(m) PROVE m[j].next > consumed'[j]
  <2>1. m[j].next \in Nat \ {0} /\ j \in Jobs
    BY DEF Scheduled, Stores, Job, None
  <2>2. consumed'[j] = None
    BY <1>1, <2>1 DEF IInv, Ended
  <2> QED BY <2>1, <2>2 DEF None
<1>9. Memory' /\ Disk'
  <2>1. Later(m)'
    BY <1>8 DEF Later, Scheduled
  <2> QED BY <1>1, <1>3, <2>1 DEF Memory, Disk, Unused, Kept, Regular, Later, Scheduled
<1> QED BY <1>5, <1>6, <1>7, <1>9 DEF IInv

\* The scheduler does not start, but the file is written.
LEMMA StartFailsKeeps ==
  ASSUME CronAssumption, IInv, StartFails
  PROVE  IInv'
<1>1. PICK unread \in BOOLEAN :
        /\ phase = "down" /\ Mishap(TRUE)
        /\ Rewrite(unread)
        /\ UNCHANGED <<now, phase, mem, changed, unsaved, task, unarmed, fresh, consumed, stops>>
  BY DEF StartFails
<1>2. /\ over' \subseteq Jobs /\ anchor' \in [Jobs -> Nat]
      /\ \E m \in Stores : file' = m /\ Unused(m)' /\ Kept(m)' /\ Regular(m)'
  BY <1>1, RewriteFacts
<1>3. PICK m \in Stores : file' = m /\ Unused(m)' /\ Kept(m)' /\ Regular(m)'
  BY <1>2
<1>4. mishaps' \in 0 .. MaxMishaps
  BY <1>1, MishapFacts DEF IInv, TypeOK
<1>5. TypeOK'
  BY <1>1, <1>2, <1>3, <1>4 DEF IInv, TypeOK, Stores, task
<1>6. OneBatch' /\ Ended' /\ Past' /\ AlarmIsSet' /\ FileFollows'
  BY <1>1 DEF IInv, OneBatch, Ended, Past, AlarmIsSet, FileFollows, task
<1>7. \A j \in Jobs : mem'[j] = Absent
  BY <1>1 DEF IInv, Ended, Empty
<1>8. Memory'
  BY <1>1, <1>7, NothingIsRemembered
<1>9. Disk'
  BY <1>3 DEF Disk, Unused, Kept, Regular
<1> QED BY <1>5, <1>6, <1>8, <1>9 DEF IInv

-----------------------------------------------------------------------------
(* The theorems.                                                            *)

LEMMA InitIInv ==
  ASSUME CronAssumption, Init
  PROVE  IInv
<1> USE DEF Init, None
<1>1. Empty \in Stores /\ \A j \in Jobs : Empty[j] = Absent
  BY DEF Empty, Stores
<1>2. TypeOK
  <2>1. now \in 1 .. MaxTime /\ mishaps \in 0 .. MaxMishaps /\ stops \in 0 .. MaxStops
    BY DEF CronAssumption
  <2>2. file \in Stores /\ mem \in Stores
    BY <1>1
  <2>3. /\ batch = NoBatch /\ runs = {} /\ detached = {} /\ fresh = Jobs /\ over = {}
        /\ unarmed = {}
    OBVIOUS
  <2>4. timer \in Nat /\ consumed \in [Jobs -> Nat] /\ anchor \in [Jobs -> Nat]
    OBVIOUS
  <2> QED BY <2>1, <2>2, <2>3, <2>4 DEF TypeOK, Stores
<1>3. OneBatch /\ Ended /\ AlarmIsSet /\ FileFollows
  BY DEF OneBatch, Ended, AlarmIsSet, FileFollows
<1>4. Past
  BY DEF Past
<1>5. Memory /\ Disk
  BY <1>1 DEF Memory, Disk, Unused, Kept, Regular, OnGrid, Later, Scheduled
<1> QED BY <1>2, <1>3, <1>4, <1>5 DEF IInv

LEMMA NextIInv ==
  ASSUME CronAssumption, IInv, [Next]_vars
  PROVE  IInv'
<1>1. CASE Start \/ StartFails
  BY <1>1, StartKeeps, StartFailsKeeps
<1>2. CASE OnTimer
  BY <1>2, OnTimerKeeps
<1>3. CASE Exit
  BY <1>3, ExitKeeps
<1>4. CASE Fire \/ TickMeetsBatch \/ Close \/ BatchCancelled \/ Tick
  BY <1>4, QuietSteps
<1>5. CASE List
  BY <1>5, ReloadSteps
<1>6. ASSUME NEW j \in Jobs,
             TimedRunEnds(j) \/ HandRunEnds(j) \/ HandRunCancelled(j) \/ RunByHand(j)
      PROVE  IInv'
  BY <1>6, TimedRunEndsKeeps, HandRunEndsKeeps, QuietSteps, ReloadSteps
<1>7. ASSUME NEW j \in Jobs, RemoveJob(j) \/ Edit(j)
      PROVE  IInv'
  BY <1>7, RemoveJobKeeps, EditKeeps
<1>8. ASSUME NEW j \in Jobs, NEW kind \in Kinds[j], AddJob(j, kind)
      PROVE  IInv'
  <2>1. kind \in Kind
    BY DEF CronAssumption
  <2> QED BY <1>8, <2>1, AddJobKeeps
<1>9. ASSUME NEW j \in Jobs, NEW on \in BOOLEAN, Enable(j, on)
      PROVE  IInv'
  BY <1>9, EnableKeeps
<1>10. CASE UNCHANGED vars
  BY <1>10 DEF vars, store, task, history, bounds,
               IInv, TypeOK, OneBatch, Ended, Past, Memory, Disk, AlarmIsSet, FileFollows,
               Kept, Regular, Later, Unused, Scheduled
<1> QED BY <1>1, <1>2, <1>3, <1>4, <1>5, <1>6, <1>7, <1>8, <1>9, <1>10 DEF Next

\* The inductive invariant holds of every behaviour.
THEOREM AlwaysIInv == Spec => []IInv
<1>1. Init => IInv
  BY InitIInv, CronAssumption
<1>2. IInv /\ [Next]_vars => IInv'
  BY NextIInv, CronAssumption
<1> QED BY <1>1, <1>2, PTL DEF Spec

\* While the scheduler runs, something looks at each job in time, but for those that an
\* operation changed without arming the timer; outside a batch the file holds what the
\* memory holds, unless the last save failed or the file was modified since.
THEOREM SchedulerIsAwake == Spec => []CronInv
<1>1. IInv => CronInv
  BY DEF IInv, CronInv
<1> QED BY <1>1, AlwaysIInv, PTL

\* Whatever saves fail: no acknowledged job is lost but by a file that cannot be read; no
\* due time is lost, moved off its grid or used twice.
THEOREM NoDueTimeIsLost == Spec => []DuesAreKept
<1>1. IInv => CadenceKept
  BY DEF IInv, Disk, Regular, OnGrid, CadenceKept, Scheduled
<1>2. IInv => ConsumedDuesAreOver
  BY DEF IInv, Memory, Later, ConsumedDuesAreOver
<1>3. IInv => JobsAreKept
  BY DEF IInv, Disk, Kept, Promised, JobsAreKept
<1>4. IInv => DuesAreKept
  BY <1>1, <1>2, <1>3 DEF DuesAreKept
<1> QED BY <1>4, AlwaysIInv, PTL

=============================================================================
