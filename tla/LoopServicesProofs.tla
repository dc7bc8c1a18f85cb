------------------------- MODULE LoopServicesProofs -------------------------
(***************************************************************************)
(* What the agent loop relies on, for every value of the constants: the bus   *)
(* that brings its messages (MessageBus), and the session objects by which     *)
(* its turns are stored (SessionWriters).  The two share no state; each has    *)
(* its inductive invariant, IInv and WritersIInv.                             *)
(***************************************************************************)
EXTENDS MessageBus, SessionWriters, FiniteSetTheorems, SequenceTheorems, WellFoundedInduction, TLAPS

-----------------------------------------------------------------------------
(***************************************************************************)
(* For any messages, sessions, priorities and capacities, and however      *)
(* publish calls, consumers, drains and the close of the bus interleave:   *)
(* the limits hold, the verdicts are final, the counters are exact, and a  *)
(* message never overtakes one its publisher had waited for.               *)
(*                                                                         *)
(* The invariant follows a message from its publish call to its fate       *)
(* (Calls), a get task from the lane to its consumer (GetTasks), and the   *)
(* sequence numbers (Numbered).  Ahead is what LedgerOrder needs: a get    *)
(* task never holds a message while one that goes before it is queued.     *)
(***************************************************************************)

Published == {m \in Messages : publisher[m] \notin {"absent", "idle"}}

\* What the state of a publish call says of its put task and its message.
Calls ==
  \A m \in Messages :
    /\ publisher[m] \in {"absent", "idle", "refused", "cancelled"} =>
         putTask[m] = "none" /\ fate[m] = "none"
    /\ publisher[m] = "waiting" => putTask[m] # "none"
    /\ putTask[m] = "running" => publisher[m] = "waiting" /\ fate[m] = "none"
    /\ putTask[m] = "done" => fate[m] # "none"
    /\ publisher[m] \in {"accepted", "misled"} => fate[m] # "none"

\* A get task holds one message at most, for a consumer that waits.
GetTasks ==
  /\ \A m \in Messages : fate[m] = "held" =>
       Lane[m] \in InputLanes /\ reader[ReaderOf(Lane[m])] = "waiting"
  /\ \A m, n \in Messages :
       fate[m] = "held" /\ fate[n] = "held" /\ Lane[m] = Lane[n] => m = n

\* A message is lost by the stopped loop's get task only, and by it once.
Losses ==
  /\ orphan => reader["loop"] = "stopped" /\ \A m \in Messages : fate[m] # "lost"
  /\ \A m \in Messages : fate[m] = "lost" => reader["loop"] = "stopped"
  /\ \A m, n \in Messages : fate[m] = "lost" /\ fate[n] = "lost" => m = n

\* Every publish call draws one sequence number, later ones larger ones.
Numbered ==
  /\ \A i, j \in DOMAIN order : order[i] = order[j] => i = j
  /\ \A m \in Messages : m \in Published <=> \E i \in DOMAIN order : order[i] = m

EarlierCameFirst ==
  \A m \in Messages : \A n \in earlier[m] :
    /\ m \in Published
    /\ publisher[n] = "accepted"
    /\ Lane[n] = Lane[m]
    /\ Sequence(n) < Sequence(m)

\* Nothing a held message has to follow is still on its way.
Ahead ==
  \A m \in Messages : fate[m] = "held" =>
    \A n \in earlier[m] : Priority[n] <= Priority[m] => fate[n] \notin {"queued", "held"}

IInv ==
  /\ TypeOK
  /\ Calls
  /\ GetTasks
  /\ Losses
  /\ Numbered
  /\ EarlierCameFirst
  /\ Ahead
  /\ LanesAreBounded
  /\ PendingIsExact

-----------------------------------------------------------------------------
(* The priority queue.                                                     *)

\* A finite set with a strict total order has a least element: one with the
\* smallest set of elements below it.
LEMMA LeastExists ==
  ASSUME NEW T, IsFiniteSet(T), T # {}, NEW R,
         \A m \in T : <<m, m>> \notin R,
         \A m, n \in T : m # n => <<m, n>> \in R \/ <<n, m>> \in R,
         \A k, m, n \in T : <<k, m>> \in R /\ <<m, n>> \in R => <<k, n>> \in R
  PROVE  \E m \in T : \A n \in T \ {m} : <<m, n>> \in R
<1> DEFINE below(m) == {n \in T : <<n, m>> \in R}
           B == {below(m) : m \in T}
<1>1. IsWellFoundedOn(StrictSubsetOrdering(T), SUBSET T)
  BY FS_StrictSubsetOrderingWellFounded, FS_FiniteSubsetsOfFinite
<1>2. PICK b \in B : \A c \in B : <<c, b>> \notin StrictSubsetOrdering(T)
  <2>1. B \subseteq SUBSET T
    OBVIOUS
  <2>2. B # {}
    <3>1. PICK m \in T : TRUE
      OBVIOUS
    <3>2. below(m) \in B
      OBVIOUS
    <3> QED BY <3>2
  <2> HIDE DEF B
  <2> QED BY <1>1, <2>1, <2>2, WFMin
<1>3. PICK m \in T : b = below(m)
  OBVIOUS
<1>4. ASSUME NEW n \in T \ {m} PROVE <<m, n>> \in R
  <2> SUFFICES ASSUME <<n, m>> \in R PROVE FALSE
    OBVIOUS
  <2>1. below(n) \subseteq below(m) /\ n \in below(m) /\ n \notin below(n)
    OBVIOUS
  <2>2. <<below(n), b>> \in StrictSubsetOrdering(T)
    BY <1>3, <2>1 DEF StrictSubsetOrdering
  <2> QED BY <1>2, <2>2
<1> QED BY <1>4

\* A published message has one sequence number.
LEMMA SequenceNumber ==
  ASSUME TypeOK, Numbered, NEW m \in Published
  PROVE  /\ Sequence(m) \in DOMAIN order /\ order[Sequence(m)] = m
         /\ Sequence(m) \in Nat
         /\ \A i \in DOMAIN order : order[i] = m => i = Sequence(m)
<1>1. \E i \in DOMAIN order : order[i] = m
  BY DEF Numbered, Published
<1>2. DOMAIN order \subseteq Nat
  BY DEF TypeOK
<1> QED BY <1>1, <1>2 DEF Sequence, Numbered

\* The heap order is a strict total order of the published messages.
LEMMA HeapOrder ==
  ASSUME TypeOK, Numbered
  PROVE  /\ \A m \in Published : ~Before(m, m)
         /\ \A m, n \in Published : m # n => Before(m, n) \/ Before(n, m)
         /\ \A k, m, n \in Published : Before(k, m) /\ Before(m, n) => Before(k, n)
<1> DEFINE s(m) == Sequence(m)
<1>1. \A m \in Published : s(m) \in Nat /\ Priority[m] \in Nat
  BY SequenceNumber, BusAssumption DEF Published
<1>2. \A m, n \in Published : m # n => s(m) # s(n)
  BY SequenceNumber
<1> HIDE DEF s
<1>3. \A m, n \in Published : Before(m, n) <=> \/ Priority[m] < Priority[n]
                                               \/ Priority[m] = Priority[n] /\ s(m) < s(n)
  BY DEF Before, s
<1> QED BY <1>1, <1>2, <1>3

\* What is queued, held or lost was published.
LEMMA FateNeedsPublication ==
  ASSUME TypeOK, Calls, NEW m \in Messages, fate[m] # "none"
  PROVE  m \in Published
BY DEF TypeOK, Calls, Published

\* A lane has a size.
LEMMA QueueIsFinite ==
  ASSUME NEW l
  PROVE  IsFiniteSet(Queue(l)) /\ Cardinality(Queue(l)) \in Nat
<1>1. Queue(l) \in SUBSET Messages /\ IsFiniteSet(Messages)
  BY BusAssumption DEF Queue
<1> QED BY <1>1, FS_Subset, FS_CardinalityType

\* First() is what heappop returns: a queued message before all others.
LEMMA FirstIsFirst ==
  ASSUME TypeOK, Calls, Numbered, NEW l, Queue(l) # {}
  PROVE  /\ First(l) \in Queue(l)
         /\ \A n \in Queue(l) \ {First(l)} : Before(First(l), n)
<1> DEFINE Q == {p \in Messages \X Messages : Before(p[1], p[2])}
<1>1. Queue(l) \subseteq Published /\ Queue(l) \subseteq Messages
  BY FateNeedsPublication DEF Queue
<1>2. \A m, n \in Messages : <<m, n>> \in Q <=> Before(m, n)
  OBVIOUS
<1> HIDE DEF Q
<1>3. \E m \in Queue(l) : \A n \in Queue(l) \ {m} : <<m, n>> \in Q
  <2>1. \A m \in Queue(l) : <<m, m>> \notin Q
    BY <1>1, <1>2, HeapOrder
  <2>2. \A m, n \in Queue(l) : m # n => <<m, n>> \in Q \/ <<n, m>> \in Q
    BY <1>1, <1>2, HeapOrder
  <2>3. \A k, m, n \in Queue(l) : <<k, m>> \in Q /\ <<m, n>> \in Q => <<k, n>> \in Q
    BY <1>1, <1>2, HeapOrder
  <2> QED BY <2>1, <2>2, <2>3, QueueIsFinite, LeastExists
<1>4. \E m \in Queue(l) : \A n \in Queue(l) \ {m} : Before(m, n)
  BY <1>1, <1>2, <1>3
<1> QED BY <1>4 DEF First

\* Worst() is the queued message that all others are before.
LEMMA WorstIsLast ==
  ASSUME TypeOK, Calls, Numbered, NEW l, Queue(l) # {}
  PROVE  Worst(l) \in Queue(l)
<1> DEFINE Q == {p \in Messages \X Messages : Before(p[2], p[1])}
<1>1. Queue(l) \subseteq Published /\ Queue(l) \subseteq Messages
  BY FateNeedsPublication DEF Queue
<1>2. \A m, n \in Messages : <<m, n>> \in Q <=> Before(n, m)
  OBVIOUS
<1> HIDE DEF Q
<1>3. \E m \in Queue(l) : \A n \in Queue(l) \ {m} : <<m, n>> \in Q
  <2>1. \A m \in Queue(l) : <<m, m>> \notin Q
    BY <1>1, <1>2, HeapOrder
  <2>2. \A m, n \in Queue(l) : m # n => <<m, n>> \in Q \/ <<n, m>> \in Q
    BY <1>1, <1>2, HeapOrder
  <2>3. \A k, m, n \in Queue(l) : <<k, m>> \in Q /\ <<m, n>> \in Q => <<k, n>> \in Q
    BY <1>1, <1>2, HeapOrder
  <2> QED BY <2>1, <2>2, <2>3, QueueIsFinite, LeastExists
<1>4. \E m \in Queue(l) : \A n \in Queue(l) \ {m} : Before(n, m)
  BY <1>1, <1>2, <1>3
<1> QED BY <1>4 DEF Worst

\* A message that follows another in the heap is not before it.
LEMMA EarlierIsBefore ==
  ASSUME TypeOK, Calls, Numbered, EarlierCameFirst, NEW m \in Messages, NEW n \in earlier[m],
         Priority[n] <= Priority[m]
  PROVE  n \in Messages /\ n # m /\ ~Before(m, n)
<1>1. n \in Messages /\ m \in Published /\ n \in Published /\ Sequence(n) < Sequence(m)
  BY DEF TypeOK, EarlierCameFirst, Published
<1>2. Priority[n] \in Nat /\ Priority[m] \in Nat
  BY <1>1, BusAssumption
<1>3. Sequence(n) \in Nat /\ Sequence(m) \in Nat
  BY <1>1, SequenceNumber
<1> QED BY <1>1, <1>2, <1>3 DEF Before

-----------------------------------------------------------------------------
(* The counters.                                                           *)

Exact ==
  \A l \in InputLanes, s \in Sessions : pending[l][s] = Cardinality(OnTheWay(l, s))

\* A message that is counted.
Counted(m) == putTask[m] = "running" \/ fate[m] \in {"queued", "held", "lost"}

\* What the counters are exact about only depends on which messages count.
LEMMA OnTheWayIsCounted ==
  ASSUME NEW l, NEW s
  PROVE  /\ OnTheWay(l, s) = {m \in Messages : Lane[m] = l /\ Session[m] = s /\ Counted(m)}
         /\ IsFiniteSet(OnTheWay(l, s)) /\ Cardinality(OnTheWay(l, s)) \in Nat
<1>1. OnTheWay(l, s) = {m \in Messages : Lane[m] = l /\ Session[m] = s /\ Counted(m)}
  BY DEF OnTheWay, Counted
<1>2. OnTheWay(l, s) \in SUBSET Messages /\ IsFiniteSet(Messages)
  BY BusAssumption DEF OnTheWay
<1> QED BY <1>1, <1>2, FS_Subset, FS_CardinalityType

\* The same after a step.
LEMMA OnTheWayIsCountedNext ==
  ASSUME NEW l, NEW s
  PROVE  OnTheWay(l, s)' = {m \in Messages : Lane[m] = l /\ Session[m] = s /\ Counted(m)'}
BY DEF OnTheWay, Counted

\* A step that no counted message of a session takes part in.
LEMMA SameOnTheWay ==
  ASSUME NEW l, NEW s,
         \A n \in Messages : Lane[n] = l /\ Session[n] = s => (Counted(n)' <=> Counted(n))
  PROVE  OnTheWay(l, s)' = OnTheWay(l, s)
<1> QED BY OnTheWayIsCounted, OnTheWayIsCountedNext

\* The counters keep their type.
LEMMA PendingForms ==
  ASSUME TypeOK, NEW m \in Messages, NEW w \in Messages, Lane[w] = Lane[m]
  PROVE  /\ AddPending(m) \in [InputLanes -> [Sessions -> Nat]]
         /\ DropPending(m) \in [InputLanes -> [Sessions -> Nat]]
         /\ MovePending(w, m) \in [InputLanes -> [Sessions -> Nat]]
<1> USE BusAssumption DEF TypeOK
<1>0. Session[m] \in Sessions /\ Session[w] \in Sessions
  OBVIOUS
<1>1. AddPending(m) \in [InputLanes -> [Sessions -> Nat]]
  BY <1>0 DEF AddPending
<1>2. DropPending(m) \in [InputLanes -> [Sessions -> Nat]]
  BY <1>0 DEF DropPending
<1>3. MovePending(w, m) \in [InputLanes -> [Sessions -> Nat]]
  <2> DEFINE lane == Lane[m]
             first == [pending EXCEPT ![lane][Session[m]] = @ + 1]
             second == [first EXCEPT ![lane][Session[w]] = IF @ <= 1 THEN 0 ELSE @ - 1]
  <2>1. CASE Session[w] = Session[m] \/ lane \notin InputLanes
    BY <2>1 DEF MovePending
  <2>2. CASE Session[w] # Session[m] /\ lane \in InputLanes
    <3>1. first \in [InputLanes -> [Sessions -> Nat]]
      BY <1>0, <2>2
    <3>2. MovePending(w, m) = second
      BY <2>2 DEF MovePending
    <3> HIDE DEF first
    <3>3. second \in [InputLanes -> [Sessions -> Nat]]
      BY <1>0, <2>2, <3>1
    <3> QED BY <3>2, <3>3
  <2> QED BY <2>1, <2>2
<1> QED BY <1>1, <1>2, <1>3

\* The same messages count: the counters stay exact if they do not move.
LEMMA SameCount ==
  ASSUME Exact, UNCHANGED pending, \A n \in Messages : Counted(n)' <=> Counted(n)
  PROVE  Exact'
<1> SUFFICES ASSUME NEW l \in InputLanes, NEW s \in Sessions
             PROVE  pending'[l][s] = Cardinality(OnTheWay(l, s)')
  BY DEF Exact
<1>1. OnTheWay(l, s)' = OnTheWay(l, s)
  BY OnTheWayIsCounted, OnTheWayIsCountedNext
<1> QED BY <1>1 DEF Exact

\* One message more counts, and its counter goes up by one.
LEMMA OneMore ==
  ASSUME TypeOK, Exact, NEW m \in Messages, ~Counted(m), Counted(m)',
         \A n \in Messages \ {m} : Counted(n)' <=> Counted(n), pending' = AddPending(m)
  PROVE  Exact'
<1> SUFFICES ASSUME NEW l \in InputLanes, NEW s \in Sessions
             PROVE  pending'[l][s] = Cardinality(OnTheWay(l, s)')
  BY DEF Exact
<1>0. pending \in [InputLanes -> [Sessions -> Nat]] /\ Session[m] \in Sessions
  BY BusAssumption DEF TypeOK
<1>1. CASE Lane[m] = l /\ Session[m] = s
  <2>1. OnTheWay(l, s)' = OnTheWay(l, s) \cup {m} /\ m \notin OnTheWay(l, s)
    BY <1>1, OnTheWayIsCounted, OnTheWayIsCountedNext
  <2>2. Cardinality(OnTheWay(l, s)') = Cardinality(OnTheWay(l, s)) + 1
    BY <2>1, OnTheWayIsCounted, FS_AddElement
  <2>3. pending'[l][s] = pending[l][s] + 1
    BY <1>0, <1>1 DEF AddPending
  <2> QED BY <2>2, <2>3 DEF Exact
<1>2. CASE ~(Lane[m] = l /\ Session[m] = s)
  <2>1. \A n \in Messages : Lane[n] = l /\ Session[n] = s => (Counted(n)' <=> Counted(n))
    BY <1>2
  <2>2. OnTheWay(l, s)' = OnTheWay(l, s)
    BY <2>1, SameOnTheWay
  <2>3. pending'[l][s] = pending[l][s]
    BY <1>0, <1>2 DEF AddPending
  <2> QED BY <2>2, <2>3 DEF Exact
<1> QED BY <1>1, <1>2

\* One message less counts, and its counter goes down by one.
LEMMA OneLess ==
  ASSUME TypeOK, Exact, NEW m \in Messages, Counted(m), ~Counted(m)',
         \A n \in Messages \ {m} : Counted(n)' <=> Counted(n), pending' = DropPending(m)
  PROVE  Exact'
<1> SUFFICES ASSUME NEW l \in InputLanes, NEW s \in Sessions
             PROVE  pending'[l][s] = Cardinality(OnTheWay(l, s)')
  BY DEF Exact
<1>0. pending \in [InputLanes -> [Sessions -> Nat]] /\ Session[m] \in Sessions
  BY BusAssumption DEF TypeOK
<1>1. CASE Lane[m] = l /\ Session[m] = s
  <2>1. OnTheWay(l, s)' = OnTheWay(l, s) \ {m} /\ m \in OnTheWay(l, s)
    BY <1>1, OnTheWayIsCounted, OnTheWayIsCountedNext
  <2>2. /\ Cardinality(OnTheWay(l, s)') = Cardinality(OnTheWay(l, s)) - 1
        /\ Cardinality(OnTheWay(l, s)') \in Nat
    BY <2>1, OnTheWayIsCounted, FS_RemoveElement, FS_CardinalityType
  <2>3. pending'[l][s] = IF pending[l][s] <= 1 THEN 0 ELSE pending[l][s] - 1
    BY <1>0, <1>1 DEF DropPending
  <2>4. pending[l][s] = Cardinality(OnTheWay(l, s)) /\ pending[l][s] \in Nat
    BY <1>0 DEF Exact
  <2> QED BY <2>2, <2>3, <2>4
<1>2. CASE ~(Lane[m] = l /\ Session[m] = s)
  <2>1. \A n \in Messages : Lane[n] = l /\ Session[n] = s => (Counted(n)' <=> Counted(n))
    BY <1>2
  <2>2. OnTheWay(l, s)' = OnTheWay(l, s)
    BY <2>1, SameOnTheWay
  <2>3. pending'[l][s] = pending[l][s]
    BY <1>0, <1>2 DEF DropPending
  <2> QED BY <2>2, <2>3 DEF Exact
<1> QED BY <1>1, <1>2

\* A message takes the place of another one of its lane.
LEMMA OneForAnother ==
  ASSUME TypeOK, Exact, NEW m \in Messages, NEW w \in Messages \ {m}, Lane[w] = Lane[m],
         ~Counted(m), Counted(m)', Counted(w), ~Counted(w)',
         \A n \in Messages \ {m, w} : Counted(n)' <=> Counted(n), pending' = MovePending(w, m)
  PROVE  Exact'
<1> SUFFICES ASSUME NEW l \in InputLanes, NEW s \in Sessions
             PROVE  pending'[l][s] = Cardinality(OnTheWay(l, s)')
  BY DEF Exact
<1>0. /\ pending \in [InputLanes -> [Sessions -> Nat]] /\ Session[m] \in Sessions
      /\ Session[w] \in Sessions /\ pending[l][s] = Cardinality(OnTheWay(l, s))
      /\ pending[l][s] \in Nat
  BY BusAssumption DEF TypeOK, Exact
<1>1. CASE Lane[m] # l \/ s \notin {Session[m], Session[w]}
  <2>1. \A n \in Messages : Lane[n] = l /\ Session[n] = s => (Counted(n)' <=> Counted(n))
    BY <1>1
  <2>2. OnTheWay(l, s)' = OnTheWay(l, s)
    BY <2>1, SameOnTheWay
  <2>3. pending'[l][s] = pending[l][s]
    BY <1>0, <1>1 DEF MovePending
  <2> QED BY <1>0, <2>2, <2>3
<1>2. CASE Lane[m] = l /\ Session[m] = Session[w] /\ s = Session[m]
  <2>1. /\ OnTheWay(l, s)' = (OnTheWay(l, s) \ {w}) \cup {m}
        /\ w \in OnTheWay(l, s) /\ m \notin OnTheWay(l, s)
    BY <1>2, OnTheWayIsCounted, OnTheWayIsCountedNext
  <2>2. /\ IsFiniteSet(OnTheWay(l, s) \ {w})
        /\ Cardinality(OnTheWay(l, s) \ {w}) = Cardinality(OnTheWay(l, s)) - 1
    BY <2>1, OnTheWayIsCounted, FS_RemoveElement
  <2>3. Cardinality(OnTheWay(l, s)') = Cardinality(OnTheWay(l, s) \ {w}) + 1
    BY <2>1, <2>2, FS_AddElement
  <2>4. pending'[l][s] = pending[l][s]
    BY <1>2 DEF MovePending
  <2> QED BY <1>0, <2>2, <2>3, <2>4
<1>3. CASE Lane[m] = l /\ Session[m] # Session[w] /\ s = Session[m]
  <2>1. OnTheWay(l, s)' = OnTheWay(l, s) \cup {m} /\ m \notin OnTheWay(l, s)
    BY <1>3, OnTheWayIsCounted, OnTheWayIsCountedNext
  <2>2. Cardinality(OnTheWay(l, s)') = Cardinality(OnTheWay(l, s)) + 1
    BY <2>1, OnTheWayIsCounted, FS_AddElement
  <2>3. pending'[l][s] = pending[l][s] + 1
    BY <1>0, <1>3 DEF MovePending
  <2> QED BY <1>0, <2>2, <2>3
<1>4. CASE Lane[m] = l /\ Session[m] # Session[w] /\ s = Session[w]
  <2>1. OnTheWay(l, s)' = OnTheWay(l, s) \ {w} /\ w \in OnTheWay(l, s)
    BY <1>4, OnTheWayIsCounted, OnTheWayIsCountedNext
  <2>2. /\ Cardinality(OnTheWay(l, s)') = Cardinality(OnTheWay(l, s)) - 1
        /\ Cardinality(OnTheWay(l, s)') \in Nat
    BY <2>1, OnTheWayIsCounted, FS_RemoveElement, FS_CardinalityType
  <2>3. pending'[l][s] = IF pending[l][s] <= 1 THEN 0 ELSE pending[l][s] - 1
    BY <1>0, <1>4 DEF MovePending
  <2> QED BY <1>0, <2>2, <2>3
<1> QED BY <1>1, <1>2, <1>3, <1>4

\* A drain takes the drained messages of every session off its counter.
LEMMA ManyLess ==
  ASSUME TypeOK, Exact, NEW D \in SUBSET Messages,
         \A n \in D : Lane[n] = "inbound" /\ Counted(n) /\ ~Counted(n)',
         \A n \in Messages \ D : Counted(n)' <=> Counted(n),
         pending' = [pending EXCEPT !["inbound"] = [s \in Sessions |->
                       LET left == @[s] - Cardinality({m \in D : Session[m] = s})
                       IN IF left < 0 THEN 0 ELSE left]]
  PROVE  Exact' /\ pending' \in [InputLanes -> [Sessions -> Nat]]
<1> DEFINE gone(s) == {m \in D : Session[m] = s}
           left(s) == pending["inbound"][s] - Cardinality(gone(s))
<1>0. /\ pending \in [InputLanes -> [Sessions -> Nat]] /\ "inbound" \in InputLanes
      /\ IsFiniteSet(Messages)
  BY BusAssumption DEF TypeOK, InputLanes
<1>1. \A s \in Sessions : IsFiniteSet(gone(s)) /\ Cardinality(gone(s)) \in Nat
  BY <1>0, FS_Subset, FS_CardinalityType
<1>2. /\ \A s \in Sessions : pending'["inbound"][s] = IF left(s) < 0 THEN 0 ELSE left(s)
      /\ \A l \in InputLanes \ {"inbound"} : pending'[l] = pending[l]
  BY <1>0
<1>3. pending' \in [InputLanes -> [Sessions -> Nat]]
  <2>1. [s \in Sessions |-> IF left(s) < 0 THEN 0 ELSE left(s)] \in [Sessions -> Nat]
    <3>1. \A s \in Sessions : pending["inbound"][s] \in Nat
      BY <1>0
    <3> HIDE DEF gone
    <3>2. \A s \in Sessions : left(s) \in Int
      BY <1>1, <3>1
    <3> HIDE DEF left
    <3> QED BY <3>2
  <2>2. pending' = [pending EXCEPT !["inbound"] =
                      [s \in Sessions |-> IF left(s) < 0 THEN 0 ELSE left(s)]]
    OBVIOUS
  <2> QED BY <1>0, <2>1, <2>2
<1>4. ASSUME NEW l \in InputLanes, NEW s \in Sessions
      PROVE  pending'[l][s] = Cardinality(OnTheWay(l, s)')
  <2>1. CASE l = "inbound"
    <3>1. OnTheWay(l, s)' = OnTheWay(l, s) \ gone(s) /\ gone(s) \subseteq OnTheWay(l, s)
      BY <2>1, OnTheWayIsCounted, OnTheWayIsCountedNext
    <3>2. OnTheWay(l, s) \cap gone(s) = gone(s)
      BY <3>1
    <3>3. /\ Cardinality(OnTheWay(l, s)') = Cardinality(OnTheWay(l, s)) - Cardinality(gone(s))
          /\ Cardinality(OnTheWay(l, s)') \in Nat
      BY <3>1, <3>2, OnTheWayIsCounted, FS_Difference, FS_CardinalityType
    <3>4. left(s) = Cardinality(OnTheWay(l, s)')
      BY <2>1, <3>3 DEF Exact
    <3> QED BY <1>2, <2>1, <3>3, <3>4
  <2>2. CASE l # "inbound"
    <3>1. \A n \in Messages : Lane[n] = l /\ Session[n] = s => (Counted(n)' <=> Counted(n))
      BY <2>2
    <3>2. OnTheWay(l, s)' = OnTheWay(l, s)
      BY <3>1, SameOnTheWay
    <3> QED BY <1>2, <2>2, <3>2 DEF Exact
  <2> QED BY <2>1, <2>2
<1> QED BY <1>3, <1>4 DEF Exact

-----------------------------------------------------------------------------
(* What most steps keep.                                                   *)

\* Nobody begins or revokes a publish call: the sequence numbers stay.
LEMMA SameNumbers ==
  ASSUME Numbered, EarlierCameFirst, UNCHANGED <<order, earlier>>,
         \A m \in Messages : m \in Published' <=> m \in Published,
         \A m \in Messages : publisher[m] = "accepted" => publisher'[m] = "accepted",
         TypeOK
  PROVE  Numbered' /\ EarlierCameFirst'
<1>1. Published' = Published
  BY DEF Published
<1>2. \A m \in Messages : Sequence(m)' = Sequence(m)
  BY DEF Sequence
<1>3. Numbered'
  BY <1>1 DEF Numbered
<1>4. EarlierCameFirst'
  BY <1>1, <1>2 DEF EarlierCameFirst, TypeOK
<1> QED BY <1>3, <1>4

\* No lane grows.
LEMMA NoLaneGrows ==
  ASSUME LanesAreBounded, \A m \in Messages : fate'[m] = "queued" => fate[m] = "queued"
  PROVE  LanesAreBounded'
<1> SUFFICES ASSUME NEW l \in Lanes PROVE Cardinality(Queue(l)') <= Capacity[l]
  BY DEF LanesAreBounded
<1>1. Queue(l)' \in SUBSET Queue(l)
  BY DEF Queue
<1>2. Cardinality(Queue(l)') <= Cardinality(Queue(l)) /\ IsFiniteSet(Queue(l)')
  BY <1>1, QueueIsFinite, FS_Subset
<1>3. Cardinality(Queue(l)') \in Nat /\ Cardinality(Queue(l)) \in Nat /\ Capacity[l] \in Nat
  BY <1>2, FS_CardinalityType, QueueIsFinite, BusAssumption
<1> QED BY <1>2, <1>3 DEF LanesAreBounded

\* Nothing is queued or held that was not: what a get task holds stays ahead.
LEMMA NothingGetsAhead ==
  ASSUME Ahead, UNCHANGED earlier, earlier \in [Messages -> SUBSET Messages],
         \A m \in Messages : fate'[m] = "held" => fate[m] = "held",
         \A m \in Messages : fate'[m] \in {"queued", "held"} =>
           fate[m] \in {"queued", "held"}
  PROVE  Ahead'
BY DEF Ahead

\* A step that marks nobody as misled only has to keep the counters exact.
LEMMA ExactIsKept ==
  ASSUME PendingIsExact, \A m \in Messages : publisher[m] = "misled" => publisher'[m] = "misled",
         Exact => Exact'
  PROVE  PendingIsExact'
BY DEF PendingIsExact, Exact

\* A message begins: it gets the next number, and comes after all that its
\* publisher knows to be accepted.
LEMMA BeginNumbers ==
  ASSUME IInv, NEW m \in Messages, Begin(m), NEW state, state \notin {"absent", "idle"},
         publisher' = [publisher EXCEPT ![m] = state]
  PROVE  /\ order' \in Seq(Messages) /\ earlier' \in [Messages -> SUBSET Messages]
         /\ Numbered' /\ EarlierCameFirst'
         /\ \A n \in Messages \ {m} : earlier'[n] = earlier[n]
<1> USE DEF IInv, TypeOK
<1>0. /\ m \notin Published /\ Published' = Published \cup {m} /\ m \notin Accepted
      /\ \A n \in Messages \ {m} : publisher'[n] = publisher[n]
  BY DEF Begin, Published, Accepted
<1>1. /\ order' = Append(order, m) /\ order' \in Seq(Messages)
      /\ Len(order') = Len(order) + 1 /\ order'[Len(order) + 1] = m
      /\ \A i \in DOMAIN order : order'[i] = order[i]
      /\ DOMAIN order' = DOMAIN order \cup {Len(order) + 1}
      /\ \A i \in DOMAIN order : i < Len(order) + 1
      /\ Len(order) + 1 \notin DOMAIN order /\ DOMAIN order \subseteq Nat
  BY DEF Begin
<1>2. /\ earlier' \in [Messages -> SUBSET Messages]
      /\ earlier'[m] = {n \in Accepted : Lane[n] = Lane[m]}
      /\ \A n \in Messages \ {m} : earlier'[n] = earlier[n]
  BY DEF Begin, Accepted
<1>3. \A i \in DOMAIN order : order[i] # m
  BY <1>0 DEF Numbered
<1>4. Numbered'
  <2>1. \A i, j \in DOMAIN order' : order'[i] = order'[j] => i = j
    BY <1>1, <1>3 DEF Numbered
  <2>2. \A n \in Messages : n \in Published' <=> \E i \in DOMAIN order' : order'[i] = n
    BY <1>0, <1>1 DEF Numbered
  <2> QED BY <2>1, <2>2 DEF Numbered
<1>5. Sequence(m)' = Len(order) + 1
  BY <1>1, <1>3 DEF Sequence
<1>6. \A n \in Published : Sequence(n)' = Sequence(n)
  <2> SUFFICES ASSUME NEW n \in Published PROVE Sequence(n)' = Sequence(n)
    OBVIOUS
  <2>1. Sequence(n) \in DOMAIN order /\ order[Sequence(n)] = n
        /\ \A i \in DOMAIN order : order[i] = n => i = Sequence(n)
    BY SequenceNumber
  <2>2. n # m
    BY <1>0
  <2>3. \A i \in DOMAIN order' : order'[i] = n => i = Sequence(n)
    BY <1>1, <2>1, <2>2
  <2>4. Sequence(n) \in DOMAIN order' /\ order'[Sequence(n)] = n
    BY <1>1, <2>1
  <2>5. Sequence(n)' = CHOOSE i \in DOMAIN order' : order'[i] = n
    BY DEF Sequence
  <2> HIDE DEF TypeOK
  <2> QED BY <2>3, <2>4, <2>5
<1>7. EarlierCameFirst'
  <2> SUFFICES ASSUME NEW k \in Messages, NEW n \in earlier'[k]
               PROVE  /\ k \in Published' /\ publisher'[n] = "accepted" /\ Lane[n] = Lane[k]
                      /\ Sequence(n)' < Sequence(k)'
    BY DEF EarlierCameFirst
  <2>1. CASE k = m
    <3>1. n \in Accepted /\ Lane[n] = Lane[m] /\ n \in Messages /\ n # m
      BY <1>0, <1>2, <2>1 DEF Accepted
    <3>2. n \in Published /\ publisher'[n] = "accepted"
      BY <1>0, <3>1 DEF Accepted, Published
    <3>3. Sequence(n)' < Sequence(m)'
      BY <1>1, <1>5, <1>6, <3>2, SequenceNumber
    <3> QED BY <1>0, <2>1, <3>1, <3>2, <3>3
  <2>2. CASE k # m
    <3>1. n \in earlier[k] /\ k \in Published /\ publisher[n] = "accepted" /\ Lane[n] = Lane[k]
          /\ Sequence(n) < Sequence(k) /\ n \in Messages
      BY <1>2, <2>2 DEF EarlierCameFirst
    <3>2. n \in Published /\ n # m
      BY <1>0, <3>1 DEF Published
    <3> QED BY <1>0, <1>6, <3>1, <3>2
  <2> QED BY <2>1, <2>2
<1> QED BY <1>1, <1>2, <1>4, <1>7

-----------------------------------------------------------------------------
(* The steps.                                                              *)

\* A refused publish call leaves nothing behind.
LEMMA RefusalKeeps ==
  ASSUME IInv, NEW m \in Messages, Begin(m),
         publisher' = [publisher EXCEPT ![m] = "refused"],
         UNCHANGED <<putTask, fate, emptyEvent, notify, pending, reader, orphan, closed>>
  PROVE  IInv'
<1> USE DEF IInv, TypeOK
<1>1. \A n \in Messages : publisher'[n] = IF n = m THEN "refused" ELSE publisher[n]
  OBVIOUS
<1>2. publisher[m] = "idle"
  BY DEF Begin
<1>3. /\ order' \in Seq(Messages) /\ earlier' \in [Messages -> SUBSET Messages]
      /\ Numbered' /\ EarlierCameFirst'
      /\ \A n \in Messages \ {m} : earlier'[n] = earlier[n]
  BY BeginNumbers
<1>4. TypeOK'
  BY <1>3 DEF PublisherStates
<1>5. Calls'
  BY <1>1, <1>2 DEF Calls
<1>6. GetTasks' /\ Losses'
  BY DEF GetTasks, Losses
<1>7. Ahead'
  BY <1>2, <1>3 DEF Ahead, Calls
<1>8. LanesAreBounded'
  BY NoLaneGrows
<1>9. PendingIsExact'
  BY <1>1, <1>2, SameCount, ExactIsKept DEF Counted
<1> QED BY <1>3, <1>4, <1>5, <1>6, <1>7, <1>8, <1>9

\* A publish call that waits is counted before its put task runs.
LEMMA PublishWaitingKeeps ==
  ASSUME IInv, NEW m \in Messages, PublishWaiting(m)
  PROVE  IInv'
<1> USE DEF IInv, TypeOK
<1>1. /\ publisher' = [publisher EXCEPT ![m] = "waiting"]
      /\ putTask' = [putTask EXCEPT ![m] = "running"] /\ Begin(m)
      /\ UNCHANGED <<fate, emptyEvent, notify, reader, orphan, closed>>
      /\ pending' = AddPending(m) /\ publisher[m] = "idle"
  BY DEF PublishWaiting, Begin
<1>2. /\ \A n \in Messages : publisher'[n] = IF n = m THEN "waiting" ELSE publisher[n]
      /\ \A n \in Messages : putTask'[n] = IF n = m THEN "running" ELSE putTask[n]
  BY <1>1
<1>3. /\ order' \in Seq(Messages) /\ earlier' \in [Messages -> SUBSET Messages]
      /\ Numbered' /\ EarlierCameFirst'
      /\ \A n \in Messages \ {m} : earlier'[n] = earlier[n]
  BY <1>1, BeginNumbers
<1>4. TypeOK'
  BY <1>1, <1>3, PendingForms DEF PublisherStates
<1>5. Calls'
  BY <1>1, <1>2 DEF Calls
<1>6. GetTasks' /\ Losses'
  BY <1>1 DEF GetTasks, Losses
<1>7. Ahead'
  BY <1>1, <1>3 DEF Ahead, Calls
<1>8. LanesAreBounded'
  BY <1>1, NoLaneGrows
<1>9. PendingIsExact'
  <2>1. ~Counted(m) /\ Counted(m)' /\ \A n \in Messages \ {m} : Counted(n)' <=> Counted(n)
    BY <1>1, <1>2 DEF Counted, Calls
  <2> QED BY <1>1, <1>2, <2>1, OneMore, ExactIsKept
<1> QED BY <1>3, <1>4, <1>5, <1>6, <1>7, <1>8, <1>9

\* A control message goes into its lane, in place of the worst one if the lane
\* is full: the lane does not grow beyond its limit.
LEMMA PublishControlKeeps ==
  ASSUME IInv, NEW m \in Messages, PublishControl(m)
  PROVE  IInv'
<1> USE DEF IInv, TypeOK
<1> DEFINE lane == Lane[m]
           full == Full(lane)
           worst == Worst(lane)
<1>1. Begin(m) /\ publisher[m] = "idle" /\ lane \in Lanes
  BY BusAssumption DEF PublishControl, Begin
<1>2. CASE full /\ ~Displaces(m, worst)
  BY <1>1, <1>2, RefusalKeeps DEF PublishControl
<1>3. CASE ~(full /\ ~Displaces(m, worst))
  <2>0. PICK w : w = worst
    OBVIOUS
  <2> HIDE DEF worst
  <2>1. /\ publisher' = [publisher EXCEPT ![m] = "accepted"]
        /\ fate' = [n \in Messages |->
                      IF n = m THEN "queued"
                      ELSE IF full /\ n = w THEN "dropped" ELSE fate[n]]
        /\ pending' = IF full THEN MovePending(w, m) ELSE AddPending(m)
        /\ emptyEvent' = [emptyEvent EXCEPT ![lane] = FALSE]
        /\ notify' = Wake(lane)
        /\ UNCHANGED <<putTask, reader, orphan, closed>>
    BY <1>3, <2>0 DEF PublishControl, worst
  <2>2. full => w \in Queue(lane) /\ w \in Messages /\ fate[w] = "queued" /\ w # m
    <3> SUFFICES ASSUME full PROVE w \in Queue(lane) /\ w \in Messages
                                   /\ fate[w] = "queued" /\ w # m
      OBVIOUS
    <3>1. Cardinality(Queue(lane)) >= Capacity[lane] /\ Capacity[lane] \in Nat \ {0}
      BY <1>1, BusAssumption DEF Full
    <3>2. Queue(lane) # {}
      <4> SUFFICES ASSUME Queue(lane) = {} PROVE FALSE
        OBVIOUS
      <4>1. Cardinality(Queue(lane)) = 0
        BY FS_EmptySet
      <4> QED BY <3>1, <4>1
    <3>3. w \in Queue(lane)
      BY <2>0, <3>2, WorstIsLast DEF worst
    <3> QED BY <1>1, <3>3 DEF Queue, Calls
  <2>3. fate[m] = "none" /\ putTask[m] = "none"
    BY <1>1 DEF Calls
  <2>4. /\ \A n \in Messages : publisher'[n] = IF n = m THEN "accepted" ELSE publisher[n]
        /\ \A n \in Messages : fate'[n] = IF n = m THEN "queued"
                                 ELSE IF full /\ n = w THEN "dropped" ELSE fate[n]
    BY <2>1
  <2>5. /\ order' \in Seq(Messages) /\ earlier' \in [Messages -> SUBSET Messages]
        /\ Numbered' /\ EarlierCameFirst'
        /\ \A n \in Messages \ {m} : earlier'[n] = earlier[n]
    BY <1>1, <2>1, BeginNumbers
  <2>6. TypeOK'
    <3>1. pending' \in [InputLanes -> [Sessions -> Nat]]
      BY <2>1, <2>2, PendingForms DEF Queue
    <3>2. fate' \in [Messages -> Fates]
      BY <2>1 DEF Fates
    <3>3. notify' \in [OutputLanes -> BOOLEAN]
      BY <2>1 DEF Wake
    <3> HIDE DEF full
    <3> QED BY <2>1, <2>5, <3>1, <3>2, <3>3 DEF PublisherStates
  <2> HIDE DEF full
  <2>7. Calls'
    BY <1>1, <2>1, <2>2, <2>4 DEF Calls
  <2>8. GetTasks' /\ Losses'
    BY <2>1, <2>4 DEF GetTasks, Losses
  <2>9. Ahead'
    <3> SUFFICES ASSUME NEW k \in Messages, fate'[k] = "held", NEW n \in earlier'[k],
                        Priority[n] <= Priority[k]
                 PROVE  fate'[n] \notin {"queued", "held"}
      BY DEF Ahead
    <3>1. k # m /\ fate[k] = "held" /\ n \in earlier[k]
      BY <2>4, <2>5
    <3>2. n \in Messages /\ publisher[n] = "accepted" /\ n # m
      BY <1>1, <3>1 DEF EarlierCameFirst
    <3> QED BY <2>4, <3>1, <3>2 DEF Ahead
  <2>10. LanesAreBounded'
    <3> SUFFICES ASSUME NEW l \in Lanes PROVE Cardinality(Queue(l)') <= Capacity[l]
      BY DEF LanesAreBounded
    <3>1. /\ Cardinality(Queue(l)) <= Capacity[l] /\ Cardinality(Queue(l)) \in Nat
          /\ IsFiniteSet(Queue(l)) /\ Capacity[l] \in Nat
      BY QueueIsFinite, BusAssumption DEF LanesAreBounded
    <3>2. CASE l # lane
      <4>1. Queue(l)' = Queue(l)
        BY <2>2, <2>3, <2>4, <3>2 DEF Queue
      <4> QED BY <3>1, <4>1
    <3>3. CASE l = lane /\ full
      <4>1. Queue(l)' = (Queue(l) \ {w}) \cup {m} /\ w \in Queue(l) /\ m \notin Queue(l)
        BY <2>2, <2>3, <2>4, <3>3 DEF Queue
      <4>2. /\ IsFiniteSet(Queue(l) \ {w})
            /\ Cardinality(Queue(l) \ {w}) = Cardinality(Queue(l)) - 1
        BY <3>1, <4>1, FS_RemoveElement
      <4>3. Cardinality(Queue(l)') = Cardinality(Queue(l) \ {w}) + 1
        BY <4>1, <4>2, FS_AddElement
      <4> QED BY <3>1, <4>2, <4>3
    <3>4. CASE l = lane /\ ~full
      <4>1. Queue(l)' = Queue(l) \cup {m} /\ m \notin Queue(l)
        BY <2>2, <2>3, <2>4, <3>4 DEF Queue
      <4>2. Cardinality(Queue(l)') = Cardinality(Queue(l)) + 1
        BY <3>1, <4>1, FS_AddElement
      <4>3. ~(Cardinality(Queue(l)) >= Capacity[l])
        BY <3>4 DEF full, Full
      <4> QED BY <3>1, <4>2, <4>3
    <3> QED BY <3>2, <3>3, <3>4
  <2>11. PendingIsExact'
    <3>1. ~Counted(m) /\ Counted(m)'
      BY <2>1, <2>3, <2>4 DEF Counted
    <3>2. CASE full
      <4>1. Counted(w) /\ ~Counted(w)' /\ w \in Messages \ {m} /\ Lane[w] = Lane[m]
        BY <2>1, <2>2, <2>4, <3>2 DEF Counted, Calls, Queue
      <4>2. \A n \in Messages \ {m, w} : Counted(n)' <=> Counted(n)
        BY <2>1, <2>4 DEF Counted
      <4>3. pending' = MovePending(w, m)
        BY <2>1, <3>2
      <4>4. Exact => Exact'
        BY <3>1, <4>1, <4>2, <4>3, OneForAnother
      <4> QED BY <1>1, <2>4, <4>4, ExactIsKept
    <3>3. CASE ~full
      <4>1. \A n \in Messages \ {m} : Counted(n)' <=> Counted(n)
        BY <2>1, <2>4, <3>3 DEF Counted
      <4>2. pending' = AddPending(m)
        BY <2>1, <3>3
      <4>3. Exact => Exact'
        BY <3>1, <4>1, <4>2, OneMore
      <4> QED BY <1>1, <2>4, <4>3, ExactIsKept
    <3> QED BY <3>2, <3>3
  <2> QED BY <2>5, <2>6, <2>7, <2>8, <2>9, <2>10, <2>11
<1> QED BY <1>2, <1>3

\* The put task checks the limit in the step in which it puts.
LEMMA PutKeeps ==
  ASSUME IInv, NEW m \in Messages, Put(m)
  PROVE  IInv'
<1> USE DEF IInv, TypeOK
<1>1. /\ putTask[m] = "running" /\ publisher[m] = "waiting" /\ fate[m] = "none"
      /\ ~Full(Lane[m]) /\ Lane[m] \in Lanes
      /\ putTask' = [putTask EXCEPT ![m] = "done"] /\ fate' = [fate EXCEPT ![m] = "queued"]
      /\ UNCHANGED <<order, publisher, earlier, emptyEvent, notify, pending, reader,
                     orphan, closed>>
  BY BusAssumption DEF Put, Calls
<1>2. /\ \A n \in Messages : putTask'[n] = IF n = m THEN "done" ELSE putTask[n]
      /\ \A n \in Messages : fate'[n] = IF n = m THEN "queued" ELSE fate[n]
  BY <1>1
<1>3. TypeOK'
  BY <1>1 DEF Fates
<1>4. Calls'
  BY <1>1, <1>2 DEF Calls
<1>5. GetTasks' /\ Losses'
  BY <1>1, <1>2 DEF GetTasks, Losses
<1>6. Numbered' /\ EarlierCameFirst'
  BY <1>1, SameNumbers DEF Published
<1>7. Ahead'
  <2> SUFFICES ASSUME NEW k \in Messages, fate'[k] = "held", NEW n \in earlier[k],
                      Priority[n] <= Priority[k]
               PROVE  fate'[n] \notin {"queued", "held"}
    BY <1>1 DEF Ahead
  <2>1. k # m /\ fate[k] = "held"
    BY <1>2
  <2>2. n \in Messages /\ publisher[n] = "accepted" /\ n # m
    BY <1>1 DEF EarlierCameFirst
  <2> QED BY <1>2, <2>1, <2>2 DEF Ahead
<1>8. LanesAreBounded'
  <2> SUFFICES ASSUME NEW l \in Lanes PROVE Cardinality(Queue(l)') <= Capacity[l]
    BY DEF LanesAreBounded
  <2>1. /\ Cardinality(Queue(l)) <= Capacity[l] /\ Cardinality(Queue(l)) \in Nat
        /\ IsFiniteSet(Queue(l)) /\ Capacity[l] \in Nat
    BY QueueIsFinite, BusAssumption DEF LanesAreBounded
  <2>2. CASE l # Lane[m]
    <3>1. Queue(l)' = Queue(l)
      BY <1>1, <1>2, <2>2 DEF Queue
    <3> QED BY <2>1, <3>1
  <2>3. CASE l = Lane[m]
    <3>1. Queue(l)' = Queue(l) \cup {m} /\ m \notin Queue(l)
      BY <1>1, <1>2, <2>3 DEF Queue
    <3>2. Cardinality(Queue(l)') = Cardinality(Queue(l)) + 1
      BY <2>1, <3>1, FS_AddElement
    <3>3. ~(Cardinality(Queue(l)) >= Capacity[l])
      BY <1>1, <2>3 DEF Full
    <3> QED BY <2>1, <3>2, <3>3
  <2> QED BY <2>2, <2>3
<1>9. PendingIsExact'
  BY <1>1, <1>2, SameCount, ExactIsKept DEF Counted
<1> QED BY <1>3, <1>4, <1>5, <1>6, <1>7, <1>8, <1>9

\* The publisher goes on after the put: nothing it could take back is counted
\* any more, or it is misled.
LEMMA PublisherGoesOnKeeps ==
  ASSUME IInv, NEW m \in Messages, Resume(m) \/ CancelLate(m)
  PROVE  IInv'
<1> USE DEF IInv, TypeOK
<1>1. PICK state \in {"accepted", "misled"} : publisher' = [publisher EXCEPT ![m] = state]
                                           /\ (state = "accepted" => pending' = pending)
  BY DEF Resume, CancelLate
<1>2. /\ publisher[m] = "waiting" /\ putTask[m] = "done" /\ fate[m] # "none"
      /\ emptyEvent' = [emptyEvent EXCEPT ![Lane[m]] = FALSE]
      /\ notify' \in [OutputLanes -> BOOLEAN]
      /\ UNCHANGED <<order, putTask, fate, earlier, reader, orphan, closed>>
      /\ pending' \in [InputLanes -> [Sessions -> Nat]]
  BY PendingForms DEF Resume, CancelLate, Wake, Calls
<1>3. \A n \in Messages : publisher'[n] = IF n = m THEN state ELSE publisher[n]
  BY <1>1
<1>4. TypeOK'
  BY <1>1, <1>2 DEF PublisherStates
<1>5. Calls'
  BY <1>2, <1>3 DEF Calls
<1>6. GetTasks' /\ Losses'
  BY <1>2 DEF GetTasks, Losses
<1>7. Numbered' /\ EarlierCameFirst'
  BY <1>2, <1>3, SameNumbers DEF Published
<1>8. Ahead'
  BY <1>2, NothingGetsAhead
<1>9. LanesAreBounded'
  BY <1>2, NoLaneGrows
<1>10. PendingIsExact'
  <2>1. CASE state = "misled"
    BY <1>3, <2>1 DEF PendingIsExact
  <2>2. CASE state = "accepted"
    BY <1>1, <1>2, <1>3, <2>2, SameCount, ExactIsKept DEF Counted
  <2> QED BY <2>1, <2>2
<1> QED BY <1>4, <1>5, <1>6, <1>7, <1>8, <1>9, <1>10

\* A publisher that gives up takes its put task and its count with it.
LEMMA GiveUpKeeps ==
  ASSUME IInv, NEW m \in Messages, NEW answer \in {"cancelled", "refused"}, GiveUp(m, answer)
  PROVE  IInv'
<1> USE DEF IInv, TypeOK
<1>1. /\ publisher[m] = "waiting" /\ putTask[m] = "running" /\ fate[m] = "none"
      /\ publisher' = [publisher EXCEPT ![m] = answer]
      /\ putTask' = [putTask EXCEPT ![m] = "none"]
      /\ pending' = DropPending(m)
      /\ UNCHANGED <<order, fate, earlier, emptyEvent, notify, reader, orphan, closed>>
  BY DEF GiveUp, AbandonPut, Calls
<1>2. /\ \A n \in Messages : publisher'[n] = IF n = m THEN answer ELSE publisher[n]
      /\ \A n \in Messages : putTask'[n] = IF n = m THEN "none" ELSE putTask[n]
  BY <1>1
<1>3. TypeOK'
  BY <1>1, PendingForms DEF PublisherStates
<1>4. Calls'
  BY <1>1, <1>2 DEF Calls
<1>5. GetTasks' /\ Losses'
  BY <1>1 DEF GetTasks, Losses
<1>6. Numbered' /\ EarlierCameFirst'
  BY <1>1, <1>2, SameNumbers DEF Published
<1>7. Ahead'
  BY <1>1, NothingGetsAhead
<1>8. LanesAreBounded'
  BY <1>1, NoLaneGrows
<1>9. PendingIsExact'
  <2>1. Counted(m) /\ ~Counted(m)' /\ \A n \in Messages \ {m} : Counted(n)' <=> Counted(n)
    BY <1>1, <1>2 DEF Counted
  <2> QED BY <1>1, <1>2, <2>1, OneLess, ExactIsKept
<1> QED BY <1>3, <1>4, <1>5, <1>6, <1>7, <1>8, <1>9

\* A message leaves for its consumer and is no longer counted.
LEMMA DeliverKeeps ==
  ASSUME IInv, NEW m \in Messages, fate[m] \in {"queued", "held"},
         fate' = [fate EXCEPT ![m] = "delivered"], pending' = DropPending(m),
         emptyEvent' \in [Lanes -> BOOLEAN],
         reader' \in [Readers -> {"absent", "ready", "waiting", "ended", "stopped"}],
         \A n \in Messages \ {m} : fate[n] = "held" =>
           reader'[ReaderOf(Lane[n])] = reader[ReaderOf(Lane[n])],
         reader["loop"] = "stopped" => reader'["loop"] = "stopped",
         UNCHANGED <<order, publisher, putTask, earlier, notify, orphan, closed>>
  PROVE  IInv'
<1> USE DEF IInv, TypeOK
<1>1. \A n \in Messages : fate'[n] = IF n = m THEN "delivered" ELSE fate[n]
  OBVIOUS
<1>2. TypeOK'
  BY PendingForms DEF Fates
<1>3. Calls'
  BY <1>1 DEF Calls
<1>4. GetTasks'
  BY <1>1 DEF GetTasks
<1>5. Losses'
  BY <1>1 DEF Losses
<1>6. Numbered' /\ EarlierCameFirst'
  BY SameNumbers DEF Published
<1>7. Ahead'
  BY <1>1, NothingGetsAhead
<1>8. LanesAreBounded'
  BY <1>1, NoLaneGrows
<1>9. PendingIsExact'
  <2>1. Counted(m) /\ ~Counted(m)' /\ \A n \in Messages \ {m} : Counted(n)' <=> Counted(n)
    BY <1>1 DEF Counted, Calls
  <2> QED BY <2>1, OneLess, ExactIsKept
<1> QED BY <1>2, <1>3, <1>4, <1>5, <1>6, <1>7, <1>8, <1>9

\* A consumer waits, wakes up or ends, or the bus closes.
LEMMA ReaderMovesKeep ==
  ASSUME IInv, UNCHANGED <<order, publisher, putTask, fate, earlier, emptyEvent, pending, orphan>>,
         reader' \in [Readers -> {"absent", "ready", "waiting", "ended", "stopped"}],
         notify' \in [OutputLanes -> BOOLEAN], closed' \in BOOLEAN,
         \A n \in Messages : fate[n] = "held" =>
           reader'[ReaderOf(Lane[n])] = reader[ReaderOf(Lane[n])],
         reader["loop"] = "stopped" => reader'["loop"] = "stopped"
  PROVE  IInv'
<1> USE DEF IInv, TypeOK
<1>1. TypeOK'
  OBVIOUS
<1>2. Calls' /\ GetTasks' /\ Losses'
  BY DEF Calls, GetTasks, Losses
<1>3. Numbered' /\ EarlierCameFirst'
  BY SameNumbers DEF Published
<1>4. Ahead' /\ LanesAreBounded'
  BY NothingGetsAhead, NoLaneGrows
<1>5. PendingIsExact'
  BY SameCount, ExactIsKept DEF Counted
<1> QED BY <1>1, <1>2, <1>3, <1>4, <1>5

\* A get task takes the first message of its lane, so nothing that goes before
\* it stays queued.
LEMMA GetKeeps ==
  ASSUME IInv, NEW l \in InputLanes, Get(l)
  PROVE  IInv'
<1> USE DEF IInv, TypeOK
<1>0. PICK m : m = First(l)
  OBVIOUS
<1>1. /\ m \in Messages /\ fate[m] = "queued" /\ Lane[m] = l
      /\ \A n \in Queue(l) \ {m} : Before(m, n)
      /\ reader[ReaderOf(l)] = "waiting"
      /\ \A n \in Messages : Lane[n] = l => fate[n] # "held"
      /\ fate' = [fate EXCEPT ![m] = "held"]
      /\ UNCHANGED <<order, publisher, putTask, earlier, emptyEvent, notify, pending,
                     reader, orphan, closed>>
  BY <1>0, FirstIsFirst DEF Get, Queue
<1>2. \A n \in Messages : fate'[n] = IF n = m THEN "held" ELSE fate[n]
  BY <1>1
<1>3. TypeOK'
  BY <1>1 DEF Fates
<1>4. Calls' /\ GetTasks' /\ Losses'
  BY <1>1, <1>2 DEF Calls, GetTasks, Losses
<1>5. Numbered' /\ EarlierCameFirst'
  BY <1>1, SameNumbers DEF Published
<1>6. Ahead'
  <2> SUFFICES ASSUME NEW k \in Messages, fate'[k] = "held", NEW n \in earlier[k],
                      Priority[n] <= Priority[k]
               PROVE  fate'[n] \notin {"queued", "held"}
    BY <1>1 DEF Ahead
  <2>1. n \in Messages /\ n # k /\ ~Before(k, n) /\ Lane[n] = Lane[k]
    BY EarlierIsBefore DEF EarlierCameFirst
  <2>2. CASE k = m
    BY <1>1, <1>2, <2>1, <2>2 DEF Queue
  <2>3. CASE k # m
    <3>1. fate[k] = "held" /\ Lane[k] # l
      BY <1>1, <1>2, <2>3
    <3> QED BY <1>1, <1>2, <2>1, <3>1 DEF Ahead
  <2> QED BY <2>2, <2>3
<1>7. LanesAreBounded'
  BY <1>2, NoLaneGrows
<1>8. PendingIsExact'
  BY <1>1, <1>2, SameCount, ExactIsKept DEF Counted
<1> QED BY <1>3, <1>4, <1>5, <1>6, <1>7, <1>8

\* The loop that stops loses what its get task holds, or leaves the task behind.
LEMMA StopConsumerKeeps ==
  ASSUME IInv, StopConsumer
  PROVE  IInv'
<1> USE DEF IInv, TypeOK
<1>1. /\ reader["loop"] \in {"ready", "waiting"}
      /\ reader' = [reader EXCEPT !["loop"] = "stopped"]
      /\ fate' = [m \in Messages |->
                    IF fate[m] = "held" /\ Lane[m] = "inbound" THEN "lost" ELSE fate[m]]
      /\ orphan' = (reader["loop"] = "waiting"
                    /\ \A m \in Messages : Lane[m] = "inbound" => fate[m] # "held")
      /\ UNCHANGED <<order, publisher, putTask, earlier, emptyEvent, notify, pending, closed>>
  BY DEF StopConsumer
<1>2. /\ \A n \in Messages : fate'[n] = IF fate[n] = "held" /\ Lane[n] = "inbound"
                                         THEN "lost" ELSE fate[n]
      /\ \A n \in Messages : fate[n] # "lost"
      /\ orphan' \in BOOLEAN /\ "loop" \in Readers
  BY <1>1 DEF Losses, Readers
<1>3. TypeOK'
  BY <1>1, <1>2 DEF Fates
<1>4. Calls'
  BY <1>1, <1>2 DEF Calls
<1>5. GetTasks'
  <2>1. \A l \in InputLanes : l # "inbound" => ReaderOf(l) # "loop"
    BY DEF InputLanes, ReaderOf
  <2>2. \A l \in InputLanes : ReaderOf(l) \in Readers
    BY DEF InputLanes, ReaderOf, Readers
  <2> QED BY <1>1, <1>2, <2>1, <2>2 DEF GetTasks
<1>6. Losses'
  <2>1. \A m, n \in Messages : fate'[m] = "lost" /\ fate'[n] = "lost" => m = n
    BY <1>2 DEF GetTasks
  <2>2. reader'["loop"] = "stopped"
    BY <1>1, <1>2
  <2>3. orphan' => \A m \in Messages : fate'[m] # "lost"
    BY <1>1, <1>2
  <2> QED BY <2>1, <2>2, <2>3 DEF Losses
<1>7. Numbered' /\ EarlierCameFirst'
  BY <1>1, SameNumbers DEF Published
<1>8. Ahead'
  BY <1>1, <1>2, NothingGetsAhead
<1>9. LanesAreBounded'
  BY <1>2, NoLaneGrows
<1>10. PendingIsExact'
  BY <1>1, <1>2, SameCount, ExactIsKept DEF Counted
<1> QED BY <1>3, <1>4, <1>5, <1>6, <1>7, <1>8, <1>9, <1>10

\* The task that was left behind takes one message and ends.
LEMMA OrphanGetKeeps ==
  ASSUME IInv, OrphanGet
  PROVE  IInv'
<1> USE DEF IInv, TypeOK
<1>0. PICK m : m = First("inbound")
  OBVIOUS
<1>1. /\ m \in Messages /\ fate[m] = "queued" /\ orphan
      /\ fate' = [fate EXCEPT ![m] = "lost"] /\ orphan' = FALSE
      /\ UNCHANGED <<order, publisher, putTask, earlier, emptyEvent, notify, pending,
                     reader, closed>>
  BY <1>0, FirstIsFirst DEF OrphanGet, Queue
<1>2. \A n \in Messages : fate'[n] = IF n = m THEN "lost" ELSE fate[n]
  BY <1>1
<1>3. TypeOK'
  BY <1>1 DEF Fates
<1>4. Calls' /\ GetTasks'
  BY <1>1, <1>2 DEF Calls, GetTasks
<1>5. Losses'
  BY <1>1, <1>2 DEF Losses
<1>6. Numbered' /\ EarlierCameFirst'
  BY <1>1, SameNumbers DEF Published
<1>7. Ahead'
  BY <1>1, <1>2, NothingGetsAhead
<1>8. LanesAreBounded'
  BY <1>2, NoLaneGrows
<1>9. PendingIsExact'
  BY <1>1, <1>2, SameCount, ExactIsKept DEF Counted
<1> QED BY <1>3, <1>4, <1>5, <1>6, <1>7, <1>8, <1>9

\* A drain takes its messages out of the lane and off the counters.
LEMMA DrainKeeps ==
  ASSUME IInv, NEW sessions, Drain(sessions)
  PROVE  IInv'
<1> USE DEF IInv, TypeOK
<1>0. PICK D : D = {m \in Queue("inbound") : Session[m] \in sessions}
  OBVIOUS
<1>1. /\ D \in SUBSET Messages /\ \A m \in D : fate[m] = "queued" /\ Lane[m] = "inbound"
      /\ fate' = [m \in Messages |-> IF m \in D THEN "drained" ELSE fate[m]]
      /\ pending' = [pending EXCEPT !["inbound"] = [s \in Sessions |->
                       LET left == @[s] - Cardinality({m \in D : Session[m] = s})
                       IN IF left < 0 THEN 0 ELSE left]]
      /\ emptyEvent' \in [Lanes -> BOOLEAN]
      /\ UNCHANGED <<order, publisher, putTask, earlier, notify, reader, orphan, closed>>
  BY <1>0 DEF Drain, Queue
<1>2. \A n \in Messages : fate'[n] = IF n \in D THEN "drained" ELSE fate[n]
  BY <1>1
<1>3. /\ \A n \in D : Lane[n] = "inbound" /\ Counted(n) /\ ~Counted(n)'
      /\ \A n \in Messages \ D : Counted(n)' <=> Counted(n)
  BY <1>1, <1>2 DEF Counted, Calls
<1>4. Calls' /\ GetTasks' /\ Losses'
  BY <1>1, <1>2 DEF Calls, GetTasks, Losses
<1>5. Numbered' /\ EarlierCameFirst'
  BY <1>1, SameNumbers DEF Published
<1>6. Ahead'
  BY <1>1, <1>2, NothingGetsAhead
<1>7. LanesAreBounded'
  BY <1>2, NoLaneGrows
<1>8. Exact => Exact' /\ pending' \in [InputLanes -> [Sessions -> Nat]]
  BY <1>1, <1>3, ManyLess
<1>9. PendingIsExact'
  BY <1>1, <1>8, ExactIsKept
<1>10. TypeOK'
  <2>1. pending' \in [InputLanes -> [Sessions -> Nat]]
    <3> DEFINE left(s) == pending["inbound"][s] - Cardinality({m \in D : Session[m] = s})
    <3>1. IsFiniteSet(Messages) /\ "inbound" \in InputLanes
      BY BusAssumption DEF InputLanes
    <3>2. ASSUME NEW s \in Sessions PROVE left(s) \in Int
      <4>1. {m \in D : Session[m] = s} \in SUBSET Messages
        BY <1>1
      <4>2. Cardinality({m \in D : Session[m] = s}) \in Nat
        BY <3>1, <4>1, FS_Subset, FS_CardinalityType
      <4>3. pending["inbound"][s] \in Nat
        BY <3>1
      <4> QED BY <4>2, <4>3
    <3>3. pending' = [pending EXCEPT !["inbound"] =
                        [s \in Sessions |-> IF left(s) < 0 THEN 0 ELSE left(s)]]
      BY <1>1
    <3> HIDE DEF left
    <3>4. [s \in Sessions |-> IF left(s) < 0 THEN 0 ELSE left(s)] \in [Sessions -> Nat]
      BY <3>2
    <3> QED BY <3>1, <3>3, <3>4
  <2>2. fate' \in [Messages -> Fates]
    BY <1>1 DEF Fates
  <2> QED BY <1>1, <2>1, <2>2
<1> QED BY <1>4, <1>5, <1>6, <1>7, <1>9, <1>10

\* The consumers of the two input lanes.
LEMMA InputConsumersKeep ==
  ASSUME IInv, NEW l \in InputLanes, Consume(l) \/ AwaitInput(l) \/ CloseConsumer(l)
  PROVE  IInv'
<1> USE DEF IInv, TypeOK
<1>1. /\ l \in Lanes /\ ReaderOf(l) \in Readers
      /\ \A k \in InputLanes : ReaderOf(k) = ReaderOf(l) => k = l
      /\ "loop" \in Readers
  BY DEF InputLanes, Lanes, ReaderOf, Readers
<1>2. \A n \in Messages : fate[n] = "held" =>
        Lane[n] # l /\ ReaderOf(Lane[n]) # ReaderOf(l)
  <2>1. \A n \in Messages : fate[n] = "held" =>
          Lane[n] \in InputLanes /\ reader[ReaderOf(Lane[n])] = "waiting"
    BY DEF GetTasks
  <2>2. \A n \in Messages : fate[n] = "held" => Lane[n] # l
    BY <2>1 DEF Consume, AwaitInput, CloseConsumer
  <2> QED BY <1>1, <2>1, <2>2
<1>3. reader[ReaderOf(l)] \in {"ready", "waiting"}
  BY DEF Consume, AwaitInput, CloseConsumer
<1>4. PICK m : m = First(l)
  OBVIOUS
<1>5. Queue(l) # {} => m \in Messages /\ fate[m] = "queued" /\ Lane[m] = l
  BY <1>4, FirstIsFirst DEF Queue
<1>6. ASSUME NEW state \in {"ready", "waiting", "ended"},
             reader' = [reader EXCEPT ![ReaderOf(l)] = state] \/ reader' = reader
      PROVE  /\ reader' \in [Readers -> {"absent", "ready", "waiting", "ended", "stopped"}]
             /\ \A n \in Messages : fate[n] = "held" =>
                  reader'[ReaderOf(Lane[n])] = reader[ReaderOf(Lane[n])]
             /\ reader["loop"] = "stopped" => reader'["loop"] = "stopped"
  <2>1. \A r \in Readers : r # ReaderOf(l) => reader'[r] = reader[r]
    BY <1>6
  <2>2. \A n \in Messages : fate[n] = "held" => ReaderOf(Lane[n]) \in Readers
    BY DEF GetTasks, ReaderOf, InputLanes, Readers
  <2> QED BY <1>1, <1>2, <1>3, <1>6, <2>1, <2>2
<1>7. CASE Queue(l) # {} /\ Deliver(m) /\ UNCHANGED <<order, publisher, putTask, earlier,
                                                      notify, orphan, closed>>
           /\ (reader' = [reader EXCEPT ![ReaderOf(l)] = "ready"] \/ reader' = reader)
  <2>1. emptyEvent' \in [Lanes -> BOOLEAN]
    BY <1>7 DEF Deliver
  <2> QED BY <1>5, <1>6, <1>7, <2>1, DeliverKeeps DEF Deliver
<1>8. CASE UNCHANGED <<order, publisher, putTask, fate, earlier, emptyEvent, notify, pending,
                       orphan, closed>>
           /\ \E state \in {"ready", "waiting", "ended"} :
                reader' = [reader EXCEPT ![ReaderOf(l)] = state]
  BY <1>6, <1>8, ReaderMovesKeep
<1>9. CASE Consume(l)
  BY <1>4, <1>7, <1>9 DEF Consume
<1>10. CASE AwaitInput(l)
  BY <1>8, <1>10 DEF AwaitInput
<1>11. CASE CloseConsumer(l)
  BY <1>4, <1>7, <1>8, <1>11 DEF CloseConsumer, ClosingLook
<1> QED BY <1>9, <1>10, <1>11

\* The consumer that resumes hands out what its get task holds.
LEMMA ResumeConsumerKeeps ==
  ASSUME IInv, NEW m \in Messages, ResumeConsumer(m)
  PROVE  IInv'
<1> USE DEF IInv, TypeOK
<1>1. /\ fate[m] = "held" /\ fate' = [fate EXCEPT ![m] = "delivered"]
      /\ pending' = DropPending(m) /\ emptyEvent' \in [Lanes -> BOOLEAN]
      /\ reader' = [reader EXCEPT ![ReaderOf(Lane[m])] = "ready"]
      /\ UNCHANGED <<order, publisher, putTask, earlier, notify, orphan, closed>>
  BY DEF ResumeConsumer
<1>2. /\ Lane[m] \in InputLanes /\ ReaderOf(Lane[m]) \in Readers
      /\ reader[ReaderOf(Lane[m])] = "waiting" /\ "loop" \in Readers
  BY <1>1 DEF GetTasks, ReaderOf, InputLanes, Readers
<1>3. \A n \in Messages \ {m} : fate[n] = "held" =>
        ReaderOf(Lane[n]) \in Readers /\ ReaderOf(Lane[n]) # ReaderOf(Lane[m])
  <2>1. \A n \in Messages \ {m} : fate[n] = "held" =>
          Lane[n] \in InputLanes /\ Lane[n] # Lane[m]
    BY <1>1 DEF GetTasks
  <2> QED BY <1>2, <2>1 DEF ReaderOf, InputLanes, Readers
<1>4. /\ reader' \in [Readers -> {"absent", "ready", "waiting", "ended", "stopped"}]
      /\ \A n \in Messages \ {m} : fate[n] = "held" =>
           reader'[ReaderOf(Lane[n])] = reader[ReaderOf(Lane[n])]
      /\ reader["loop"] = "stopped" => reader'["loop"] = "stopped"
  BY <1>1, <1>2, <1>3
<1> QED BY <1>1, <1>4, DeliverKeeps

\* The consumer of the two output lanes.
LEMMA OutputConsumerKeeps ==
  ASSUME IInv, ConsumeOutput \/ AwaitOutput \/ WakeOutput
  PROVE  IInv'
<1> USE DEF IInv, TypeOK
<1>1. /\ "channels" \in Readers /\ "loop" \in Readers
      /\ \A n \in Messages : fate[n] = "held" =>
           ReaderOf(Lane[n]) \in Readers /\ ReaderOf(Lane[n]) # "channels"
  BY DEF GetTasks, ReaderOf, InputLanes, Readers
<1>2. CASE ConsumeOutput
  <2>1. PICK m : m = First(OutputLane)
    OBVIOUS
  <2>2. m \in Messages /\ fate[m] = "queued"
    BY <1>2, <2>1, FirstIsFirst DEF ConsumeOutput, Queue
  <2>3. emptyEvent' \in [Lanes -> BOOLEAN] /\ reader' = reader
    BY <1>2 DEF ConsumeOutput, Deliver
  <2> QED BY <1>2, <2>1, <2>2, <2>3, DeliverKeeps DEF ConsumeOutput, Deliver
<1>3. CASE AwaitOutput \/ WakeOutput
  <2>1. PICK state \in {"ready", "waiting", "ended"} :
          reader' = [reader EXCEPT !["channels"] = state]
    BY <1>3 DEF AwaitOutput, WakeOutput
  <2>2. notify' \in [OutputLanes -> BOOLEAN]
    BY <1>3 DEF AwaitOutput, WakeOutput, ClearNotify
  <2>3. /\ reader' \in [Readers -> {"absent", "ready", "waiting", "ended", "stopped"}]
        /\ \A n \in Messages : fate[n] = "held" =>
             reader'[ReaderOf(Lane[n])] = reader[ReaderOf(Lane[n])]
        /\ reader["loop"] = "stopped" => reader'["loop"] = "stopped"
    BY <1>1, <2>1
  <2> QED BY <1>3, <2>2, <2>3, ReaderMovesKeep DEF AwaitOutput, WakeOutput
<1> QED BY <1>2, <1>3

-----------------------------------------------------------------------------
(* The specification.                                                      *)

\* An empty bus that nobody has called yet.
LEMMA InitIInv == Init => IInv
<1> SUFFICES ASSUME Init PROVE IInv
  OBVIOUS
<1>0. PICK calls \in Scenarios :
        /\ publisher = [m \in Messages |-> IF m \in calls THEN "idle" ELSE "absent"]
        /\ reader = [r \in Readers |->
                       IF \E m \in calls : ReaderOf(Lane[m]) = r THEN "ready" ELSE "absent"]
  BY DEF Init
<1>1. /\ \A m \in Messages : publisher[m] \in {"idle", "absent"} /\ putTask[m] = "none"
                             /\ fate[m] = "none" /\ earlier[m] = {}
      /\ order = <<>> /\ orphan = FALSE
      /\ \A l \in InputLanes, s \in Sessions : pending[l][s] = 0
  BY <1>0 DEF Init
<1>2. TypeOK
  <2>1. order \in Seq(Messages)
    BY <1>1
  <2>2. /\ publisher \in [Messages -> PublisherStates]
        /\ reader \in [Readers -> {"absent", "ready", "waiting", "ended", "stopped"}]
    BY <1>0 DEF PublisherStates
  <2> QED BY <2>1, <2>2 DEF Init, TypeOK, Fates
<1>3. Calls /\ GetTasks /\ Losses /\ EarlierCameFirst /\ Ahead
  BY <1>1 DEF Calls, GetTasks, Losses, EarlierCameFirst, Ahead
<1>4. Numbered
  BY <1>1 DEF Numbered, Published
<1>5. LanesAreBounded
  <2> SUFFICES ASSUME NEW l \in Lanes PROVE Cardinality(Queue(l)) <= Capacity[l]
    BY DEF LanesAreBounded
  <2>1. Queue(l) = {}
    BY <1>1 DEF Queue
  <2>2. Cardinality(Queue(l)) = 0 /\ Capacity[l] \in Nat
    BY <2>1, FS_EmptySet, BusAssumption
  <2> QED BY <2>2
<1>6. PendingIsExact
  <2>1. \A l, s : OnTheWay(l, s) = {}
    BY <1>1 DEF OnTheWay
  <2> QED BY <1>1, <2>1, FS_EmptySet DEF PendingIsExact
<1> QED BY <1>2, <1>3, <1>4, <1>5, <1>6 DEF IInv

\* Every step preserves the invariant: one lemma per action or group of actions.
LEMMA NextIInv == IInv /\ [Next]_vars => IInv'
<1> SUFFICES ASSUME IInv, [Next]_vars PROVE IInv'
  OBVIOUS
<1>1. ASSUME NEW m \in Messages,
             PublishClosed(m) \/ PublishControl(m) \/ PublishWaiting(m) \/ Put(m)
      PROVE  IInv'
  BY <1>1, RefusalKeeps, PublishControlKeeps, PublishWaitingKeeps, PutKeeps
    DEF PublishClosed
<1>2. ASSUME NEW m \in Messages,
             Resume(m) \/ CancelLate(m) \/ CancelPublish(m) \/ RefuseWaiting(m)
             \/ ResumeConsumer(m)
      PROVE  IInv'
  BY <1>2, PublisherGoesOnKeeps, GiveUpKeeps, ResumeConsumerKeeps
    DEF CancelPublish, RefuseWaiting
<1>3. ASSUME NEW l \in InputLanes, Consume(l) \/ AwaitInput(l) \/ Get(l) \/ CloseConsumer(l)
      PROVE  IInv'
  BY <1>3, InputConsumersKeep, GetKeeps
<1>4. CASE StopConsumer \/ OrphanGet
  BY <1>4, StopConsumerKeeps, OrphanGetKeeps
<1>5. CASE ConsumeOutput \/ AwaitOutput \/ WakeOutput
  BY <1>5, OutputConsumerKeeps
<1>6. CASE (\E s \in Sessions : Drain({s})) \/ Drain(Sessions)
  BY <1>6, DrainKeeps
<1>7. CASE Close \/ UNCHANGED vars
  BY <1>7, ReaderMovesKeep DEF Close, vars, IInv, TypeOK
<1> QED BY <1>1, <1>2, <1>3, <1>4, <1>5, <1>6, <1>7 DEF Next

\* What the lost messages are: none or one, and then the loop has stopped.
LEMMA IInvImplies == IInv => BusInv
<1> SUFFICES ASSUME IInv PROVE BusInv
  OBVIOUS
<1>1. RefusedIsNeverDelivered
  BY DEF IInv, Calls, RefusedIsNeverDelivered
<1>2. StopLosesAtMostOne
  <2> DEFINE lost == {m \in Messages : fate[m] = "lost"}
  <2>1. Cardinality(lost) <= 1
    <3>1. CASE lost = {}
      BY <3>1, FS_EmptySet
    <3>2. CASE lost # {}
      <4>1. PICK m \in lost : TRUE
        BY <3>2
      <4>2. lost = {m}
        BY <4>1 DEF IInv, Losses
      <4> HIDE DEF lost
      <4> QED BY <4>2, FS_Singleton
    <3> QED BY <3>1, <3>2
  <2>2. lost # {} => reader["loop"] = "stopped" /\ ~orphan
    BY DEF IInv, Losses
  <2> QED BY <2>1, <2>2 DEF StopLosesAtMostOne
<1> QED BY <1>1, <1>2 DEF IInv, BusInv

\* A step hands out the first message of a lane whose get task holds none, or
\* what the get task holds.
LEMMA Deliveries ==
  ASSUME IInv, Next, NEW m \in Messages, fate[m] # "delivered", fate'[m] = "delivered"
  PROVE  \/ fate[m] = "held"
         \/ /\ m \in Queue(Lane[m]) /\ m = First(Lane[m])
            /\ \A n \in Messages : Lane[n] = Lane[m] => fate[n] # "held"
<1> USE DEF IInv, TypeOK
<1>1. ASSUME NEW l, Queue(l) # {}, Deliver(First(l)),
             \A n \in Messages : Lane[n] = l => fate[n] # "held"
      PROVE  /\ m \in Queue(l) /\ m = First(l) /\ Lane[m] = l
             /\ \A n \in Messages : Lane[n] = l => fate[n] # "held"
  <2>0. PICK k : k = First(l)
    OBVIOUS
  <2>1. k \in Messages /\ k \in Queue(l) /\ Lane[k] = l
    BY <1>1, <2>0, FirstIsFirst DEF Queue
  <2>2. fate' = [fate EXCEPT ![k] = "delivered"]
    BY <1>1, <2>0 DEF Deliver
  <2>3. m = k
    BY <2>1, <2>2
  <2> QED BY <1>1, <2>0, <2>1, <2>2, <2>3
<1>2. CASE ResumeConsumer(m)
  BY <1>2 DEF ResumeConsumer
<1>3. ASSUME NEW k \in Messages, k # m, ResumeConsumer(k) PROVE FALSE
  BY <1>3 DEF ResumeConsumer
<1>4. ASSUME NEW l \in InputLanes, Consume(l)
      PROVE  Queue(l) # {} /\ Deliver(First(l))
             /\ \A n \in Messages : Lane[n] = l => fate[n] # "held"
  BY <1>4 DEF Consume, GetTasks
<1>5. ASSUME NEW l \in InputLanes, CloseConsumer(l)
      PROVE  Queue(l) # {} /\ Deliver(First(l))
             /\ \A n \in Messages : Lane[n] = l => fate[n] # "held"
  BY <1>5 DEF CloseConsumer, ClosingLook
<1>6. CASE ConsumeOutput
  <2>1. PICK l \in OutputLanes : l = OutputLane
    BY DEF OutputLane, OutputLanes
  <2>2. \A n \in Messages : Lane[n] = l => fate[n] # "held"
    BY <2>1 DEF GetTasks, InputLanes, OutputLanes
  <2> QED BY <1>1, <1>6, <2>1, <2>2 DEF ConsumeOutput
<1>7. ASSUME NEW k \in Messages, PublishControl(k) \/ Put(k) PROVE FALSE
  BY <1>7 DEF PublishControl, Put
<1>8. ASSUME NEW l \in InputLanes, Get(l) PROVE FALSE
  BY <1>8 DEF Get
<1>9. ASSUME StopConsumer \/ OrphanGet PROVE FALSE
  BY <1>9 DEF StopConsumer, OrphanGet
<1>10. ASSUME NEW sessions, Drain(sessions) PROVE FALSE
  BY <1>10 DEF Drain
<1>11. ASSUME UNCHANGED fate PROVE FALSE
  BY <1>11
<1>12. ASSUME NEW k \in Messages, PublishClosed(k) \/ PublishWaiting(k) \/ Resume(k)
              \/ CancelLate(k) \/ CancelPublish(k) \/ RefuseWaiting(k)
       PROVE  FALSE
  BY <1>11, <1>12 DEF PublishClosed, PublishWaiting, Resume, CancelLate, CancelPublish,
               RefuseWaiting, GiveUp
<1>13. ASSUME NEW l \in InputLanes, AwaitInput(l) PROVE FALSE
  BY <1>11, <1>13 DEF AwaitInput
<1>14. ASSUME AwaitOutput \/ WakeOutput \/ Close PROVE FALSE
  BY <1>11, <1>14 DEF AwaitOutput, WakeOutput, Close
<1>15. CASE \E k \in Messages :
              \/ PublishClosed(k) \/ PublishControl(k) \/ PublishWaiting(k)
              \/ Put(k) \/ Resume(k) \/ CancelLate(k) \/ CancelPublish(k) \/ RefuseWaiting(k)
              \/ ResumeConsumer(k)
  BY <1>2, <1>3, <1>7, <1>12, <1>15
<1>16. CASE \E l \in InputLanes : Consume(l) \/ AwaitInput(l) \/ Get(l) \/ CloseConsumer(l)
  BY <1>1, <1>4, <1>5, <1>8, <1>13, <1>16, SMTT(30)
<1> HIDE DEF IInv, TypeOK
<1> QED BY <1>6, <1>9, <1>10, <1>14, <1>15, <1>16 DEF Next

\* What a step hands out has nothing of its lane left to follow: the heap would
\* have handed that out first, and a get task took its message when it was the
\* first one.
LEMMA DeliveredInOrder ==
  ASSUME IInv, [Next]_vars, NEW m \in Messages,
         fate[m] # "delivered" /\ fate'[m] = "delivered",
         NEW n \in earlier[m], Priority[n] <= Priority[m]
  PROVE  fate[n] \notin {"queued", "held"}
<1> USE DEF IInv, TypeOK
<1>1. Next
  BY DEF vars
<1>2. n \in Messages /\ n # m /\ ~Before(m, n) /\ Lane[n] = Lane[m]
  BY EarlierIsBefore DEF EarlierCameFirst
<1>3. CASE fate[m] = "held"
  BY <1>3 DEF Ahead
<1>4. CASE fate[m] # "held"
  <2>1. /\ m \in Queue(Lane[m]) /\ m = First(Lane[m])
        /\ \A k \in Messages : Lane[k] = Lane[m] => fate[k] # "held"
    BY <1>1, <1>4, Deliveries
  <2>2. n \notin Queue(Lane[m])
    BY <1>2, <2>1, FirstIsFirst
  <2> QED BY <1>2, <2>1, <2>2 DEF Queue
<1> QED BY <1>3, <1>4

\* However publish calls, consumers, drains and the close meet, are cancelled or
\* stop: no lane holds more than its limit, what was refused or given up is never
\* delivered, the counters of the input lanes are the messages on their way, and
\* a stopping loop loses one message at most.
THEOREM BusIsCorrect == Spec => []BusInv
<1>1. Init => IInv
  BY InitIInv
<1>2. IInv /\ [Next]_vars => IInv'
  BY NextIInv
<1>3. IInv => BusInv
  BY IInvImplies
<1> QED BY <1>1, <1>2, <1>3, PTL DEF Spec

\* A message whose publisher waited for another one of its lane, at least as
\* urgent, to be accepted is not delivered while that one is still to come.
THEOREM RepliesKeepTheirOrder == Spec => LedgerOrder
<1> DEFINE InOrder ==
      \A m \in Messages : fate[m] # "delivered" /\ fate'[m] = "delivered" =>
        \A n \in earlier[m] : Priority[n] <= Priority[m] => fate[n] \notin {"queued", "held"}
<1>1. Init => IInv
  BY InitIInv
<1>2. IInv /\ [Next]_vars => IInv'
  BY NextIInv
<1>3. IInv /\ [Next]_vars => [InOrder]_vars
  BY DeliveredInOrder
<1>4. Spec => [][InOrder]_vars
  BY <1>1, <1>2, <1>3, PTL DEF Spec
<1> QED BY <1>4 DEF LedgerOrder

-----------------------------------------------------------------------------
(***************************************************************************)
(* The revision check is sound until _save_metadata() resolves its first    *)
(* conflict: whatever objects turns, compactions and synchronisations       *)
(* hold, no stored turn is overwritten.                                     *)
(*                                                                         *)
(* The inductive invariant says what the check compares: an object's       *)
(* revision never exceeds its file's, and equal revisions mean equal       *)
(* content.  A job's object belongs to the session the job is of.  Until   *)
(* the user switches sessions all writers share one object (Alone), so     *)
(* that nobody's save is refused.                                          *)
(***************************************************************************)

JobsBelong ==
  \A i \in Ids :
    /\ compact[i].phase = "compact" =>
         compact[i].obj \in Objects /\ heap[compact[i].obj].id = i
    /\ nextCompact[i].phase = "compact" =>
         nextCompact[i].obj \in Objects /\ heap[nextCompact[i].obj].id = i
    /\ sync[i].phase # "none" =>
         sync[i].obj \in Objects /\ heap[sync[i].obj].id = i
    /\ nextSync[i] # None => heap[nextSync[i]].id = i

Formed == WritersTypeOK /\ JobsBelong

Sound == Formed /\ RevisionsAgree /\ StoredTurnsStay

WritersIInv == recovered \/ Sound

\* The initial state satisfies the invariant.
LEMMA InitWritersIInv == WritersInit => WritersIInv
<1> SUFFICES ASSUME WritersInit PROVE WritersIInv
  OBVIOUS
<1>1. \E i \in Ids : heap \in [Objects -> {[id |-> i, rev |-> 0, turns |-> {}]}]
  <2>1. (CHOOSE i \in Ids : TRUE) \in Ids
    BY WritersAssumption
  <2> QED BY <2>1 DEF WritersInit
<1>2. WritersTypeOK
  <2>1. heap \in [Objects -> Object]
    <3>1. PICK i \in Ids : heap \in [Objects -> {[id |-> i, rev |-> 0, turns |-> {}]}]
      BY <1>1
    <3>2. [id |-> i, rev |-> 0, turns |-> {}] \in Object
      BY DEF Object
    <3> QED BY <3>1, <3>2
  <2>2. disk \in [Ids -> Content]
    <3>1. [rev |-> 0, turns |-> {}] \in Content
      BY DEF Content
    <3> QED BY <3>1 DEF WritersInit
  <2>3. NoJob \in Jobs
    BY DEF NoJob, Jobs
  <2>4. compact \in [Ids -> Jobs] /\ sync \in [Ids -> Jobs] /\ nextCompact \in [Ids -> Jobs]
    BY <2>3 DEF WritersInit
  <2> QED BY <2>1, <2>2, <2>4 DEF WritersInit, WritersTypeOK
<1>3. JobsBelong
  BY DEF WritersInit, JobsBelong, NoJob
<1>4. RevisionsAgree
  BY DEF WritersInit, RevisionsAgree, Held, NoJob
<1>5. StoredTurnsStay
  BY DEF WritersInit, StoredTurnsStay
<1> QED BY <1>2, <1>3, <1>4, <1>5 DEF WritersIInv, Sound, Formed

\* Whatever a save of o's session does to the file, to o and to the cache, it
\* keeps the objects of the jobs.
LEMMA SaveMetadataForms ==
  ASSUME Formed, NEW o \in Objects, SaveMetadata(o)
  PROVE  /\ disk' \in [Ids -> Content] /\ heap' \in [Objects -> Object]
         /\ cache' \in Objects \cup {None} /\ recovered' \in BOOLEAN
         /\ \A p \in Objects : heap'[p].id = heap[p].id
<1> DEFINE i == heap[o].id
<1>1. i \in Ids /\ heap[o] \in Object /\ disk[i] \in Content
  BY DEF Formed, WritersTypeOK, Object
<1>2. heap[o].rev \in Nat /\ disk[i].rev \in Nat
  BY <1>1 DEF Object, Content
<1>3. CASE Matches(i, heap[o].rev)
  <2> DEFINE new == [heap[o] EXCEPT !.rev = @ + 1]
  <2>1. Store(o, new) /\ UNCHANGED recovered
    BY <1>3 DEF SaveMetadata
  <2>2. new = [id |-> i, rev |-> heap[o].rev + 1, turns |-> heap[o].turns]
    BY <1>1 DEF Object
  <2>3. new \in Object
    BY <1>1, <1>2, <2>2 DEF Object
  <2>4. [rev |-> new.rev, turns |-> new.turns] \in Content /\ new.id = i
    BY <2>2, <2>3 DEF Object, Content
  <2> HIDE DEF new
  <2> QED BY <1>1, <2>1, <2>3, <2>4 DEF Store, Formed, WritersTypeOK
<1>4. CASE ~Matches(i, heap[o].rev)
  <2>1. /\ recovered' = TRUE /\ cache' = None
        /\ disk' = [disk EXCEPT ![i] = [disk[i] EXCEPT !.rev = @ + 1]]
        /\ heap' = [heap EXCEPT ![o] = [heap[o] EXCEPT !.rev = disk[i].rev + 1]]
    BY <1>4 DEF SaveMetadata
  <2>2. [disk[i] EXCEPT !.rev = @ + 1] \in Content
    BY <1>1, <1>2 DEF Content
  <2>3. [heap[o] EXCEPT !.rev = disk[i].rev + 1] \in Object
        /\ [heap[o] EXCEPT !.rev = disk[i].rev + 1].id = heap[o].id
    BY <1>1, <1>2 DEF Object
  <2> QED BY <1>1, <2>1, <2>2, <2>3 DEF Formed, WritersTypeOK
<1> QED BY <1>3, <1>4

\* A synchronisation goes into its next phase, or the one that waits takes its
\* place; those of the other sessions are left alone.
LEMMA SyncMoves ==
  ASSUME Formed, NEW i \in Ids, AppendTurn(i) \/ Distill(i)
  PROVE  /\ sync' \in [Ids -> Jobs] /\ nextSync' \in [Ids -> Objects \cup {None}]
         /\ \A k \in Ids : \/ sync'[k].obj = sync[k].obj /\ sync[k].phase # "none"
                           \/ sync'[k] = sync[k]
                           \/ nextSync[k] # None /\ sync'[k].obj = nextSync[k]
                           \/ sync'[k] = NoJob
         /\ \A k \in Ids : nextSync'[k] \in {nextSync[k], None}
<1>1. sync[i].phase # "none" /\ sync[i] \in Jobs
  BY DEF AppendTurn, Distill, Formed, WritersTypeOK
<1>2. CASE sync' = [sync EXCEPT ![i].phase = "distill"] /\ UNCHANGED nextSync
  <2> DEFINE job == [sync[i] EXCEPT !.phase = "distill"]
  <2>1. sync' = [sync EXCEPT ![i] = job]
    BY <1>2
  <2>2. job \in Jobs /\ job.obj = sync[i].obj
    BY <1>1 DEF Jobs
  <2> HIDE DEF job
  <2>3. sync \in [Ids -> Jobs] /\ nextSync \in [Ids -> Objects \cup {None}]
    BY DEF Formed, WritersTypeOK
  <2>4. sync' \in [Ids -> Jobs] /\ \A k \in Ids : sync'[k] = IF k = i THEN job ELSE sync[k]
    BY <2>1, <2>2, <2>3
  <2> QED BY <1>1, <1>2, <2>2, <2>3, <2>4
<1>3. CASE EndSync(i)
  <2> DEFINE job == IF nextSync[i] = None THEN NoJob
                    ELSE [phase |-> "append", obj |-> nextSync[i], before |-> 0]
  <2>1. sync' = [sync EXCEPT ![i] = job] /\ nextSync' = [nextSync EXCEPT ![i] = None]
    BY <1>3 DEF EndSync
  <2>2. job \in Jobs /\ (job = NoJob \/ (nextSync[i] # None /\ job.obj = nextSync[i]))
    BY DEF NoJob, Jobs, Formed, WritersTypeOK
  <2> HIDE DEF job
  <2>3. sync \in [Ids -> Jobs] /\ nextSync \in [Ids -> Objects \cup {None}]
    BY DEF Formed, WritersTypeOK
  <2>4. sync' \in [Ids -> Jobs] /\ \A k \in Ids : sync'[k] = IF k = i THEN job ELSE sync[k]
    BY <2>1, <2>2, <2>3
  <2>5. /\ nextSync' \in [Ids -> Objects \cup {None}]
        /\ \A k \in Ids : nextSync'[k] \in {nextSync[k], None}
    BY <2>1, <2>3
  <2> QED BY <2>2, <2>4, <2>5
<1> QED BY <1>2, <1>3 DEF AppendTurn, Distill

\* The end of a synchronisation, or its next phase, leaves the jobs of the
\* other sessions alone.
LEMMA SyncForms ==
  ASSUME Formed, NEW i \in Ids, AppendTurn(i) \/ Distill(i)
  PROVE  Formed'
<1> DEFINE o == sync[i].obj
<1>1. o \in Objects
  BY DEF AppendTurn, Distill, Formed, JobsBelong
<1>2. /\ disk' \in [Ids -> Content] /\ heap' \in [Objects -> Object]
      /\ cache' \in Objects \cup {None} /\ recovered' \in BOOLEAN
      /\ \A p \in Objects : heap'[p].id = heap[p].id
  BY <1>1, SaveMetadataForms DEF AppendTurn, Distill
<1>3. UNCHANGED <<active, agent, compact, nextCompact, done, refused, switches>>
  BY DEF AppendTurn, Distill
<1>4. /\ sync' \in [Ids -> Jobs] /\ nextSync' \in [Ids -> Objects \cup {None}]
      /\ \A k \in Ids : \/ sync'[k].obj = sync[k].obj /\ sync[k].phase # "none"
                        \/ sync'[k] = sync[k]
                        \/ nextSync[k] # None /\ sync'[k].obj = nextSync[k]
                        \/ sync'[k] = NoJob
      /\ \A k \in Ids : nextSync'[k] \in {nextSync[k], None}
  BY SyncMoves
<1>5. WritersTypeOK'
  BY <1>2, <1>3, <1>4 DEF Formed, WritersTypeOK
<1>6. JobsBelong'
  BY <1>2, <1>3, <1>4 DEF Formed, JobsBelong, WritersTypeOK, NoJob
<1> QED BY <1>5, <1>6 DEF Formed

\* A stored object keeps its session, so that the jobs' objects do.
LEMMA StoreForms ==
  ASSUME Formed, NEW o \in Objects, NEW new \in Object, new.id = heap[o].id, Store(o, new)
  PROVE  /\ disk' \in [Ids -> Content] /\ heap' \in [Objects -> Object] /\ cache' \in Objects
         /\ \A p \in Objects : heap'[p].id = heap[p].id
<1>1. new.id \in Ids /\ [rev |-> new.rev, turns |-> new.turns] \in Content
  BY DEF Object, Content
<1> QED BY <1>1 DEF Store, Formed, WritersTypeOK

\* Every step, the conflict recovery included, keeps types and jobs.
LEMMA NextFormed == ASSUME Formed, [WritersNext]_writersVars PROVE Formed'
<1> USE DEF Formed
<1>1. ASSUME NEW i \in Ids, Switch(i) PROVE Formed'
  BY <1>1 DEF Switch, WritersTypeOK, JobsBelong, jobs
<1>2. ASSUME NEW o \in Objects, StartTurn(o) PROVE Formed'
  <2>1. Loaded(active) \in Object
    BY DEF WritersTypeOK, Loaded, Object, Content
  <2>2. WritersTypeOK'
    BY <1>2, <2>1 DEF StartTurn, WritersTypeOK, jobs
  <2>3. \A p \in Objects : p \in Held => heap'[p] = heap[p]
    BY <1>2 DEF StartTurn, WritersTypeOK, Held
  <2>4. JobsBelong'
    BY <1>2, <2>3 DEF StartTurn, JobsBelong, WritersTypeOK, Held, jobs
  <2> QED BY <2>2, <2>4
<1>3. ASSUME NEW t \in Turns, FinishTurn(t) PROVE Formed'
  <2> DEFINE o == agent
             s == heap[o]
             new == Extended(s, t)
  <2>1. o \in Objects /\ s \in Object /\ s.id \in Ids
    BY <1>3 DEF FinishTurn, WritersTypeOK, Object
  <2>2. CASE ~Matches(s.id, s.rev)
    BY <1>3, <2>2 DEF FinishTurn, WritersTypeOK, JobsBelong, jobs
  <2>3. CASE Matches(s.id, s.rev)
    <3>1. /\ Store(o, new) /\ StartCompaction(o) /\ StartSync(o)
          /\ done' = done \cup {t} /\ agent' = None
          /\ UNCHANGED <<active, switches, refused, recovered>>
      BY <1>3, <2>3 DEF FinishTurn
    <3>2. new \in Object /\ new.id = s.id
      BY <2>1 DEF Extended, Object
    <3>3. /\ disk' \in [Ids -> Content] /\ heap' \in [Objects -> Object] /\ cache' \in Objects
          /\ \A p \in Objects : heap'[p].id = heap[p].id
      BY <2>1, <3>1, <3>2, StoreForms
    <3>4. \E job \in Jobs : /\ job.phase = "compact" /\ job.obj = o
                           /\ compact' \in {compact, [compact EXCEPT ![s.id] = job]}
                           /\ nextCompact' \in {nextCompact, [nextCompact EXCEPT ![s.id] = job]}
      <4> DEFINE job == [phase |-> "compact", obj |-> o, before |-> heap'[o].rev]
      <4>1. job \in Jobs
        BY <3>3, <2>1 DEF Jobs, Object
      <4> QED BY <4>1, <3>1 DEF StartCompaction
    <3>5. \/ UNCHANGED <<sync, nextSync>>
          \/ /\ sync' = [sync EXCEPT ![s.id] = [phase |-> "append", obj |-> o, before |-> 0]]
             /\ UNCHANGED nextSync
          \/ nextSync' = [nextSync EXCEPT ![s.id] = o] /\ UNCHANGED sync
      BY <3>1 DEF StartSync
    <3>6. [phase |-> "append", obj |-> o, before |-> 0] \in Jobs
      BY <2>1 DEF Jobs
    <3>7. WritersTypeOK'
      BY <2>1, <3>1, <3>3, <3>4, <3>5, <3>6 DEF WritersTypeOK
    <3>8. \A i \in Ids :
            /\ compact'[i] = compact[i] \/ (i = s.id /\ compact'[i].obj = o)
            /\ nextCompact'[i] = nextCompact[i] \/ (i = s.id /\ nextCompact'[i].obj = o)
            /\ sync'[i] = sync[i] \/ (i = s.id /\ sync'[i].obj = o)
            /\ nextSync'[i] = nextSync[i] \/ (i = s.id /\ nextSync'[i] = o)
      BY <2>1, <3>4, <3>5 DEF WritersTypeOK
    <3>9. JobsBelong'
      BY <2>1, <3>3, <3>8 DEF JobsBelong, WritersTypeOK
    <3> QED BY <3>7, <3>9
  <2> QED BY <2>2, <2>3
<1>4. ASSUME NEW i \in Ids, FinishCompaction(i) PROVE Formed'
  <2> DEFINE o == compact[i].obj
             new == [heap[o] EXCEPT !.rev = compact[i].before + 1]
  <2>1. o \in Objects /\ heap[o] \in Object
    BY <1>4 DEF FinishCompaction, JobsBelong, WritersTypeOK
  <2>2. /\ disk' \in [Ids -> Content] /\ heap' \in [Objects -> Object]
        /\ cache' \in Objects \cup {None}
        /\ \A p \in Objects : heap'[p].id = heap[p].id
    <3>1. CASE Store(o, new)
      <4>1. compact[i].before + 1 \in Nat
        BY DEF WritersTypeOK, Jobs
      <4>2. new \in Object /\ new.id = heap[o].id
        BY <2>1, <4>1 DEF Object
      <4> HIDE DEF new, o
      <4> QED BY <3>1, <2>1, <4>2, StoreForms
    <3>2. CASE UNCHANGED <<disk, heap, cache>>
      BY <3>2 DEF WritersTypeOK
    <3> QED BY <1>4, <3>1, <3>2 DEF FinishCompaction
  <2>3. /\ \/ compact' = [compact EXCEPT ![i] = NoJob]
           \/ nextCompact[i].phase = "compact" /\ compact' = [compact EXCEPT ![i] = nextCompact[i]]
        /\ nextCompact' = [nextCompact EXCEPT ![i] = NoJob]
        /\ UNCHANGED <<active, agent, sync, nextSync, done, refused, switches, recovered>>
    BY <1>4 DEF FinishCompaction
  <2>4. NoJob \in Jobs /\ NoJob.phase = "none"
    BY DEF NoJob, Jobs
  <2>5. WritersTypeOK'
    BY <2>2, <2>3, <2>4 DEF WritersTypeOK
  <2>6. JobsBelong'
    BY <2>2, <2>3, <2>4 DEF JobsBelong, WritersTypeOK
  <2> QED BY <2>5, <2>6
<1>5. ASSUME NEW i \in Ids, AppendTurn(i) \/ Distill(i) PROVE Formed'
  BY <1>5, SyncForms
<1>6. ASSUME UNCHANGED writersVars PROVE Formed'
  BY <1>6 DEF writersVars, jobs, WritersTypeOK, JobsBelong
<1> QED BY <1>1, <1>2, <1>3, <1>4, <1>5, <1>6 DEF WritersNext

\* A save of object o as `new` on top of the current revision keeps the
\* revisions sound for every object held before it.
LEMMA StoreKeepsRevisions ==
  ASSUME Sound, NEW o \in Held \ {None}, NEW new \in Object,
         new.id = heap[o].id, new.rev = disk[new.id].rev + 1, Store(o, new)
  PROVE  /\ disk' \in [Ids -> Content] /\ heap' \in [Objects -> Object]
         /\ cache' \in Objects \cup {None}
         /\ \A p \in Held \ {None} : heap'[p].id = heap[p].id
         /\ \A p \in Held \ {None} :
              /\ heap'[p].rev <= disk'[heap'[p].id].rev
              /\ heap'[p].rev = disk'[heap'[p].id].rev
                   => heap'[p].turns = disk'[heap'[p].id].turns
<1> USE DEF Formed
<1>1. Held \ {None} \subseteq Objects
  BY DEF Sound, WritersTypeOK, Held, Jobs
<1>2. o \in Objects /\ heap[o].id \in Ids /\ new.id \in Ids /\ new.rev \in Nat
  BY <1>1 DEF Sound, WritersTypeOK, Object
<1>3. [rev |-> new.rev, turns |-> new.turns] \in Content
  BY DEF Object, Content
<1>4. disk' \in [Ids -> Content] /\ heap' \in [Objects -> Object] /\ cache' = o
  BY <1>2, <1>3 DEF Sound, WritersTypeOK, Store
<1>5. ASSUME NEW p \in Held \ {None}
      PROVE  /\ heap'[p].id = heap[p].id
             /\ heap'[p].rev <= disk'[heap'[p].id].rev
             /\ heap'[p].rev = disk'[heap'[p].id].rev
                  => heap'[p].turns = disk'[heap'[p].id].turns
  <2>1. p \in Objects /\ heap[p] \in Object /\ disk[heap[p].id] \in Content
    BY <1>1 DEF Sound, WritersTypeOK, Object
  <2>2. /\ heap[p].rev <= disk[heap[p].id].rev
        /\ heap[p].rev = disk[heap[p].id].rev => heap[p].turns = disk[heap[p].id].turns
    BY DEF Sound, RevisionsAgree
  <2>3. CASE p = o
    <3>1. heap'[p] = new /\ disk'[new.id] = [rev |-> new.rev, turns |-> new.turns]
      BY <2>3, <1>2 DEF Store, Sound, WritersTypeOK
    <3> QED BY <3>1, <2>3, <1>2
  <2>4. CASE p # o /\ heap[p].id = new.id
    <3>1. heap'[p] = heap[p] /\ disk'[new.id] = [rev |-> new.rev, turns |-> new.turns]
      BY <2>4, <2>1, <1>2 DEF Store, Sound, WritersTypeOK
    <3>2. heap[p].rev \in Nat /\ disk[new.id].rev \in Nat /\ heap[p].rev <= disk[new.id].rev
      BY <2>1, <2>2, <2>4 DEF Object, Content
    <3> QED BY <3>1, <3>2, <2>4
  <2>5. CASE p # o /\ heap[p].id # new.id
    <3>1. heap'[p] = heap[p] /\ disk'[heap[p].id] = disk[heap[p].id]
      BY <2>5, <2>1, <1>2 DEF Store, Sound, WritersTypeOK, Object
    <3> QED BY <3>1, <2>2
  <2> QED BY <2>3, <2>4, <2>5
<1> QED BY <1>1, <1>2, <1>4, <1>5

\* Every step of the writers that is no conflict recovery keeps the revisions
\* sound and the stored turns in their files.
LEMMA NextSound == ASSUME Sound, [WritersNext]_writersVars, ~recovered' PROVE Sound'
<1> USE DEF Sound, Formed
<1>f. Formed'
  BY NextFormed
<1>h. Held \ {None} \subseteq Objects
  BY DEF WritersTypeOK, Held, Jobs
<1>1. ASSUME NEW i \in Ids, Switch(i) PROVE RevisionsAgree' /\ StoredTurnsStay'
  <2>1. Held' = Held
    BY <1>1 DEF Switch, Held, jobs
  <2> QED BY <1>1, <2>1 DEF Switch, RevisionsAgree, StoredTurnsStay
<1>2. ASSUME NEW o \in Objects, StartTurn(o) PROVE RevisionsAgree' /\ StoredTurnsStay'
  <2>1. Held' \ {None} \subseteq Held \cup {o} /\ UNCHANGED disk
    BY <1>2 DEF StartTurn, Held, jobs
  <2>2. StoredTurnsStay'
    BY <1>2 DEF StartTurn, StoredTurnsStay
  <2>3. CASE UNCHANGED <<heap, cache>> /\ Cached(o)
    BY <2>1, <2>2, <2>3 DEF RevisionsAgree, Cached
  <2>4. CASE o \notin Held /\ heap' = [heap EXCEPT ![o] = Loaded(active)]
    <3>1. ASSUME NEW p \in Held' \ {None}
          PROVE  /\ heap'[p].rev <= disk'[heap'[p].id].rev
                 /\ heap'[p].rev = disk'[heap'[p].id].rev
                      => heap'[p].turns = disk'[heap'[p].id].turns
      <4>1. CASE p = o
        <5>1. heap'[p] = Loaded(active) /\ disk[active].rev \in Nat
          BY <2>4, <4>1 DEF WritersTypeOK, Content
        <5> QED BY <2>1, <5>1 DEF Loaded
      <4>2. CASE p # o
        <5>1. p \in Held \ {None} /\ heap'[p] = heap[p]
          BY <2>1, <2>4, <4>2, <1>h DEF WritersTypeOK
        <5> QED BY <2>1, <5>1 DEF RevisionsAgree
      <4> QED BY <4>1, <4>2
    <3> QED BY <2>2, <3>1 DEF RevisionsAgree
  <2> QED BY <1>2, <2>3, <2>4 DEF StartTurn
<1>3. ASSUME NEW t \in Turns, FinishTurn(t) PROVE RevisionsAgree' /\ StoredTurnsStay'
  <2> DEFINE o == agent
             s == heap[o]
             new == Extended(s, t)
  <2>1. o \in Held \ {None} /\ o \in Objects /\ s \in Object /\ s.id \in Ids
    BY <1>3 DEF FinishTurn, Held, WritersTypeOK, Object
  <2>2. CASE ~Matches(s.id, s.rev)
    <3>1. UNCHANGED <<disk, heap, jobs, done>> /\ agent' = None
      BY <1>3, <2>2 DEF FinishTurn
    <3>2. Held' \subseteq Held \cup {None}
      BY <3>1 DEF Held, jobs
    <3> QED BY <3>1, <3>2 DEF RevisionsAgree, StoredTurnsStay
  <2>3. CASE Matches(s.id, s.rev)
    <3>1. /\ Store(o, new) /\ StartCompaction(o) /\ StartSync(o)
          /\ done' = done \cup {t} /\ agent' = None
      BY <1>3, <2>3 DEF FinishTurn
    <3>2. /\ new \in Object /\ new.id = s.id /\ new.rev = disk[new.id].rev + 1
          /\ new.turns = s.turns \cup {t}
      BY <2>1, <2>3 DEF Extended, Object, Matches
    <3>3. RevisionsAgree'
      <4>1. \A p \in Held \ {None} :
              /\ heap'[p].rev <= disk'[heap'[p].id].rev
              /\ heap'[p].rev = disk'[heap'[p].id].rev
                   => heap'[p].turns = disk'[heap'[p].id].turns
        BY <2>1, <3>1, <3>2, StoreKeepsRevisions
      <4>2. \A i \in Ids : compact'[i].obj \in {compact[i].obj, o}
                           /\ nextCompact'[i].obj \in {nextCompact[i].obj, o}
        BY <3>1, <2>1 DEF StartCompaction, WritersTypeOK
      <4>3. \A i \in Ids : sync'[i].obj \in {sync[i].obj, o} /\ nextSync'[i] \in {nextSync[i], o}
        BY <3>1, <2>1 DEF StartSync, WritersTypeOK
      <4>4. Held' \ {None} \subseteq Held
        BY <4>2, <4>3, <2>1, <3>1 DEF Held
      <4> QED BY <4>1, <4>4 DEF RevisionsAgree
    <3>4. StoredTurnsStay'
      <4>1. s.turns = disk[s.id].turns
        BY <2>1, <2>3 DEF RevisionsAgree, Matches
      <4>2. disk'[s.id].turns = disk[s.id].turns \cup {t}
        BY <3>1, <3>2, <2>1, <4>1 DEF Store, WritersTypeOK
      <4>3. \A i \in Ids \ {s.id} : disk'[i] = disk[i]
        BY <3>1, <3>2 DEF Store, WritersTypeOK
      <4>4. UNION {disk'[i].turns : i \in Ids} = (UNION {disk[i].turns : i \in Ids}) \cup {t}
        BY <4>2, <4>3, <2>1
      <4> QED BY <4>4, <3>1 DEF StoredTurnsStay
    <3> QED BY <3>3, <3>4
  <2> QED BY <2>2, <2>3
<1>4. ASSUME NEW i \in Ids, FinishCompaction(i) PROVE RevisionsAgree' /\ StoredTurnsStay'
  <2> DEFINE o == compact[i].obj
             before == compact[i].before
             new == [heap[o] EXCEPT !.rev = before + 1]
  <2>1. o \in Objects /\ heap[o].id = i /\ heap[o] \in Object /\ o \in Held \ {None}
    BY <1>4, WritersAssumption DEF FinishCompaction, JobsBelong, WritersTypeOK, Held
  <2>2. Held' \subseteq Held \cup {None}
    <3>1. \A k \in Ids : compact'[k].obj \in {compact[k].obj, nextCompact[k].obj, None}
                         /\ nextCompact'[k].obj \in {nextCompact[k].obj, None}
      BY <1>4 DEF FinishCompaction, WritersTypeOK, NoJob
    <3> QED BY <3>1, <1>4 DEF FinishCompaction, Held
  <2>3. CASE Unchanged(i) /\ Matches(i, before)
    <3>1. Store(o, new)
      BY <1>4, <2>3 DEF FinishCompaction
    <3>2. /\ new \in Object /\ new.id = i /\ new.rev = disk[new.id].rev + 1
          /\ new.turns = heap[o].turns /\ heap[o].rev = disk[i].rev
      <4>1. before \in Nat
        BY DEF WritersTypeOK, Jobs
      <4>2. new = [id |-> i, rev |-> before + 1, turns |-> heap[o].turns]
        BY <2>1 DEF Object
      <4> QED BY <4>1, <4>2, <2>1, <2>3 DEF Object, Matches, Unchanged
    <3>3. heap[o].turns = disk[i].turns
      BY <2>1, <3>2 DEF RevisionsAgree
    <3>4. \A k \in Ids : disk'[k].turns = disk[k].turns
      BY <3>1, <3>2, <3>3 DEF Store, WritersTypeOK
    <3> HIDE DEF new, o
    <3>5. new.id = heap[o].id
      BY <3>2, <2>1
    <3>6. \A p \in Held \ {None} :
            /\ heap'[p].rev <= disk'[heap'[p].id].rev
            /\ heap'[p].rev = disk'[heap'[p].id].rev
                 => heap'[p].turns = disk'[heap'[p].id].turns
      BY <3>1, <3>2, <3>5, <2>1, StoreKeepsRevisions
    <3> QED BY <1>4, <2>2, <3>4, <3>6 DEF FinishCompaction, RevisionsAgree, StoredTurnsStay
  <2>4. CASE ~(Unchanged(i) /\ Matches(i, before))
    <3>1. UNCHANGED <<disk, heap, done>>
      BY <1>4, <2>4 DEF FinishCompaction
    <3> QED BY <2>2, <3>1 DEF RevisionsAgree, StoredTurnsStay
  <2> QED BY <2>3, <2>4
<1>5. ASSUME NEW i \in Ids, AppendTurn(i) \/ Distill(i) PROVE RevisionsAgree' /\ StoredTurnsStay'
  <2> DEFINE o == sync[i].obj
             new == [heap[o] EXCEPT !.rev = @ + 1]
  <2>1. o \in Objects /\ heap[o].id = i /\ heap[o] \in Object /\ o \in Held \ {None}
    BY <1>5, WritersAssumption DEF AppendTurn, Distill, JobsBelong, WritersTypeOK, Held
  <2>2. Matches(i, heap[o].rev) /\ Store(o, new)
    BY <1>5, <2>1 DEF AppendTurn, Distill, SaveMetadata
  <2>3. /\ new \in Object /\ new.id = heap[o].id /\ new.rev = disk[new.id].rev + 1
        /\ new.id = i /\ new.turns = disk[i].turns
    <3>1. heap[o].rev \in Nat /\ heap[o].rev = disk[i].rev
      BY <2>1, <2>2 DEF Object, Matches
    <3>2. new = [id |-> i, rev |-> heap[o].rev + 1, turns |-> heap[o].turns]
      BY <2>1 DEF Object
    <3>3. new \in Object
      BY <3>1, <3>2, <2>1 DEF Object
    <3>4. heap[o].turns = disk[i].turns
      BY <2>1, <3>1 DEF RevisionsAgree
    <3> QED BY <3>1, <3>2, <3>3, <3>4, <2>1
  <2> HIDE DEF new
  <2>4. \A p \in Held \ {None} :
          /\ heap'[p].rev <= disk'[heap'[p].id].rev
          /\ heap'[p].rev = disk'[heap'[p].id].rev
               => heap'[p].turns = disk'[heap'[p].id].turns
    BY <2>1, <2>2, <2>3, StoreKeepsRevisions
  <2>5. \A k \in Ids : disk'[k].turns = disk[k].turns
    BY <2>2, <2>3 DEF Store, WritersTypeOK
  <2>6. \A k \in Ids : sync'[k].obj \in {sync[k].obj, nextSync[k], None}
                       /\ nextSync'[k] \in {nextSync[k], None}
    BY <1>5, SyncMoves DEF NoJob
  <2>7. Held' \subseteq Held \cup {None}
    BY <1>5, <2>6 DEF AppendTurn, Distill, Held
  <2> QED BY <1>5, <2>4, <2>5, <2>7 DEF AppendTurn, Distill, RevisionsAgree, StoredTurnsStay
<1>6. ASSUME UNCHANGED writersVars PROVE RevisionsAgree' /\ StoredTurnsStay'
  <2>1. Held' = Held
    BY <1>6 DEF writersVars, jobs, Held
  <2> QED BY <1>6, <2>1 DEF writersVars, jobs, RevisionsAgree, StoredTurnsStay
<1> QED BY <1>f, <1>1, <1>2, <1>3, <1>4, <1>5, <1>6 DEF WritersNext

\* Every step of the writers preserves the invariant.
LEMMA NextWritersIInv == ASSUME WritersIInv, [WritersNext]_writersVars PROVE WritersIInv'
<1>1. CASE recovered
  <2>1. recovered'
    BY <1>1 DEF WritersNext, writersVars, Switch, FinishCompaction, AppendTurn, Distill, SaveMetadata, StartTurn, FinishTurn
  <2> QED BY <2>1 DEF WritersIInv
<1>2. CASE ~recovered
  BY <1>2, NextSound DEF WritersIInv
<1> QED BY <1>1, <1>2

\* No save of a turn, a compaction or a synchronisation, made with any object
\* loaded at any time, removes a stored turn from its file before the first
\* conflict recovery of _save_metadata().
THEOREM StoredTurnsAreSafe == WritersSpec => []StoredUntilRecovery
<1>1. WritersIInv => StoredUntilRecovery
  BY DEF WritersIInv, Sound, StoredUntilRecovery
<1>2. WritersIInv /\ [WritersNext]_writersVars => WritersIInv'
  BY NextWritersIInv
<1> QED BY <1>1, <1>2, InitWritersIInv, PTL DEF WritersSpec

\* Until then equal revisions mean equal content, for every object in memory:
\* comparing revisions is a sufficient check.
THEOREM RevisionsAreSound == WritersSpec => []RevisionIdentifiesContent
<1>1. WritersIInv => RevisionIdentifiesContent
  BY DEF WritersIInv, Sound, RevisionIdentifiesContent
<1>2. WritersIInv /\ [WritersNext]_writersVars => WritersIInv'
  BY NextWritersIInv
<1> QED BY <1>1, <1>2, InitWritersIInv, PTL DEF WritersSpec

-----------------------------------------------------------------------------
(* Before the first switch of the active session there is one object, which  *)
(* all writers share: its revision is its file's, so nobody meets a conflict. *)

Alone ==
  switches = 0 =>
    /\ ~recovered /\ refused = {}
    /\ \A p \in Held \ {None} :
         p = cache /\ heap[p].id = active /\ heap[p].rev = disk[active].rev

\* While the user stays in one session the writers go on sharing one object.
LEMMA NextAlone == ASSUME Formed, Alone, [WritersNext]_writersVars PROVE Alone'
<1> SUFFICES ASSUME switches' = 0
             PROVE  /\ ~recovered' /\ refused' = {}
                    /\ \A p \in Held' \ {None} : /\ p = cache' /\ heap'[p].id = active'
                                                /\ heap'[p].rev = disk'[active'].rev
  BY DEF Alone
<1> USE DEF Formed
<1>h. Held \ {None} \subseteq Objects
  BY DEF WritersTypeOK, Held, Jobs
<1>0. /\ switches = 0 /\ ~recovered /\ refused = {} /\ UNCHANGED active
      /\ \A p \in Held \ {None} :
           p = cache /\ heap[p].id = active /\ heap[p].rev = disk[active].rev
  <2>1. \A i \in Ids : ~Switch(i)
    BY DEF Switch, WritersTypeOK
  <2>2. UNCHANGED <<switches, active>>
    BY <2>1 DEF WritersNext, writersVars, FinishCompaction, AppendTurn, Distill, StartTurn, FinishTurn
  <2> QED BY <2>2 DEF Alone
<1> DEFINE Shared == /\ ~recovered' /\ refused' = {}
                     /\ \A p \in Held' \ {None} : /\ p = cache' /\ heap'[p].id = active
                                                 /\ heap'[p].rev = disk'[active].rev
\* A save by one of the writers.
<1>s. ASSUME NEW o \in Held \ {None}, NEW new \in Object, Store(o, new),
             new.id = heap[o].id, new.rev = heap[o].rev + 1,
             Held' \ {None} \subseteq Held, UNCHANGED <<recovered, refused>>
      PROVE  Shared
  <2>1. o \in Objects /\ heap[o].id = active /\ active \in Ids
    BY <1>0, <1>h DEF WritersTypeOK
  <2>2. heap'[o] = new /\ cache' = o /\ disk'[active].rev = new.rev
    BY <1>s, <2>1 DEF Store, WritersTypeOK
  <2>3. \A p \in Held' \ {None} : p = o
    BY <1>s, <1>0
  <2> QED BY <1>s, <1>0, <2>1, <2>2, <2>3
<1>1. ASSUME NEW o \in Objects, StartTurn(o) PROVE Shared
  <2>1. Held' \ {None} \subseteq Held \cup {o} /\ UNCHANGED <<disk, recovered, refused>>
    BY <1>1 DEF StartTurn, Held, jobs
  <2>2. CASE UNCHANGED <<heap, cache>> /\ Cached(o)
    BY <1>0, <2>1, <2>2 DEF Cached
  <2>3. CASE /\ \A p \in Objects : ~Cached(p)
             /\ heap' = [heap EXCEPT ![o] = Loaded(active)] /\ cache' = o
    <3>1. Held \ {None} = {}
      BY <1>0, <1>h, <2>3 DEF Cached
    <3>2. heap'[o] = Loaded(active)
      BY <2>3 DEF WritersTypeOK
    <3> QED BY <1>0, <2>1, <2>3, <3>1, <3>2 DEF Loaded
  <2> QED BY <1>1, <2>2, <2>3 DEF StartTurn
<1>2. ASSUME NEW t \in Turns, FinishTurn(t) PROVE Shared
  <2> DEFINE o == agent
             s == heap[o]
             new == Extended(s, t)
  <2>1. o \in Held \ {None} /\ o \in Objects /\ s \in Object /\ s.id \in Ids
    BY <1>2 DEF FinishTurn, Held, WritersTypeOK, Object
  <2>2. Matches(s.id, s.rev)
    BY <1>0, <2>1 DEF Matches
  <2>3. /\ Store(o, new) /\ StartCompaction(o) /\ StartSync(o) /\ agent' = None
        /\ UNCHANGED <<recovered, refused>>
    BY <1>2, <2>2 DEF FinishTurn
  <2>4. new \in Object /\ new.id = s.id /\ new.rev = s.rev + 1
    BY <2>1 DEF Extended, Object
  <2>5. \A i \in Ids : compact'[i].obj \in {compact[i].obj, o}
                       /\ nextCompact'[i].obj \in {nextCompact[i].obj, o}
    BY <2>3, <2>1 DEF StartCompaction, WritersTypeOK
  <2>6. \A i \in Ids : sync'[i].obj \in {sync[i].obj, o} /\ nextSync'[i] \in {nextSync[i], o}
    BY <2>3, <2>1 DEF StartSync, WritersTypeOK
  <2>7. Held' \ {None} \subseteq Held
    BY <2>1, <2>3, <2>5, <2>6 DEF Held
  <2> QED BY <1>s, <2>1, <2>3, <2>4, <2>7
<1>3. ASSUME NEW i \in Ids, FinishCompaction(i) PROVE Shared
  <2> DEFINE o == compact[i].obj
             new == [heap[o] EXCEPT !.rev = compact[i].before + 1]
  <2>1. o \in Objects /\ heap[o].id = i /\ heap[o] \in Object /\ o \in Held \ {None}
    BY <1>3, WritersAssumption DEF FinishCompaction, JobsBelong, WritersTypeOK, Held
  <2>2. Held' \subseteq Held \cup {None}
    <3>1. \A k \in Ids : compact'[k].obj \in {compact[k].obj, nextCompact[k].obj, None}
                         /\ nextCompact'[k].obj \in {nextCompact[k].obj, None}
      BY <1>3 DEF FinishCompaction, WritersTypeOK, NoJob
    <3> QED BY <3>1, <1>3 DEF FinishCompaction, Held
  <2>3. CASE Unchanged(i) /\ Matches(i, compact[i].before)
    <3>1. Store(o, new) /\ UNCHANGED <<recovered, refused>>
      BY <1>3, <2>3 DEF FinishCompaction
    <3>2. new \in Object /\ new.id = heap[o].id /\ new.rev = heap[o].rev + 1
      BY <2>1, <2>3 DEF Unchanged, Object
    <3> HIDE DEF new, o
    <3> QED BY <1>s, <2>1, <2>2, <3>1, <3>2
  <2>4. CASE UNCHANGED <<disk, heap, cache>>
    BY <1>0, <1>3, <2>2, <2>4 DEF FinishCompaction
  <2> QED BY <1>3, <2>3, <2>4 DEF FinishCompaction
<1>4. ASSUME NEW i \in Ids, AppendTurn(i) \/ Distill(i) PROVE Shared
  <2> DEFINE o == sync[i].obj
             new == [heap[o] EXCEPT !.rev = @ + 1]
  <2>1. o \in Objects /\ heap[o].id = i /\ heap[o] \in Object /\ o \in Held \ {None}
    BY <1>4, WritersAssumption DEF AppendTurn, Distill, JobsBelong, WritersTypeOK, Held
  <2>2. Matches(heap[o].id, heap[o].rev)
    BY <1>0, <2>1 DEF Matches
  <2>3. Store(o, new) /\ UNCHANGED <<recovered, refused>>
    BY <1>4, <2>1, <2>2 DEF AppendTurn, Distill, SaveMetadata
  <2>4. new \in Object /\ new.id = heap[o].id /\ new.rev = heap[o].rev + 1
    BY <2>1 DEF Object
  <2>5. \A k \in Ids : sync'[k].obj \in {sync[k].obj, nextSync[k], None}
                       /\ nextSync'[k] \in {nextSync[k], None}
    BY <1>4, SyncMoves DEF NoJob
  <2>6. Held' \subseteq Held \cup {None}
    BY <1>4, <2>5 DEF AppendTurn, Distill, Held
  <2> HIDE DEF new, o
  <2> QED BY <1>s, <2>1, <2>3, <2>4, <2>6
<1>5. ASSUME UNCHANGED writersVars PROVE Shared
  <2>1. Held' = Held
    BY <1>5 DEF writersVars, jobs, Held
  <2> QED BY <1>5, <1>0, <2>1 DEF writersVars
<1>6. \A i \in Ids : ~Switch(i)
  BY <1>0 DEF Switch, WritersTypeOK
<1> HIDE DEF Shared
<1>7. Shared
  BY <1>1, <1>2, <1>3, <1>4, <1>5, <1>6 DEF WritersNext
<1> QED BY <1>0, <1>7 DEF Shared

\* A turn is refused only after a switch of the session, and the types hold:
\* background work alone never costs a turn.
THEOREM WritersConflictOnlyAfterSwitch == WritersSpec => []WritersInv
<1>1. WritersInit => Formed /\ Alone
  <2> SUFFICES ASSUME WritersInit PROVE Formed /\ Alone
    OBVIOUS
  <2>1. Formed
    BY InitWritersIInv DEF WritersIInv, Sound, WritersInit
  <2>2. Held = {None}
    BY WritersAssumption DEF WritersInit, Held, NoJob
  <2> QED BY <2>1, <2>2 DEF Alone, WritersInit
<1>2. Formed /\ Alone /\ [WritersNext]_writersVars => Formed' /\ Alone'
  BY NextFormed, NextAlone
<1>3. Formed /\ Alone => WritersInv
  BY DEF Formed, Alone, WritersInv, WritersTypeOK, RefusedOnlyAfterSwitch
<1> QED BY <1>1, <1>2, <1>3, PTL DEF WritersSpec

=============================================================================
