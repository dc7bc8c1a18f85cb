---------------------------- MODULE HttpApiProofs ----------------------------
(***************************************************************************)
(* What the HTTP API promises a browser: that its session operations and the  *)
(* turns of a session stay apart (SessionRoutes), that its event stream leaves *)
(* nothing out in silence (EventStream), and that the files it takes and       *)
(* serves are there (ArtifactRegistry), also across exits of the server that   *)
(* runs both (ApiServer).  Each has its inductive invariant: RoutesIInv,        *)
(* StreamIInv and ArtifactIInv.                                               *)
(***************************************************************************)
EXTENDS SessionRoutes, ApiServer, OrderingProofs, SequenceTheorems, FiniteSetTheorems,
        WellFoundedInduction, Integers, TLAPS

-----------------------------------------------------------------------------
(***************************************************************************)
(* That the guard of a route and the reservations keep a session and its      *)
(* turns apart (RoutesInv), that a mutation with a key is carried out once     *)
(* (OnceWhileRemembered), and that a session is deleted as its client saw it   *)
(* (DeletedAsSeen).                                                          *)
(*                                                                         *)
(* The invariant has a part for the cache and one for the route.  In the cache  *)
(* the work under way and the completed one of a key exclude each other        *)
(* (Flying), and two completed ones do (Memory).  On the route whoever is past  *)
(* the guard holds it (Guarded), so that no two works are; then an operation     *)
(* that finds nobody busy finds no submission half done, and what it misses    *)
(* has left the bus and not reached the loop (OnlyTheGapIsMissed).  Deleted is  *)
(* needed for the turns that such a deletion leaves behind.                    *)
(***************************************************************************)

Underway(r) == work[r] \notin {"none", "over"}

\* A request that nobody has sent has no work; a caller that waits knows for what.
Callers ==
  \A r \in Requests :
    /\ caller[r] = "new" => work[r] = "none"
    /\ caller[r] = "waiting" => flight[r] \in Requests

\* What a work ends with is known at its end, and only a submission is accepted.
Answers ==
  \A r \in Requests :
    /\ work[r] # "over" => answer[r] = "none"
    /\ work[r] = "publishing" => Keyed(r)
    /\ answer[r] = "accepted" => Keyed(r)

\* A key has one work under way, and then no completed one.
Flying ==
  /\ \A r \in Requests : Keyed(r) /\ Underway(r) => inflight[Key(r)] = r
  /\ \A k \in Keys : inflight[k] # None => Entry(k) = {}

\* A key has one completed work, and a turn is remembered until it is forgotten.
Memory ==
  /\ \A e, f \in ToSet(remembered) : Key(e) = Key(f) => e = f
  /\ \A r \in Requests : answer[r] = "accepted" => r \in ToSet(remembered) \cup forgotten

CacheInv == Callers /\ Answers /\ Flying /\ Memory /\ ClosedIsQuiet

Operating(r) == work[r] \in {"deleting", "cleaning", "compacting"}
PastGuard(r) == Operating(r) \/ work[r] \in {"publishing", "job"}

\* One request at a time is past the guard.
Guarded == \A r \in Requests : PastGuard(r) => Holds(r)

\* An operation has reserved the session as long as it works.
Reserved ==
  /\ \A r \in Requests : Operating(r) => exclusive = r
  /\ \A r \in Requests : exclusive = r => Operating(r) \/ work[r] = "over"
  /\ \A r \in Requests : work[r] = "deleting" => loaded[r] = revision

\* A turn is registered while its submission is past the guard.
Registered ==
  \A r \in Requests : work[r] = "publishing" <=> place[r] = "registered"

\* A chat without its session has no turn but those that the deletion missed.
Deleted == session # "there" /\ Unfinished # {} => blind # {}

RouteInv ==
  /\ Guarded
  /\ Reserved
  /\ Registered
  /\ Deleted
  /\ OperationsAreExclusive
  /\ OnlyTheGapIsMissed
  /\ RevivedByTheGapOnly

RoutesIInv == RoutesTypeOK /\ CacheInv /\ RouteInv

\* The types, of what the cache and the works keep and of the rest.
WorkStates == {"none", "arrived", "queued", "publishing", "deleting", "cleaning", "compacting",
               "job", "over"}
CacheTypes ==
  /\ caller \in [Requests -> {"new", "waiting", "answered", "gone"}]
  /\ flight \in [Requests -> Requests \cup {None}]
  /\ result \in [Requests -> Statuses \cup {"none", "conflict"}]
  /\ remembered \in Seq(Requests) /\ inflight \in [Keys -> Requests \cup {None}]
  /\ closing \in {"no", "waits", "closed"} /\ forgotten \subseteq Requests
  /\ work \in [Requests -> WorkStates] /\ answer \in [Requests -> Statuses \cup {"none"}]
RouteTypes ==
  /\ loaded \in [Requests -> Nat]
  /\ line \in Seq(Requests \cup {Dispatcher}) /\ exclusive \in Requests \cup {None}
  /\ session \in {"there", "gone", "new"} /\ revision \in Nat
  /\ place \in [Requests -> Places] /\ blind \subseteq Requests
OutTypes ==
  /\ out \in Seq(Output) /\ sending \in Output \cup {None}
  /\ left \in [outputs : Nat, others : Nat]

-----------------------------------------------------------------------------
(* The sequences from which an element is taken.                            *)

\* RemoveFirst() takes out one element that it finds and nothing else.
LEMMA Removal ==
  ASSUME NEW S, NEW s \in Seq(S), NEW e
  PROVE  /\ RemoveFirst(s, e) \in Seq(S)
         /\ ToSet(RemoveFirst(s, e)) \subseteq ToSet(s)
         /\ ToSet(s) \ {e} \subseteq ToSet(RemoveFirst(s, e))
         /\ s # <<>> /\ Head(s) # e =>
              RemoveFirst(s, e) # <<>> /\ Head(RemoveFirst(s, e)) = Head(s)
<1> DEFINE I == {j \in 1 .. Len(s) : s[j] = e}
<1>1. CASE I = {}
  <2>1. RemoveFirst(s, e) = s
    BY <1>1 DEF RemoveFirst
  <2> QED BY <2>1
<1>2. CASE I # {}
  <2>1. I \in SUBSET Nat
    OBVIOUS
  <2>2. \E k \in I : \A j \in I : k <= j
    <3> HIDE DEF I
    <3> QED BY <1>2, <2>1, LeastNumber
  <2>3. PICK k \in I : k = Min(I)
    BY <2>2 DEF Min
  <2>4. SelectInSeq(s, LAMBDA v : v = e) = k
    BY <2>3 DEF SelectInSeq
  <2>5. RemoveFirst(s, e) = SubSeq(s, 1, k - 1) \o SubSeq(s, k + 1, Len(s))
    BY <2>3, <2>4 DEF RemoveFirst, RemoveAt
  <2> DEFINE t == RemoveFirst(s, e)
  <2>6. k \in 1 .. Len(s) /\ s[k] = e /\ Len(s) \in Nat
    BY <2>3
  <2>7. /\ t \in Seq(S) /\ Len(t) = Len(s) - 1
        /\ \A i \in 1 .. Len(t) : t[i] = IF i < k THEN s[i] ELSE s[i + 1]
    <3> DEFINE a == SubSeq(s, 1, k - 1)
               b == SubSeq(s, k + 1, Len(s))
    <3>1. a \in Seq(S) /\ Len(a) = k - 1 /\ \A i \in 1 .. k - 1 : a[i] = s[i]
      BY <2>6
    <3>2. /\ b \in Seq(S) /\ Len(b) = Len(s) - k
          /\ \A i \in 1 .. Len(s) - k : b[i] = s[i + k]
      BY <2>6
    <3> HIDE DEF a, b
    <3>3. /\ a \o b \in Seq(S) /\ Len(a \o b) = Len(s) - 1
          /\ \A i \in 1 .. Len(s) - 1 : (a \o b)[i] = IF i <= k - 1 THEN a[i] ELSE b[i - (k - 1)]
      <4>1. /\ a \o b \in Seq(S) /\ Len(a \o b) = Len(a) + Len(b)
            /\ \A i \in 1 .. Len(a) + Len(b) :
                 (a \o b)[i] = IF i <= Len(a) THEN a[i] ELSE b[i - Len(a)]
        BY <3>1, <3>2, ConcatProperties
      <4>2. Len(a) + Len(b) = Len(s) - 1
        BY <2>6, <3>1, <3>2
      <4> QED BY <3>1, <4>1, <4>2
    <3>4. t = a \o b
      BY <2>5 DEF a, b
    <3>5. ASSUME NEW i \in 1 .. Len(s) - 1
          PROVE  (a \o b)[i] = IF i < k THEN s[i] ELSE s[i + 1]
      <4>1. CASE i < k
        BY <2>6, <3>1, <3>3, <4>1
      <4>2. CASE i >= k
        <5>1. PICK m \in 1 .. Len(s) - k : m = i - (k - 1)
          BY <2>6, <4>2
        <5>2. ~(i <= k - 1) /\ ~(i < k) /\ m + k = i + 1
          BY <2>6, <4>2, <5>1
        <5>3. (a \o b)[i] = b[m] /\ b[m] = s[m + k]
          BY <3>2, <3>3, <5>1, <5>2
        <5>4. (a \o b)[i] = s[i + 1]
          BY <5>2, <5>3
        <5> QED BY <5>2, <5>4
      <4>3. i < k \/ i >= k
        BY <2>6
      <4> QED BY <4>1, <4>2, <4>3
    <3> QED BY <3>3, <3>4, <3>5
  <2> HIDE DEF t
  <2>8. ToSet(t) \subseteq ToSet(s)
    BY <2>6, <2>7 DEF ToSet
  <2>9. ASSUME NEW x \in ToSet(s) \ {e} PROVE x \in ToSet(t)
    <3>1. PICK j \in 1 .. Len(s) : s[j] = x
      BY DEF ToSet
    <3>2. CASE j < k
      <4>1. j \in 1 .. Len(t) /\ t[j] = x
        BY <2>6, <2>7, <3>1, <3>2
      <4> QED BY <2>7, <4>1 DEF ToSet
    <3>3. CASE j > k
      <4>1. j - 1 \in 1 .. Len(t) /\ t[j - 1] = x
        BY <2>6, <2>7, <3>1, <3>3
      <4> QED BY <2>7, <4>1 DEF ToSet
    <3> QED BY <2>6, <3>1, <3>2, <3>3
  <2>10. s # <<>> /\ Head(s) # e => t # <<>> /\ Head(t) = Head(s)
    <3> SUFFICES ASSUME s # <<>>, Head(s) # e PROVE t # <<>> /\ Head(t) = Head(s)
      OBVIOUS
    <3>1. Head(s) = s[1] /\ k > 1
      BY <2>6
    <3>2. Len(t) > 0 /\ t[1] = s[1]
      BY <2>6, <2>7, <3>1
    <3> QED BY <2>7, <3>1, <3>2
  <2> QED BY <2>7, <2>8, <2>9, <2>10 DEF t
<1> QED BY <1>1, <1>2

\* The head of the line stays when somebody joins it at its end.
LEMMA Joining ==
  ASSUME NEW S, NEW s \in Seq(S), NEW e \in S
  PROVE  /\ Append(s, e) \in Seq(S)
         /\ ToSet(Append(s, e)) = ToSet(s) \cup {e}
         /\ s # <<>> => Append(s, e) # <<>> /\ Head(Append(s, e)) = Head(s)
<1> DEFINE t == Append(s, e)
<1>1. /\ t \in Seq(S) /\ Len(t) = Len(s) + 1 /\ Len(s) \in Nat
      /\ \A i \in 1 .. Len(s) : t[i] = s[i]
      /\ t[Len(s) + 1] = e
  OBVIOUS
<1> HIDE DEF t
<1>2. ToSet(t) = ToSet(s) \cup {e}
  <2>1. \A i \in 1 .. Len(t) : i \in 1 .. Len(s) \/ i = Len(s) + 1
    BY <1>1
  <2>2. 1 .. Len(s) \subseteq 1 .. Len(t) /\ Len(s) + 1 \in 1 .. Len(t)
    BY <1>1
  <2> QED BY <1>1, <2>1, <2>2 DEF ToSet
<1>3. s # <<>> => t # <<>> /\ Head(t) = Head(s)
  <2> SUFFICES ASSUME s # <<>> PROVE t # <<>> /\ Head(t) = Head(s)
    OBVIOUS
  <2>1. 1 \in 1 .. Len(s) /\ Head(s) = s[1]
    OBVIOUS
  <2> QED BY <1>1, <2>1
<1> QED BY <1>1, <1>2, <1>3 DEF t

\* The tail of a sequence lacks its first element only.
LEMMA Dropping ==
  ASSUME NEW S, NEW s \in Seq(S), s # <<>>
  PROVE  Tail(s) \in Seq(S) /\ ToSet(Tail(s)) \subseteq ToSet(s)
<1>1. /\ Tail(s) \in Seq(S) /\ Len(Tail(s)) = Len(s) - 1 /\ Len(s) \in Nat
      /\ \A i \in 1 .. Len(Tail(s)) : Tail(s)[i] = s[i + 1]
  OBVIOUS
<1>2. \A i \in 1 .. Len(Tail(s)) : i + 1 \in 1 .. Len(s)
  BY <1>1
<1> QED BY <1>1, <1>2 DEF ToSet
-----------------------------------------------------------------------------
(* The idempotency cache.                                                   *)

\* The types come in three parts, for what changes together.
LEMMA TypesInParts ==
  /\ RoutesTypeOK <=> plan \in Plans /\ CacheTypes /\ RouteTypes /\ OutTypes
  /\ RoutesTypeOK' <=> plan' \in Plans /\ CacheTypes' /\ RouteTypes' /\ OutTypes'
BY DEF RoutesTypeOK, CacheTypes, RouteTypes, OutTypes, WorkStates

\* What a plan and the constants are.
LEMMA PlanFacts ==
  ASSUME plan \in Plans
  PROVE  /\ \A r \in Requests : Key(r) \in Keys
         /\ plan.outputs \in Nat /\ plan.others \in Nat
         /\ None \notin Requests /\ Dispatcher \notin Requests
<1>1. plan \in PlanType
  BY RoutesAssumption DEF RoutesAssumption
<1> QED BY <1>1, RoutesAssumption DEF RoutesAssumption, PlanType, Key

\* A work ends: a completed mutation takes the place of the one under way, and
\* may push out the oldest.
LEMMA EndsKeepsCache ==
  ASSUME RoutesIInv, NEW r \in Requests, NEW status \in Statuses, Ends(r, status), Underway(r),
         status = "accepted" => Keyed(r)
  PROVE  CacheTypes' /\ CacheInv'
<1> USE DEF CacheTypes
<1>0. plan \in Plans /\ CacheTypes /\ CacheInv
  BY TypesInParts DEF RoutesIInv
<1> USE <1>0
<1>1. /\ \A q \in Requests : work'[q] = IF q = r THEN "over" ELSE work[q]
      /\ \A q \in Requests : answer'[q] = IF q = r THEN status ELSE answer[q]
      /\ work' \in [Requests -> WorkStates] /\ answer' \in [Requests -> Statuses \cup {"none"}]
      /\ UNCHANGED <<plan, caller, flight, result, closing>>
  BY DEF Ends, WorkStates
<1>2. CASE ~Keyed(r)
  <2>1. UNCHANGED <<remembered, inflight, forgotten>>
    BY <1>2 DEF Ends
  <2>2. CacheTypes'
    BY <1>1, <2>1
  <2>3. Callers' /\ Answers' /\ ClosedIsQuiet'
    BY <1>1, <1>2, <2>1 DEF CacheInv, Callers, Answers, ClosedIsQuiet, Keyed, Underway
  <2>4. Flying' /\ Memory'
    BY <1>1, <1>2, <2>1 DEF CacheInv, Flying, Memory, Keyed, Key, Underway, Entry
  <2> QED BY <2>2, <2>3, <2>4 DEF CacheInv
<1>3. CASE Keyed(r)
  <2> DEFINE all == Append(remembered, r)
  <2>1. /\ inflight[Key(r)] = r /\ Key(r) \in Keys /\ None \notin Requests
        /\ Entry(Key(r)) = {}
        /\ inflight' = [inflight EXCEPT ![Key(r)] = None]
    BY <1>3, PlanFacts DEF Ends, CacheInv, Flying
  <2>2. all \in Seq(Requests) /\ ToSet(all) = ToSet(remembered) \cup {r}
    BY Joining
  <2>3. /\ remembered' \in Seq(Requests) /\ ToSet(remembered') \subseteq ToSet(all)
        /\ forgotten' \subseteq Requests /\ forgotten \subseteq forgotten'
        /\ ToSet(remembered) \subseteq ToSet(remembered') \cup forgotten'
        /\ Remembered(status) => r \in ToSet(remembered') \cup forgotten'
    <3>1. CASE Remembered(status)
      <4>1. /\ remembered' = IF Len(all) > MaxMutations THEN Tail(all) ELSE all
            /\ forgotten' = forgotten \cup (ToSet(all) \ ToSet(remembered'))
        BY <1>3, <3>1 DEF Ends
      <4>2. all # <<>>
        OBVIOUS
      <4>3. remembered' \in Seq(Requests) /\ ToSet(remembered') \subseteq ToSet(all)
        BY <2>2, <4>1, <4>2, Dropping
      <4>4. ToSet(all) \subseteq Requests
        BY <2>2 DEF ToSet
      <4> HIDE DEF all
      <4> QED BY <2>2, <4>1, <4>3, <4>4
    <3>2. CASE ~Remembered(status)
      BY <1>3, <2>2, <3>2 DEF Ends
    <3> QED BY <3>1, <3>2
  <2> HIDE DEF all
  <2>4. CacheTypes'
    BY <1>1, <2>1, <2>3
  <2>5. Callers' /\ Answers' /\ ClosedIsQuiet'
    BY <1>1, <1>3 DEF CacheInv, Callers, Answers, ClosedIsQuiet, Keyed, Underway
  <2>6. \A k \in Keys : inflight'[k] = IF k = Key(r) THEN None ELSE inflight[k]
    BY <2>1
  <2>7. \A e \in ToSet(remembered') : Key(e) # Key(r) \/ e = r
    BY <2>1, <2>2, <2>3 DEF Entry
  <2>8. Flying'
    <3>1. ASSUME NEW q \in Requests, Keyed(q), work'[q] \notin {"none", "over"}
          PROVE  inflight'[Key(q)] = q
      <4>1. q # r /\ inflight[Key(q)] = q /\ Key(q) \in Keys
        BY <1>1, <3>1, PlanFacts DEF CacheInv, Flying, Underway
      <4> QED BY <2>1, <2>6, <4>1
    <3>2. ASSUME NEW k \in Keys, inflight'[k] # None, NEW e \in ToSet(remembered'), Key(e) = k
          PROVE  FALSE
      <4>1. k # Key(r) /\ inflight[k] # None
        BY <2>6, <3>2
      <4>2. e \in ToSet(remembered)
        BY <2>2, <2>3, <3>2, <4>1
      <4> QED BY <3>2, <4>1, <4>2 DEF CacheInv, Flying, Entry
    <3> QED BY <1>1, <3>1, <3>2 DEF Flying, Keyed, Key, Underway, Entry
  <2>9. Memory'
    <3>1. \A e, f \in ToSet(remembered') : Key(e) = Key(f) => e = f
      BY <2>2, <2>3, <2>7 DEF CacheInv, Memory
    <3>2. \A q \in Requests : answer'[q] = "accepted" => q \in ToSet(remembered') \cup forgotten'
      BY <1>1, <2>3 DEF CacheInv, Memory, Remembered
    <3> QED BY <1>1, <3>1, <3>2 DEF Memory, Key
  <2> QED BY <2>4, <2>5, <2>8, <2>9 DEF CacheInv
<1> QED BY <1>2, <1>3

\* A work that goes on does not concern the cache.
LEMMA ContinuesKeepsCache ==
  ASSUME RoutesIInv, NEW r \in Requests, NEW step \in WorkStates \ {"none", "over"}, Continues(r, step),
         Underway(r), step = "publishing" => Keyed(r)
  PROVE  CacheTypes' /\ CacheInv'
<1> USE DEF CacheTypes
<1>0. plan \in Plans /\ CacheTypes /\ CacheInv
  BY TypesInParts DEF RoutesIInv
<1> USE <1>0
<1>1. /\ \A q \in Requests : work'[q] = IF q = r THEN step ELSE work[q]
      /\ work' \in [Requests -> WorkStates]
      /\ UNCHANGED <<plan, caller, flight, result, remembered, inflight, closing, forgotten, answer>>
  BY DEF Continues, cacheVars
<1>2. CacheTypes'
  BY <1>1
<1>3. Callers' /\ Answers' /\ ClosedIsQuiet'
  BY <1>1 DEF CacheInv, Callers, Answers, ClosedIsQuiet, Keyed, Underway
<1>4. Flying' /\ Memory'
  BY <1>1 DEF CacheInv, Flying, Memory, Keyed, Key, Underway, Entry
<1> QED BY <1>2, <1>3, <1>4 DEF CacheInv

\* Neither does a step in which no work and no caller takes part.
LEMMA CacheStays ==
  ASSUME RoutesIInv, UNCHANGED <<plan, cacheVars, work, answer>>
  PROVE  CacheTypes' /\ CacheInv'
<1>0. plan \in Plans /\ CacheTypes /\ CacheInv
  BY TypesInParts DEF RoutesIInv
<1>1. CacheTypes'
  BY <1>0 DEF CacheTypes, cacheVars
<1>2. Callers' /\ Answers' /\ ClosedIsQuiet' /\ Flying' /\ Memory'
  BY <1>0 DEF CacheInv, Callers, Answers, ClosedIsQuiet, Flying, Memory, Keyed, Key, Underway,
              Entry, cacheVars
<1> QED BY <1>1, <1>2 DEF CacheInv

\* A caller comes to wait, is answered or goes away; what is remembered may have
\* changed its order.
LEMMA CallersMove ==
  ASSUME RoutesIInv, NEW r \in Requests,
         UNCHANGED <<plan, inflight, work, answer, closing, forgotten>>,
         remembered' \in Seq(Requests), ToSet(remembered') = ToSet(remembered),
         caller' \in [Requests -> {"new", "waiting", "answered", "gone"}],
         flight' \in [Requests -> Requests \cup {None}],
         result' \in [Requests -> Statuses \cup {"none", "conflict"}],
         \A q \in Requests \ {r} : caller'[q] = caller[q] /\ flight'[q] = flight[q],
         caller'[r] # "new", caller'[r] = "waiting" => flight'[r] \in Requests
  PROVE  CacheTypes' /\ CacheInv'
<1>0. plan \in Plans /\ CacheTypes /\ CacheInv
  BY TypesInParts DEF RoutesIInv
<1>1. CacheTypes'
  BY <1>0 DEF CacheTypes
<1>2. Callers' /\ Answers' /\ ClosedIsQuiet'
  BY <1>0 DEF CacheInv, Callers, Answers, ClosedIsQuiet, Keyed
<1>3. Flying' /\ Memory'
  BY <1>0 DEF CacheInv, Flying, Memory, Keyed, Key, Underway, Entry
<1> QED BY <1>1, <1>2, <1>3 DEF CacheInv

\* A request starts a work of its own.
LEMMA StartsKeepCache ==
  ASSUME RoutesIInv, NEW r \in Requests, caller[r] = "new",
         UNCHANGED <<plan, result, remembered, answer, closing, forgotten>>,
         caller' = [caller EXCEPT ![r] = "waiting"], flight' = [flight EXCEPT ![r] = r],
         work' = [work EXCEPT ![r] = "arrived"],
         \/ ~Keyed(r) /\ inflight' = inflight
         \/ /\ Keyed(r) /\ inflight' = [inflight EXCEPT ![Key(r)] = r]
            /\ inflight[Key(r)] = None /\ Entry(Key(r)) = {} /\ closing = "no"
  PROVE  CacheTypes' /\ CacheInv'
<1> USE DEF CacheTypes
<1>0. plan \in Plans /\ CacheTypes /\ CacheInv
  BY TypesInParts DEF RoutesIInv
<1> USE <1>0
<1>1. work[r] = "none" /\ Key(r) \in Keys /\ None \notin Requests
  BY PlanFacts DEF CacheInv, Callers
<1>2. /\ \A q \in Requests : work'[q] = IF q = r THEN "arrived" ELSE work[q]
      /\ \A q \in Requests : caller'[q] = IF q = r THEN "waiting" ELSE caller[q]
      /\ \A q \in Requests : flight'[q] = IF q = r THEN r ELSE flight[q]
      /\ \A k \in Keys : inflight'[k] = IF Keyed(r) /\ k = Key(r) THEN r ELSE inflight[k]
  BY <1>1
<1>3. CacheTypes'
  BY <1>1, <1>2 DEF WorkStates
<1>4. Callers' /\ Answers' /\ ClosedIsQuiet'
  BY <1>1, <1>2 DEF CacheInv, Callers, Answers, ClosedIsQuiet, Keyed
<1>5. Flying'
  <2>1. ASSUME NEW q \in Requests, Keyed(q), work'[q] \notin {"none", "over"}
        PROVE  inflight'[Key(q)] = q
    <3>1. Key(q) \in Keys
      BY PlanFacts
    <3>2. q # r => inflight[Key(q)] = q
      BY <1>2, <2>1 DEF CacheInv, Flying, Underway
    <3> QED BY <1>1, <1>2, <2>1, <3>1, <3>2
  <2>2. ASSUME NEW k \in Keys, inflight'[k] # None PROVE Entry(k) = {}
    BY <1>2, <2>2 DEF CacheInv, Flying
  <2> QED BY <2>1, <2>2 DEF Flying, Keyed, Key, Underway, Entry
<1>6. Memory'
  BY DEF CacheInv, Memory, Key
<1> QED BY <1>3, <1>4, <1>5, <1>6 DEF CacheInv

\* A refusal tells the caller.
LEMMA RefuseKeepsCache ==
  ASSUME RoutesIInv, NEW r \in Requests, NEW status \in Statuses \cup {"conflict"}, Refuse(r, status),
         UNCHANGED <<plan, answer, closing, forgotten>>
  PROVE  CacheTypes' /\ CacheInv'
<1>0. plan \in Plans /\ CacheTypes /\ CacheInv
  BY TypesInParts DEF RoutesIInv
<1>1. /\ UNCHANGED <<remembered, inflight, work>>
      /\ caller' = [caller EXCEPT ![r] = "answered"]
      /\ result' = [result EXCEPT ![r] = status]
      /\ flight' = [flight EXCEPT ![r] = None]
  BY DEF Refuse, Tell
<1>2. /\ caller' \in [Requests -> {"new", "waiting", "answered", "gone"}]
      /\ flight' \in [Requests -> Requests \cup {None}]
      /\ result' \in [Requests -> Statuses \cup {"none", "conflict"}]
      /\ \A q \in Requests \ {r} : caller'[q] = caller[q] /\ flight'[q] = flight[q]
      /\ caller'[r] = "answered" /\ remembered \in Seq(Requests)
  BY <1>0, <1>1 DEF CacheTypes
<1> QED BY <1>1, <1>2, CallersMove

\* A request with a key is refused, gets what is remembered, waits for the work
\* under way or starts one.
LEMMA ExecuteKeepsCache ==
  ASSUME RoutesIInv, NEW r \in Requests, Execute(r)
  PROVE  CacheTypes' /\ CacheInv'
<1>0. plan \in Plans /\ CacheTypes /\ CacheInv
  BY TypesInParts DEF RoutesIInv
<1> USE <1>0
<1>1. /\ caller[r] = "new" /\ Keyed(r) /\ UNCHANGED <<plan, answer, closing, forgotten>>
      /\ Key(r) \in Keys /\ None \notin Requests
  BY PlanFacts DEF Execute
<1>2. ASSUME Refuse(r, "busy") \/ Refuse(r, "conflict") PROVE CacheTypes' /\ CacheInv'
  BY <1>1, <1>2, RefuseKeepsCache DEF Statuses
<1>3. CASE \E e \in Entry(Key(r)) : Replays(r, e) /\ ~Refuse(r, "conflict")
  <2>1. PICK e \in Entry(Key(r)) : Replays(r, e) /\ ~Refuse(r, "conflict")
    BY <1>3
  <2>2. /\ caller' = [caller EXCEPT ![r] = "answered"] /\ UNCHANGED <<inflight, work>>
        /\ result' = [result EXCEPT ![r] = answer[e]]
        /\ flight' = [flight EXCEPT ![r] = e]
        /\ remembered' = Append(RemoveFirst(remembered, e), e)
    BY <2>1 DEF Replays, Tell
  <2>3. e \in ToSet(remembered) /\ remembered \in Seq(Requests) /\ e \in Requests
    BY DEF Entry, CacheTypes, ToSet
  <2>4. /\ RemoveFirst(remembered, e) \in Seq(Requests)
        /\ ToSet(RemoveFirst(remembered, e)) \subseteq ToSet(remembered)
        /\ ToSet(remembered) \ {e} \subseteq ToSet(RemoveFirst(remembered, e))
    BY <2>3, Removal
  <2>5. remembered' \in Seq(Requests) /\ ToSet(remembered') = ToSet(remembered)
    <3> DEFINE t == RemoveFirst(remembered, e)
    <3>1. t \in Seq(Requests)
      BY <2>4
    <3>2. remembered' = Append(t, e)
      BY <2>2
    <3> HIDE DEF t
    <3>3. remembered' \in Seq(Requests) /\ ToSet(remembered') = ToSet(t) \cup {e}
      BY <2>3, <3>1, <3>2, Joining
    <3>4. ToSet(t) \subseteq ToSet(remembered) /\ ToSet(remembered) \ {e} \subseteq ToSet(t)
      BY <2>4 DEF t
    <3> QED BY <2>3, <3>3, <3>4
  <2>6. answer[e] \in Statuses \cup {"none"}
    BY <2>3 DEF CacheTypes
  <2>7. /\ caller' \in [Requests -> {"new", "waiting", "answered", "gone"}]
        /\ flight' \in [Requests -> Requests \cup {None}]
        /\ result' \in [Requests -> Statuses \cup {"none", "conflict"}]
        /\ \A q \in Requests \ {r} : caller'[q] = caller[q] /\ flight'[q] = flight[q]
        /\ caller'[r] = "answered"
    BY <2>2, <2>3, <2>6 DEF CacheTypes
  <2> QED BY <1>1, <2>2, <2>5, <2>7, CallersMove
<1>4. CASE inflight[Key(r)] # None /\ Joins(r, inflight[Key(r)]) /\ ~Refuse(r, "conflict")
  <2>1. PICK f \in Requests : f = inflight[Key(r)]
    BY <1>1, <1>4 DEF CacheTypes
  <2>2. /\ caller' = [caller EXCEPT ![r] = "waiting"]
        /\ flight' = [flight EXCEPT ![r] = f]
        /\ UNCHANGED <<result, remembered, inflight, work>>
    BY <1>4, <2>1 DEF Joins
  <2>3. /\ caller' \in [Requests -> {"new", "waiting", "answered", "gone"}]
        /\ flight' \in [Requests -> Requests \cup {None}]
        /\ result' \in [Requests -> Statuses \cup {"none", "conflict"}]
        /\ \A q \in Requests \ {r} : caller'[q] = caller[q] /\ flight'[q] = flight[q]
        /\ caller'[r] = "waiting" /\ flight'[r] = f /\ remembered \in Seq(Requests)
    BY <2>2 DEF CacheTypes
  <2> QED BY <1>1, <2>2, <2>3, CallersMove
<1>5. CASE ~AtCapacity(r) /\ Entry(Key(r)) = {} /\ inflight[Key(r)] = None /\ TakesOff(r)
  <2>1. closing = "no"
    BY <1>5 DEF AtCapacity
  <2> QED BY <1>1, <1>5, <2>1, StartsKeepCache DEF TakesOff
<1>6. \/ Refuse(r, "busy") \/ Refuse(r, "conflict")
      \/ \E e \in Entry(Key(r)) : Replays(r, e)
      \/ inflight[Key(r)] # None /\ Joins(r, inflight[Key(r)])
      \/ ~AtCapacity(r) /\ Entry(Key(r)) = {} /\ inflight[Key(r)] = None /\ TakesOff(r)
  <2> HIDE <1>0
  <2> QED BY DEF Execute
<1> QED BY <1>2, <1>3, <1>4, <1>5, <1>6

\* The other steps of callers and of the cache itself.
LEMMA CallersKeepCache ==
  ASSUME RoutesIInv, NEW r,
         \/ r \in Requests /\ (Request(r) \/ Answered(r) \/ Disconnect(r) \/ Forget(r))
         \/ CloseCache \/ CacheClosed
  PROVE  CacheTypes' /\ CacheInv'
<1>0. plan \in Plans /\ CacheTypes /\ CacheInv
  BY TypesInParts DEF RoutesIInv
<1> USE <1>0
<1>a. None \notin Requests
  BY PlanFacts
<1>1. CASE r \in Requests /\ Request(r)
  BY <1>1, StartsKeepCache DEF Request
<1>2. CASE r \in Requests /\ Answered(r)
  <2>1. /\ r \in Requests /\ caller[r] = "waiting" /\ flight[r] \in Requests
        /\ caller' = [caller EXCEPT ![r] = "answered"]
        /\ result' = [result EXCEPT ![r] = answer[flight[r]]]
        /\ flight' = [flight EXCEPT ![r] = flight[r]]
        /\ UNCHANGED <<plan, remembered, inflight, closing, forgotten, work, answer>>
    BY <1>2 DEF Answered, Tell, workVars, CacheInv, Callers
  <2>2. answer[flight[r]] \in Statuses \cup {"none"}
    BY <2>1 DEF CacheTypes
  <2>3. /\ caller' \in [Requests -> {"new", "waiting", "answered", "gone"}]
        /\ flight' \in [Requests -> Requests \cup {None}]
        /\ result' \in [Requests -> Statuses \cup {"none", "conflict"}]
        /\ \A q \in Requests \ {r} : caller'[q] = caller[q] /\ flight'[q] = flight[q]
        /\ caller'[r] = "answered" /\ remembered \in Seq(Requests)
    BY <2>1, <2>2 DEF CacheTypes
  <2> QED BY <2>1, <2>3, CallersMove
<1>3. CASE r \in Requests /\ Disconnect(r)
  <2>1. /\ r \in Requests /\ caller' = [caller EXCEPT ![r] = "gone"]
        /\ UNCHANGED <<plan, flight, result, remembered, inflight, closing, forgotten, work, answer>>
    BY <1>3 DEF Disconnect, workVars
  <2>2. /\ caller' \in [Requests -> {"new", "waiting", "answered", "gone"}]
        /\ flight' \in [Requests -> Requests \cup {None}]
        /\ result' \in [Requests -> Statuses \cup {"none", "conflict"}]
        /\ \A q \in Requests \ {r} : caller'[q] = caller[q] /\ flight'[q] = flight[q]
        /\ caller'[r] = "gone" /\ remembered \in Seq(Requests)
    BY <2>1 DEF CacheTypes
  <2> QED BY <2>1, <2>2, CallersMove
<1>4. CASE r \in Requests /\ Forget(r)
  <2>1. /\ r \in Requests
        /\ remembered' = RemoveFirst(remembered, r) /\ forgotten' = forgotten \cup {r}
        /\ UNCHANGED <<plan, caller, flight, result, inflight, closing, work, answer>>
    BY <1>4 DEF Forget, workVars
  <2>2. /\ remembered' \in Seq(Requests) /\ ToSet(remembered') \subseteq ToSet(remembered)
        /\ ToSet(remembered) \ {r} \subseteq ToSet(remembered')
    BY <2>1, Removal DEF CacheTypes
  <2>3. CacheTypes'
    BY <2>1, <2>2 DEF CacheTypes
  <2>4. Callers' /\ Answers' /\ ClosedIsQuiet'
    BY <2>1 DEF CacheInv, Callers, Answers, ClosedIsQuiet, Keyed
  <2>5. Flying' /\ Memory'
    BY <2>1, <2>2 DEF CacheInv, Flying, Memory, Keyed, Key, Underway, Entry
  <2> QED BY <2>3, <2>4, <2>5 DEF CacheInv
<1>5. CASE CloseCache \/ CacheClosed
  <2>1. /\ UNCHANGED <<plan, caller, flight, result, remembered, inflight, forgotten, work, answer>>
        /\ closing' = "closed" => Flights = {}
        /\ closing' \in {"waits", "closed"}
    BY <1>5 DEF CloseCache, CacheClosed, workVars
  <2>2. CacheTypes'
    BY <2>1 DEF CacheTypes
  <2>3. Callers' /\ Answers'
    BY <2>1 DEF CacheInv, Callers, Answers, Keyed
  <2>4. ClosedIsQuiet'
    <3>1. ASSUME closing' = "closed", NEW q \in Requests, Keyed(q), Underway(q) PROVE FALSE
      <4>1. Flights = {}
        BY <2>1, <3>1
      <4>2. Key(q) \in Keys /\ inflight[Key(q)] = q
        BY <3>1, PlanFacts DEF CacheInv, Flying
      <4> QED BY <1>a, <4>1, <4>2 DEF Flights
    <3> QED BY <2>1, <3>1 DEF ClosedIsQuiet, Keyed, Underway
  <2>5. Flying' /\ Memory'
    BY <2>1 DEF CacheInv, Flying, Memory, Keyed, Key, Underway, Entry
  <2> QED BY <2>2, <2>3, <2>4, <2>5 DEF CacheInv
<1> QED BY <1>1, <1>2, <1>3, <1>4, <1>5

-----------------------------------------------------------------------------
(* The guard.                                                               *)

GuardKept == Guarded' /\ line' \in Seq(Requests \cup {Dispatcher})

\* Somebody leaves the guard or the line and is not past the guard any more.
LEMMA LeavingKeepsGuard ==
  ASSUME RoutesIInv, NEW u \in Requests \cup {Dispatcher}, Leaves(u),
         \A q \in Requests : work'[q] = IF q = u THEN "over" ELSE work[q]
  PROVE  GuardKept
<1>0. line \in Seq(Requests \cup {Dispatcher}) /\ Guarded
  BY TypesInParts DEF RoutesIInv, RouteTypes, RouteInv
<1>1. /\ line' \in Seq(Requests \cup {Dispatcher})
      /\ line # <<>> /\ Head(line) # u => line' # <<>> /\ Head(line') = Head(line)
  BY <1>0, Removal DEF Leaves
<1>2. Guarded'
  <2>1. ASSUME NEW q \in Requests, PastGuard(q)' PROVE Holds(q)'
    <3>1. q # u /\ work'[q] = work[q] /\ PastGuard(q)
      BY <2>1 DEF PastGuard, Operating
    <3>2. line # <<>> /\ Head(line) = q
      BY <1>0, <3>1 DEF Guarded, Holds
    <3> QED BY <1>1, <3>1, <3>2 DEF Holds
  <2> QED BY <2>1 DEF Guarded
<1> QED BY <1>1, <1>2 DEF GuardKept

\* Somebody waits for the guard.
LEMMA WaitingKeepsGuard ==
  ASSUME RoutesIInv, NEW u \in Requests \cup {Dispatcher}, Waits(u),
         \A q \in Requests : work'[q] \in {work[q], "queued"}
  PROVE  GuardKept
<1>0. line \in Seq(Requests \cup {Dispatcher}) /\ Guarded
  BY TypesInParts DEF RoutesIInv, RouteTypes, RouteInv
<1>1. /\ line' \in Seq(Requests \cup {Dispatcher})
      /\ line # <<>> => line' # <<>> /\ Head(line') = Head(line)
  BY <1>0, Joining DEF Waits
<1>2. Guarded'
  BY <1>0, <1>1 DEF Guarded, Holds, PastGuard, Operating
<1> QED BY <1>1, <1>2 DEF GuardKept

\* The line stays, and who passes the guard holds it.
LEMMA StayingKeepsGuard ==
  ASSUME RoutesIInv, line' = line,
         \A q \in Requests : work'[q] # work[q] => Holds(q) \/ work'[q] \in {"arrived", "over"}
  PROVE  GuardKept
<1>0. line \in Seq(Requests \cup {Dispatcher}) /\ Guarded
  BY TypesInParts DEF RoutesIInv, RouteTypes, RouteInv
<1>1. Guarded'
  BY <1>0 DEF Guarded, Holds, PastGuard, Operating
<1> QED BY <1>0, <1>1 DEF GuardKept

\* While a request has the guard before it is past it, no operation is on.
LEMMA HolderIsAlone ==
  ASSUME RoutesIInv, NEW r \in Requests, Holds(r)
  PROVE  \A q \in Requests : PastGuard(q) => q = r
BY DEF RoutesIInv, RouteInv, Guarded, Holds

-----------------------------------------------------------------------------
(* The session and its turns.                                                *)

Reserving == {"publishing", "deleting", "cleaning", "compacting"}

\* A step that neither begins nor ends a submission or an operation.
LEMMA QuietKeepsRoute ==
  ASSUME RoutesIInv, GuardKept, UNCHANGED <<place, exclusive, session, revision, blind>>,
         loaded' \in [Requests -> Nat],
         \A q \in Requests :
           \/ work'[q] = work[q] /\ loaded'[q] = loaded[q]
           \/ work[q] \notin Reserving \cup {"over"} /\ work'[q] \notin Reserving
  PROVE  RouteTypes' /\ RouteInv'
<1>0. RouteTypes /\ RouteInv
  BY TypesInParts DEF RoutesIInv
<1>1. RouteTypes'
  BY <1>0 DEF RouteTypes, GuardKept
<1>2. Reserved' /\ Registered' /\ OnlyTheGapIsMissed'
  <2>1. Reserved'
    BY <1>0 DEF RouteInv, Reserved, Operating, Reserving
  <2>2. Registered'
    BY <1>0 DEF RouteInv, Registered, Reserving
  <2>3. OnlyTheGapIsMissed'
    BY <1>0 DEF RouteInv, OnlyTheGapIsMissed, Unfinished
  <2> QED BY <2>1, <2>2, <2>3
<1>3. Deleted' /\ OperationsAreExclusive' /\ RevivedByTheGapOnly'
  BY <1>0 DEF RouteInv, Deleted, OperationsAreExclusive, RevivedByTheGapOnly, Unfinished
<1> QED BY <1>1, <1>2, <1>3 DEF RouteInv, GuardKept

\* A submission gets past the guard: no turn is under way.
LEMMA AdmissionKeepsRoute ==
  ASSUME RoutesIInv, GuardKept, NEW r \in Requests, Holds(r), work[r] = "queued", session = "there",
         \A q \in Requests : work'[q] = IF q = r THEN "publishing" ELSE work[q],
         place' = [place EXCEPT ![r] = "registered"],
         UNCHANGED <<loaded, exclusive, session, revision, blind>>
  PROVE  RouteTypes' /\ RouteInv'
<1>0. RouteTypes /\ RouteInv
  BY TypesInParts DEF RoutesIInv
<1>1. \A q \in Requests : place'[q] = IF q = r THEN "registered" ELSE place[q]
  BY <1>0 DEF RouteTypes
<1>2. \A q \in Requests : exclusive = q => work[q] = "over"
  BY <1>0, HolderIsAlone DEF RouteInv, Reserved, PastGuard, Operating
<1>3. RouteTypes'
  BY <1>0 DEF RouteTypes, GuardKept, Places
<1>4. Reserved'
  BY <1>0 DEF RouteInv, Reserved, Operating
<1>5. Registered'
  BY <1>0, <1>1 DEF RouteInv, Registered
<1>6. Deleted' /\ OperationsAreExclusive' /\ RevivedByTheGapOnly'
  BY <1>0, <1>1 DEF RouteInv, Deleted, OperationsAreExclusive, RevivedByTheGapOnly
<1>7. OnlyTheGapIsMissed'
  BY <1>2 DEF OnlyTheGapIsMissed
<1> QED BY <1>3, <1>4, <1>5, <1>6, <1>7 DEF RouteInv, GuardKept

\* A submission ends with its turn in the lane, or without a turn.
LEMMA PublicationKeepsRoute ==
  ASSUME RoutesIInv, GuardKept, NEW r \in Requests, work[r] = "publishing", NEW to \in {"lane", "over"},
         \A q \in Requests : work'[q] = IF q = r THEN "over" ELSE work[q],
         place' = [place EXCEPT ![r] = to],
         UNCHANGED <<loaded, exclusive, session, revision, blind>>
  PROVE  RouteTypes' /\ RouteInv'
<1>0. RouteTypes /\ RouteInv
  BY TypesInParts DEF RoutesIInv
<1>1. \A q \in Requests : place'[q] = IF q = r THEN to ELSE place[q]
  BY <1>0 DEF RouteTypes
<1>2. PastGuard(r) /\ Holds(r) /\ place[r] = "registered"
  BY <1>0 DEF RouteInv, Guarded, PastGuard, Registered
<1>3. \A q \in Requests : exclusive = q => work[q] = "over"
  BY <1>0, <1>2, HolderIsAlone DEF RouteInv, Reserved, PastGuard, Operating
<1>4. RouteTypes'
  BY <1>0 DEF RouteTypes, GuardKept, Places
<1>5. Reserved'
  BY <1>0 DEF RouteInv, Reserved, Operating
<1>6. Registered'
  BY <1>0, <1>1 DEF RouteInv, Registered
<1>7. OperationsAreExclusive' /\ RevivedByTheGapOnly'
  BY <1>0, <1>1 DEF RouteInv, OperationsAreExclusive, RevivedByTheGapOnly
<1>8. Deleted'
  <2>1. Unfinished' \subseteq Unfinished
    BY <1>1, <1>2 DEF Unfinished
  <2> QED BY <1>0, <2>1 DEF RouteInv, Deleted
<1>9. OnlyTheGapIsMissed'
  BY <1>3 DEF OnlyTheGapIsMissed
<1> QED BY <1>4, <1>5, <1>6, <1>7, <1>8, <1>9 DEF RouteInv, GuardKept

\* A turn goes on in the agent loop.
LEMMA TurnKeepsRoute ==
  ASSUME RoutesIInv, NEW r \in Requests, Turn(r)
  PROVE  RouteTypes' /\ RouteInv'
<1>0. RouteTypes /\ RouteInv
  BY TypesInParts DEF RoutesIInv
<1>1. GuardKept
  <2>1. line' = line /\ work' = work
    BY DEF Turn, Consume, HandOff, Begin, Record, Reply, TurnStep, workVars
  <2> QED BY <2>1, StayingKeepsGuard
<1>2. PICK from \in Places, to \in Places :
        /\ <<from, to>> \in {<<"lane", "gap">>, <<"gap", "task">>, <<"task", "running">>,
                             <<"running", "replying">>, <<"replying", "over">>}
        /\ TurnStep(r, from, to)
        /\ from = "task" => exclusive = None
        /\ session' # session => session = "gone" /\ session' = "new"
        /\ revision' # revision => from = "running" /\ revision' = revision + 1
  <2>1. CASE Consume(r)
    BY <2>1 DEF Consume, Places
  <2>2. CASE HandOff(r)
    BY <2>2 DEF HandOff, Places
  <2>3. CASE Begin(r)
    BY <2>3 DEF Begin, Places
  <2>4. CASE Record(r)
    BY <2>4 DEF Record, Places
  <2>5. CASE Reply(r)
    BY <2>5 DEF Reply, Places
  <2> QED BY <2>1, <2>2, <2>3, <2>4, <2>5 DEF Turn
<1>3. /\ place[r] = from
      /\ place' = [place EXCEPT ![r] = to]
      /\ \A q \in Requests : place'[q] = IF q = r THEN to ELSE place[q]
      /\ UNCHANGED <<work, loaded, exclusive, blind>>
      /\ Unfinished' \subseteq Unfinished /\ r \in Unfinished
  BY <1>0, <1>2 DEF TurnStep, RouteTypes, workVars, Unfinished
<1>4. /\ from = "task" => exclusive = None
      /\ session' # session => session = "gone" /\ session' = "new"
      /\ revision' # revision => from = "running" /\ revision' = revision + 1
  BY <1>2
<1>5. from \in {"running", "replying"} => exclusive = None
  BY <1>0, <1>3 DEF RouteInv, OperationsAreExclusive, RouteTypes
<1>6. RouteTypes'
  BY <1>0, <1>3, <1>4, <1>1 DEF RouteTypes, GuardKept
<1>7. Reserved'
  <2>1. None \notin Requests
    BY RoutesAssumption DEF RoutesAssumption
  <2> QED BY <1>0, <1>3, <1>4, <1>5, <2>1 DEF RouteInv, Reserved, Operating
<1>8. Registered'
  BY <1>0, <1>2, <1>3 DEF RouteInv, Registered
<1>9. OperationsAreExclusive'
  BY <1>0, <1>2, <1>3, <1>4, <1>5 DEF RouteInv, OperationsAreExclusive
<1>10. Deleted' /\ RevivedByTheGapOnly'
  BY <1>0, <1>3, <1>4 DEF RouteInv, Deleted, RevivedByTheGapOnly, RouteTypes
<1>11. OnlyTheGapIsMissed'
  <2>1. None \notin Requests
    BY RoutesAssumption DEF RoutesAssumption
  <2>2. ASSUME NEW o \in Requests, exclusive = o, work[o] # "over", NEW q \in Unfinished'
        PROVE  q \in blind /\ place'[q] \in {"gap", "task"}
    <3>1. /\ q \in Unfinished /\ q \in blind /\ place[q] \in {"gap", "task"}
          /\ place[r] \in {"gap", "task"}
      BY <1>0, <1>3, <2>2 DEF RouteInv, OnlyTheGapIsMissed
    <3>2. from # "task"
      BY <1>4, <2>1, <2>2
    <3> QED BY <1>2, <1>3, <3>1, <3>2 DEF Unfinished
  <2> QED BY <1>3, <2>2 DEF OnlyTheGapIsMissed
<1> QED BY <1>1, <1>6, <1>7, <1>8, <1>9, <1>10, <1>11 DEF RouteInv, GuardKept

\* An operation reserves the session: what it does not see is in the gap.
LEMMA ReservationKeepsRoute ==
  ASSUME RoutesIInv, GuardKept, NEW r \in Requests, Holds(r), work[r] = "queued", session = "there",
         ~Busy, Reserves(r), NEW to \in {"deleting", "compacting", "over"},
         to = "deleting" => loaded[r] = revision,
         \A q \in Requests : work'[q] = IF q = r THEN to ELSE work[q],
         UNCHANGED <<loaded, session, revision, place>>
  PROVE  RouteTypes' /\ RouteInv'
<1>0. RouteTypes /\ RouteInv
  BY TypesInParts DEF RoutesIInv
<1>1. /\ exclusive = None /\ exclusive' = r /\ blind' = blind \cup Unfinished
      /\ Unfinished' = Unfinished /\ Unfinished \subseteq Requests
  BY DEF Busy, Reserves, Unfinished
<1>2. \A q \in Unfinished : place[q] = "gap"
  <2>1. ASSUME NEW q \in Requests, place[q] = "registered" PROVE FALSE
    <3>1. work[q] = "publishing"
      BY <1>0, <2>1 DEF RouteInv, Registered
    <3>2. q = r
      BY <3>1, HolderIsAlone DEF PastGuard
    <3> QED BY <3>1, <3>2
  <2> QED BY <1>0, <2>1 DEF Busy, Unfinished, RouteTypes, Places
<1>3. RouteTypes'
  BY <1>0, <1>1 DEF RouteTypes, GuardKept
<1>4. Reserved'
  <2>1. None \notin Requests
    BY RoutesAssumption DEF RoutesAssumption
  <2> QED BY <1>0, <1>1, <2>1 DEF RouteInv, Reserved, Operating
<1>5. Registered'
  BY <1>0 DEF RouteInv, Registered
<1>6. OnlyTheGapIsMissed'
  BY <1>1, <1>2 DEF OnlyTheGapIsMissed
<1>7. OperationsAreExclusive' /\ Deleted' /\ RevivedByTheGapOnly'
  BY DEF OperationsAreExclusive, Deleted, RevivedByTheGapOnly, Busy
<1> QED BY <1>3, <1>4, <1>5, <1>6, <1>7 DEF RouteInv, GuardKept

\* The session is deleted under the reservation.
LEMMA DeletionKeepsRoute ==
  ASSUME RoutesIInv, GuardKept, NEW r \in Requests, work[r] = "deleting", session' = "gone",
         \A q \in Requests : work'[q] = IF q = r THEN "cleaning" ELSE work[q],
         UNCHANGED <<loaded, exclusive, revision, blind, place>>
  PROVE  RouteTypes' /\ RouteInv'
<1>0. RouteTypes /\ RouteInv
  BY TypesInParts DEF RoutesIInv
<1>1. exclusive = r
  BY <1>0 DEF RouteInv, Reserved, Operating
<1>2. RouteTypes'
  BY <1>0 DEF RouteTypes, GuardKept
<1>3. Reserved' /\ Registered'
  BY <1>0 DEF RouteInv, Reserved, Registered, Operating
<1>4. OnlyTheGapIsMissed'
  BY <1>0 DEF RouteInv, OnlyTheGapIsMissed, Unfinished
<1>5. OperationsAreExclusive' /\ RevivedByTheGapOnly'
  BY <1>0 DEF RouteInv, OperationsAreExclusive, RevivedByTheGapOnly
<1>6. Deleted'
  BY <1>0, <1>1 DEF RouteInv, OnlyTheGapIsMissed, Deleted, Unfinished
<1> QED BY <1>2, <1>3, <1>4, <1>5, <1>6 DEF RouteInv, GuardKept

\* An operation ends and releases the session.
LEMMA ReleaseKeepsRoute ==
  ASSUME RoutesIInv, GuardKept, NEW r \in Requests, Operating(r), exclusive' = None,
         \A q \in Requests : work'[q] = IF q = r THEN "over" ELSE work[q],
         revision' \in {revision, revision + 1},
         UNCHANGED <<loaded, session, blind, place>>
  PROVE  RouteTypes' /\ RouteInv'
<1>0. RouteTypes /\ RouteInv
  BY TypesInParts DEF RoutesIInv
<1>1. None \notin Requests /\ \A q \in Requests : Operating(q) => q = r
  BY <1>0, RoutesAssumption DEF RouteInv, Reserved, RoutesAssumption
<1>2. RouteTypes'
  BY <1>0 DEF RouteTypes, GuardKept
<1>3. Reserved'
  BY <1>1 DEF Reserved, Operating
<1>4. Registered'
  BY <1>0 DEF RouteInv, Registered, Operating
<1>5. OnlyTheGapIsMissed' /\ OperationsAreExclusive'
  BY <1>1 DEF OnlyTheGapIsMissed, OperationsAreExclusive
<1>6. Deleted' /\ RevivedByTheGapOnly'
  BY <1>0 DEF RouteInv, Deleted, RevivedByTheGapOnly, Unfinished
<1> QED BY <1>2, <1>3, <1>4, <1>5, <1>6 DEF RouteInv, GuardKept

-----------------------------------------------------------------------------
(* The steps.                                                               *)

Kept == plan' \in Plans /\ CacheTypes' /\ CacheInv' /\ RouteTypes' /\ RouteInv' /\ OutTypes'

\* The state of each work after one of them ends or goes on.
LEMMA WorkChanges ==
  ASSUME RoutesIInv, NEW r \in Requests
  PROVE  /\ plan \in Plans /\ OutTypes
         /\ \A status : Ends(r, status) =>
              /\ plan' = plan
              /\ \A q \in Requests : work'[q] = IF q = r THEN "over" ELSE work[q]
         /\ \A step : Continues(r, step) =>
              /\ plan' = plan
              /\ \A q \in Requests : work'[q] = IF q = r THEN step ELSE work[q]
<1>1. plan \in Plans /\ OutTypes /\ CacheTypes
  BY TypesInParts DEF RoutesIInv
<1> QED BY <1>1 DEF Ends, Continues, CacheTypes

\* A work ends outside of a submission and of an operation.
LEMMA EndsQuietly ==
  ASSUME RoutesIInv, NEW r \in Requests, NEW status \in Statuses \ {"accepted"}, Ends(r, status),
         work[r] \in {"arrived", "queued", "job"}, Leaves(r) \/ line' = line,
         UNCHANGED <<exclusive, session, revision, blind, place, outVars>>,
         loaded' \in [Requests -> Nat], \A q \in Requests \ {r} : loaded'[q] = loaded[q]
  PROVE  Kept
<1>1. /\ plan' = plan /\ plan \in Plans /\ OutTypes
      /\ \A q \in Requests : work'[q] = IF q = r THEN "over" ELSE work[q]
  BY WorkChanges
<1>2. CacheTypes' /\ CacheInv'
  BY EndsKeepsCache DEF Underway
<1>3. GuardKept
  BY <1>1, LeavingKeepsGuard, StayingKeepsGuard
<1>4. RouteTypes' /\ RouteInv'
  BY <1>1, <1>3, QuietKeepsRoute DEF Reserving
<1>5. OutTypes'
  BY <1>1 DEF OutTypes, outVars
<1> QED BY <1>1, <1>2, <1>4, <1>5 DEF Kept

\* Before the guard, and a lookup that finds no session behind it.
LEMMA EnterKeeps ==
  ASSUME RoutesIInv, NEW r \in Requests, Enter(r) \/ Missing(r)
  PROVE  Kept
<1>0. RouteTypes
  BY TypesInParts DEF RoutesIInv
<1>1. CASE Enter(r)
  <2>1. /\ work[r] = "arrived" /\ loaded' = [loaded EXCEPT ![r] = revision]
        /\ UNCHANGED <<exclusive, session, revision, blind, place, outVars>>
        /\ loaded' \in [Requests -> Nat] /\ \A q \in Requests \ {r} : loaded'[q] = loaded[q]
    BY <1>0, <1>1 DEF Enter, RouteTypes
  <2>2. CASE session # "there"
    <3>1. Ends(r, "missing") /\ line' = line
      BY <1>1, <2>2 DEF Enter
    <3> QED BY <2>1, <3>1, EndsQuietly DEF Statuses
  <2>3. CASE session = "there"
    <3>1. Continues(r, "queued") /\ Waits(r)
      BY <1>1, <2>3 DEF Enter
    <3>2. /\ plan' = plan /\ plan \in Plans /\ OutTypes
          /\ \A q \in Requests : work'[q] = IF q = r THEN "queued" ELSE work[q]
      BY <3>1, WorkChanges
    <3>3. CacheTypes' /\ CacheInv'
      BY <2>1, <3>1, ContinuesKeepsCache DEF Underway, WorkStates
    <3>4. GuardKept
      BY <3>1, <3>2, WaitingKeepsGuard
    <3>5. RouteTypes' /\ RouteInv'
      BY <2>1, <3>2, <3>4, QuietKeepsRoute DEF Reserving
    <3>6. OutTypes'
      BY <2>1, <3>2 DEF OutTypes, outVars
    <3> QED BY <3>2, <3>3, <3>5, <3>6 DEF Kept
  <2> QED BY <2>2, <2>3
<1>2. CASE Missing(r)
  BY <1>0, <1>2, EndsQuietly DEF Missing, Statuses, RouteTypes
<1> QED BY <1>1, <1>2

\* Submissions.
LEMMA SubmissionKeeps ==
  ASSUME RoutesIInv, NEW r \in Requests,
         Admit(r) \/ PublishTurn(r) \/ PublishTimesOut(r) \/ CancelFlight(r)
  PROVE  Kept
<1>0. RouteTypes /\ RouteInv /\ CacheInv
  BY TypesInParts DEF RoutesIInv
<1>1. CASE Admit(r)
  <2>1. /\ work[r] = "queued" /\ Holds(r) /\ Keyed(r) /\ session = "there"
        /\ UNCHANGED <<loaded, exclusive, session, revision, blind, outVars>>
    BY <1>1 DEF Admit, Called, Keyed
  <2>2. CASE Unfinished # {}
    BY <1>0, <1>1, <2>1, <2>2, EndsQuietly DEF Admit, Statuses, RouteTypes
  <2>3. CASE Unfinished = {}
    <3>1. /\ Continues(r, "publishing") /\ line' = line
          /\ place' = [place EXCEPT ![r] = "registered"]
      BY <1>1, <2>3 DEF Admit
    <3>2. /\ plan' = plan /\ plan \in Plans /\ OutTypes
          /\ \A q \in Requests : work'[q] = IF q = r THEN "publishing" ELSE work[q]
      BY <3>1, WorkChanges
    <3>3. CacheTypes' /\ CacheInv'
      BY <2>1, <3>1, ContinuesKeepsCache DEF Underway, WorkStates
    <3>4. GuardKept
      BY <2>1, <3>1, <3>2, StayingKeepsGuard
    <3>5. RouteTypes' /\ RouteInv'
      BY <2>1, <3>1, <3>2, <3>4, AdmissionKeepsRoute
    <3>6. OutTypes'
      BY <2>1, <3>2 DEF OutTypes, outVars
    <3> QED BY <3>2, <3>3, <3>5, <3>6 DEF Kept
  <2> QED BY <2>2, <2>3
<1>2. ASSUME work[r] = "publishing", NEW status \in Statuses, Ends(r, status), Leaves(r),
             NEW to \in {"lane", "over"}, place' = [place EXCEPT ![r] = to],
             UNCHANGED <<loaded, exclusive, session, revision, blind, outVars>>
      PROVE  Kept
  <2>1. /\ plan' = plan /\ plan \in Plans /\ OutTypes
        /\ \A q \in Requests : work'[q] = IF q = r THEN "over" ELSE work[q]
    BY <1>2, WorkChanges
  <2>2. CacheTypes' /\ CacheInv'
    <3>1. Keyed(r)
      BY <1>0, <1>2 DEF CacheInv, Answers
    <3> QED BY <1>2, <3>1, EndsKeepsCache DEF Underway
  <2>3. GuardKept
    BY <1>2, <2>1, LeavingKeepsGuard
  <2>4. RouteTypes' /\ RouteInv'
    BY <1>2, <2>1, <2>3, PublicationKeepsRoute
  <2>5. OutTypes'
    BY <1>2, <2>1 DEF OutTypes, outVars
  <2> QED BY <2>1, <2>2, <2>4, <2>5 DEF Kept
<1>3. CASE PublishTurn(r)
  BY <1>2, <1>3 DEF PublishTurn, Statuses
<1>4. CASE PublishTimesOut(r)
  BY <1>2, <1>4 DEF PublishTimesOut, Statuses
<1>5. CASE CancelFlight(r)
  <2>1. /\ work[r] \in {"arrived", "queued", "publishing"}
        /\ Ends(r, "cancelled") /\ Leaves(r)
        /\ place' = [place EXCEPT ![r] = IF place[r] = "registered" THEN "over" ELSE place[r]]
        /\ UNCHANGED <<loaded, exclusive, session, revision, blind, outVars>>
    BY <1>5 DEF CancelFlight
  <2>2. work[r] = "publishing" <=> place[r] = "registered"
    BY <1>0 DEF RouteInv, Registered
  <2>3. CASE work[r] = "publishing"
    BY <1>2, <2>1, <2>2, <2>3 DEF Statuses
  <2>4. CASE work[r] # "publishing"
    <3>1. place' = place
      BY <1>0, <2>1, <2>2, <2>4 DEF RouteTypes
    <3> QED BY <1>0, <2>1, <2>4, <3>1, EndsQuietly DEF Statuses, RouteTypes
  <2> QED BY <2>3, <2>4
<1> QED BY <1>1, <1>3, <1>4, <1>5

\* Operations on the session.
LEMMA OperationKeeps ==
  ASSUME RoutesIInv, NEW r \in Requests,
         \/ BeginDelete(r) \/ DeleteSession(r) \/ Cleaned(r)
         \/ BeginCompact(r) \/ Compacted(r)
  PROVE  Kept
<1>0. RouteTypes /\ RouteInv /\ CacheInv
  BY TypesInParts DEF RoutesIInv
<1>1. ASSUME Called(r, "delete") \/ Called(r, "compact"), session = "there", ~Busy, Reserves(r),
             UNCHANGED <<loaded, session, revision, place, outVars>>,
             \/ Continues(r, "deleting") /\ line' = line /\ loaded[r] = revision
             \/ Continues(r, "compacting") /\ line' = line
             \/ Ends(r, "error") /\ Leaves(r)
      PROVE  Kept
  <2>1. work[r] = "queued" /\ Holds(r)
    BY <1>1 DEF Called
  <2>2. PICK to \in {"deleting", "compacting", "over"} :
          /\ to = "deleting" => loaded[r] = revision
          /\ to = "over" => Ends(r, "error") /\ Leaves(r)
          /\ to # "over" => Continues(r, to) /\ line' = line
    BY <1>1
  <2>3. /\ plan' = plan /\ plan \in Plans /\ OutTypes
        /\ \A q \in Requests : work'[q] = IF q = r THEN to ELSE work[q]
    <3>1. CASE to = "over"
      BY <2>2, <3>1, WorkChanges
    <3>2. CASE to # "over"
      BY <2>2, <3>2, WorkChanges
    <3> QED BY <3>1, <3>2
  <2>4. CacheTypes' /\ CacheInv'
    <3>1. CASE to = "over"
      BY <2>1, <2>2, <3>1, EndsKeepsCache DEF Underway, Statuses
    <3>2. CASE to # "over"
      BY <2>1, <2>2, <3>2, ContinuesKeepsCache DEF Underway, WorkStates
    <3> QED BY <3>1, <3>2
  <2>5. GuardKept
    <3>1. CASE to = "over"
      BY <2>2, <2>3, <3>1, LeavingKeepsGuard
    <3>2. CASE to # "over"
      BY <2>1, <2>2, <2>3, <3>2, StayingKeepsGuard
    <3> QED BY <3>1, <3>2
  <2>6. RouteTypes' /\ RouteInv'
    BY <1>1, <2>1, <2>2, <2>3, <2>5, ReservationKeepsRoute
  <2>7. OutTypes'
    BY <1>1, <2>3 DEF OutTypes, outVars
  <2> QED BY <2>3, <2>4, <2>6, <2>7 DEF Kept
<1>2. CASE BeginDelete(r)
  <2>1. CASE Busy \/ revision # loaded[r]
    <3>1. PICK status \in {"refused", "changed"} : Ends(r, status) /\ Leaves(r)
      BY <1>2, <2>1 DEF BeginDelete
    <3>2. /\ work[r] = "queued"
          /\ UNCHANGED <<loaded, exclusive, session, revision, blind, place, outVars>>
      BY <1>2, <2>1 DEF BeginDelete, Called
    <3> QED BY <1>0, <3>1, <3>2, EndsQuietly DEF Statuses, RouteTypes
  <2>2. CASE ~(Busy \/ revision # loaded[r])
    BY <1>1, <1>2, <2>2 DEF BeginDelete
  <2> QED BY <2>1, <2>2
<1>3. CASE BeginCompact(r)
  <2>1. CASE Busy
    <3>1. /\ work[r] = "queued" /\ Ends(r, "refused") /\ Leaves(r)
          /\ UNCHANGED <<loaded, exclusive, session, revision, blind, place, outVars>>
      BY <1>3, <2>1 DEF BeginCompact, Called
    <3> QED BY <1>0, <3>1, EndsQuietly DEF Statuses, RouteTypes
  <2>2. CASE ~Busy
    BY <1>1, <1>3, <2>2 DEF BeginCompact
  <2> QED BY <2>1, <2>2
<1>4. CASE DeleteSession(r)
  <2>1. /\ work[r] = "deleting" /\ Continues(r, "cleaning") /\ session' = "gone"
        /\ UNCHANGED <<loaded, line, exclusive, revision, blind, place, outVars>>
    BY <1>4 DEF DeleteSession
  <2>2. /\ plan' = plan /\ plan \in Plans /\ OutTypes
        /\ \A q \in Requests : work'[q] = IF q = r THEN "cleaning" ELSE work[q]
    BY <2>1, WorkChanges
  <2>3. CacheTypes' /\ CacheInv'
    BY <2>1, ContinuesKeepsCache DEF Underway, WorkStates
  <2>4. GuardKept
    <3>1. Holds(r)
      BY <1>0, <2>1 DEF RouteInv, Guarded, PastGuard, Operating
    <3> QED BY <2>1, <2>2, <3>1, StayingKeepsGuard
  <2>5. RouteTypes' /\ RouteInv'
    BY <2>1, <2>2, <2>4, DeletionKeepsRoute
  <2>6. OutTypes'
    BY <2>1, <2>2 DEF OutTypes, outVars
  <2> QED BY <2>2, <2>3, <2>5, <2>6 DEF Kept
<1>5. CASE Cleaned(r) \/ Compacted(r)
  <2>1. /\ Operating(r) /\ work[r] \in {"cleaning", "compacting"}
        /\ Ends(r, "ok") /\ Leaves(r) /\ exclusive' = None
        /\ revision' \in {revision, revision + 1}
        /\ UNCHANGED <<loaded, session, blind, place, outVars>>
    BY <1>5 DEF Cleaned, Compacted, Operating
  <2>2. /\ plan' = plan /\ plan \in Plans /\ OutTypes
        /\ \A q \in Requests : work'[q] = IF q = r THEN "over" ELSE work[q]
    BY <2>1, WorkChanges
  <2>3. CacheTypes' /\ CacheInv'
    BY <2>1, EndsKeepsCache DEF Underway, Statuses
  <2>4. GuardKept
    BY <2>1, <2>2, LeavingKeepsGuard
  <2>5. RouteTypes' /\ RouteInv'
    BY <2>1, <2>2, <2>4, ReleaseKeepsRoute
  <2>6. OutTypes'
    BY <2>1, <2>2 DEF OutTypes, outVars
  <2> QED BY <2>2, <2>3, <2>5, <2>6 DEF Kept
<1> QED BY <1>2, <1>3, <1>4, <1>5

\* A message is put into the lane.
LEMMA PutsKeepsLane ==
  ASSUME OutTypes, NEW o \in Output, Puts(o)
  PROVE  out' \in Seq(Output)
BY DEF OutTypes, Puts

\* A job that is run by hand, and the output of other conversations.
LEMMA JobKeeps ==
  ASSUME RoutesIInv, NEW r,
         (r \in Requests /\ (BeginJob(r) \/ JobOutputs(r) \/ JobEnds(r))) \/ OtherOutput
  PROVE  Kept
<1>0. RouteTypes /\ RouteInv /\ CacheInv /\ OutTypes /\ plan \in Plans
  BY TypesInParts DEF RoutesIInv
<1>1. CASE r \in Requests /\ BeginJob(r)
  <2>1. /\ r \in Requests /\ work[r] = "queued" /\ Holds(r) /\ Continues(r, "job")
        /\ UNCHANGED <<loaded, line, exclusive, session, revision, blind, place, outVars>>
    BY <1>1 DEF BeginJob, Called, routeVars
  <2>2. /\ plan' = plan
        /\ \A q \in Requests : work'[q] = IF q = r THEN "job" ELSE work[q]
    BY <2>1, WorkChanges
  <2>3. CacheTypes' /\ CacheInv'
    BY <2>1, ContinuesKeepsCache DEF Underway, WorkStates
  <2>4. GuardKept
    BY <2>1, <2>2, StayingKeepsGuard
  <2>5. RouteTypes' /\ RouteInv'
    BY <1>0, <2>1, <2>2, <2>4, QuietKeepsRoute DEF Reserving, RouteTypes
  <2>6. OutTypes'
    BY <1>0, <2>1 DEF OutTypes, outVars
  <2> QED BY <1>0, <2>2, <2>3, <2>5, <2>6 DEF Kept
<1>2. CASE r \in Requests /\ JobEnds(r)
  BY <1>0, <1>2, EndsQuietly DEF JobEnds, Statuses, RouteTypes
<1>3. CASE JobOutputs(r) \/ OtherOutput
  <2>1. /\ UNCHANGED <<plan, cacheVars, workVars, routeVars, place, sending>>
        /\ \E o \in Output : Puts(o)
    <3>1. CASE OtherOutput
      BY <3>1 DEF OtherOutput, Output
    <3>2. CASE JobOutputs(r)
      BY <3>2 DEF JobOutputs, Output
    <3> QED BY <1>3, <3>1, <3>2
  <2>2. left' \in [outputs : Nat, others : Nat]
    <3>1. CASE OtherOutput
      BY <1>0, <3>1 DEF OtherOutput, OutTypes
    <3>2. CASE JobOutputs(r)
      BY <1>0, <3>2 DEF JobOutputs, OutTypes
    <3> QED BY <1>3, <3>1, <3>2
  <2>3. OutTypes'
    BY <1>0, <2>1, <2>2, PutsKeepsLane DEF OutTypes
  <2>4. CacheTypes' /\ CacheInv'
    BY <2>1, CacheStays DEF workVars
  <2>5. GuardKept
    BY <2>1, StayingKeepsGuard DEF workVars, routeVars
  <2>6. RouteTypes' /\ RouteInv'
    BY <1>0, <2>1, <2>5, QuietKeepsRoute DEF workVars, routeVars, RouteTypes
  <2> QED BY <1>0, <2>1, <2>3, <2>4, <2>6 DEF Kept
<1> QED BY <1>1, <1>2, <1>3

\* Turns in the loop.
LEMMA TurnKeeps ==
  ASSUME RoutesIInv, NEW r \in Requests, Turn(r)
  PROVE  Kept
<1>0. RouteTypes /\ RouteInv /\ CacheInv /\ OutTypes /\ plan \in Plans
  BY TypesInParts DEF RoutesIInv
<1>1. UNCHANGED <<plan, cacheVars, work, answer>>
  BY DEF Turn, Consume, HandOff, Begin, Record, Reply, TurnStep, workVars
<1>2. CacheTypes' /\ CacheInv'
  BY <1>1, CacheStays
<1>3. RouteTypes' /\ RouteInv'
  BY TurnKeepsRoute
<1>4. OutTypes'
  <2>1. CASE Reply(r)
    <3>1. [turn |-> r, web |-> TRUE] \in Output
      BY DEF Output
    <3>2. Puts([turn |-> r, web |-> TRUE]) /\ UNCHANGED <<sending, left>>
      BY <2>1 DEF Reply
    <3> QED BY <1>0, <3>1, <3>2, PutsKeepsLane DEF OutTypes
  <2>2. CASE ~Reply(r)
    <3>1. UNCHANGED outVars
      BY <2>2 DEF Turn, Consume, HandOff, Begin, Record
    <3> QED BY <1>0, <3>1 DEF OutTypes, outVars
  <2> QED BY <2>1, <2>2
<1> QED BY <1>0, <1>1, <1>2, <1>3, <1>4 DEF Kept

\* Callers and the cache.
LEMMA CacheKeeps ==
  ASSUME RoutesIInv, NEW r,
         \/ r \in Requests /\ (Client(r) \/ Answered(r) \/ Forget(r))
         \/ CloseCache \/ CacheClosed
  PROVE  Kept
<1>0. RouteTypes /\ RouteInv /\ CacheInv /\ CacheTypes /\ OutTypes /\ plan \in Plans
  BY TypesInParts DEF RoutesIInv
<1>1. CacheTypes' /\ CacheInv'
  BY ExecuteKeepsCache, CallersKeepCache DEF Client
<1>2. /\ UNCHANGED <<plan, loaded, line, exclusive, session, revision, blind, place, outVars>>
      /\ \/ work' = work
         \/ r \in Requests /\ caller[r] = "new" /\ work' = [work EXCEPT ![r] = "arrived"]
  <2>1. CASE r \in Requests /\ Execute(r)
    <3>1. UNCHANGED <<plan, loaded, line, exclusive, session, revision, blind, place, outVars>>
      BY <2>1 DEF Execute, routeVars
    <3>2. caller[r] = "new" /\ (work' = work \/ work' = [work EXCEPT ![r] = "arrived"])
      <4>1. ASSUME NEW status, Refuse(r, status) PROVE work' = work
        BY <4>1 DEF Refuse
      <4>2. ASSUME NEW e, Replays(r, e) PROVE work' = work
        BY <4>1, <4>2 DEF Replays
      <4>3. ASSUME Joins(r, inflight[Key(r)]) PROVE work' = work
        BY <4>1, <4>3 DEF Joins
      <4>4. ASSUME TakesOff(r) PROVE work' = [work EXCEPT ![r] = "arrived"]
        BY <4>4 DEF TakesOff
      <4>5. caller[r] = "new"
        BY <2>1 DEF Execute
      <4>6. \/ Refuse(r, "busy") \/ Joins(r, inflight[Key(r)]) \/ TakesOff(r)
            \/ \E e \in Entry(Key(r)) : Replays(r, e)
        BY <2>1 DEF Execute
      <4> QED BY <4>1, <4>2, <4>3, <4>4, <4>5, <4>6
    <3> QED BY <2>1, <3>1, <3>2
  <2>2. CASE r \in Requests /\ Request(r)
    BY <2>2 DEF Request, routeVars
  <2>3. CASE Answered(r) \/ Disconnect(r) \/ Forget(r) \/ CloseCache \/ CacheClosed
    BY <2>3 DEF Answered, Disconnect, Forget, CloseCache, CacheClosed, workVars, routeVars
  <2> QED BY <2>1, <2>2, <2>3 DEF Client
<1>3. \A q \in Requests : work'[q] = work[q] \/ (work[q] = "none" /\ work'[q] = "arrived")
  BY <1>0, <1>2 DEF CacheTypes, CacheInv, Callers
<1>4. GuardKept
  BY <1>2, <1>3, StayingKeepsGuard
<1>5. RouteTypes' /\ RouteInv'
  BY <1>0, <1>2, <1>3, <1>4, QuietKeepsRoute DEF Reserving, RouteTypes
<1>6. OutTypes'
  BY <1>0, <1>2 DEF OutTypes, outVars
<1> QED BY <1>0, <1>1, <1>2, <1>5, <1>6 DEF Kept

\* The channel dispatcher.
LEMMA DispatcherKeeps ==
  ASSUME RoutesIInv, Take \/ Deliver
  PROVE  Kept
<1>0. RouteTypes /\ RouteInv /\ CacheInv /\ OutTypes /\ plan \in Plans
  BY TypesInParts DEF RoutesIInv
<1>1. UNCHANGED <<plan, cacheVars, work, answer, loaded, exclusive, session, revision, blind, place, left>>
  BY DEF Take, Deliver, workVars
<1>2. GuardKept
  <2>1. CASE Waits(Dispatcher)
    BY <1>1, <2>1, WaitingKeepsGuard
  <2>2. CASE Leaves(Dispatcher)
    <3>1. Dispatcher \notin Requests
      BY RoutesAssumption DEF RoutesAssumption
    <3> QED BY <1>1, <2>2, <3>1, LeavingKeepsGuard
  <2>3. CASE line' = line
    BY <1>1, <2>3, StayingKeepsGuard
  <2> QED BY <2>1, <2>2, <2>3 DEF Take, Deliver
<1>3. CacheTypes' /\ CacheInv'
  BY <1>1, CacheStays
<1>4. RouteTypes' /\ RouteInv'
  BY <1>0, <1>1, <1>2, QuietKeepsRoute DEF RouteTypes
<1>5. OutTypes'
  <2>1. CASE Deliver
    BY <1>0, <2>1 DEF Deliver, OutTypes
  <2>2. CASE Take
    <3>1. out # <<>> /\ out' = Tail(out) /\ sending' \in {sending, Head(out)} /\ left' = left
      BY <2>2 DEF Take
    <3>2. Tail(out) \in Seq(Output) /\ Head(out) \in Output
      BY <1>0, <3>1 DEF OutTypes
    <3> QED BY <1>0, <3>1, <3>2 DEF OutTypes
  <2> QED BY <2>1, <2>2
<1> QED BY <1>0, <1>1, <1>3, <1>4, <1>5 DEF Kept

-----------------------------------------------------------------------------
(* The theorems.                                                            *)

LEMMA InitRoutesIInv == RoutesInit => RoutesIInv
<1> SUFFICES ASSUME RoutesInit PROVE RoutesIInv
  OBVIOUS
<1> USE DEF RoutesInit
<1>1. plan \in Plans /\ plan.outputs \in Nat /\ plan.others \in Nat /\ None \notin Requests
  BY PlanFacts
<1>2. ToSet(remembered) = {} /\ Unfinished = {}
  BY DEF ToSet, Unfinished
<1>3. RoutesTypeOK
  BY <1>1 DEF RoutesTypeOK, Places
<1>4. CacheInv
  BY <1>1, <1>2 DEF CacheInv, Callers, Answers, Flying, Memory, ClosedIsQuiet, Underway, Entry
<1>5. Guarded /\ Reserved /\ Registered
  BY <1>1 DEF Guarded, Reserved, Registered, PastGuard, Operating
<1>6. Deleted /\ OperationsAreExclusive /\ OnlyTheGapIsMissed /\ RevivedByTheGapOnly
  BY <1>1, <1>2 DEF Deleted, OperationsAreExclusive, OnlyTheGapIsMissed, RevivedByTheGapOnly
<1> QED BY <1>3, <1>4, <1>5, <1>6 DEF RoutesIInv, RouteInv

LEMMA NextRoutesIInv == RoutesIInv /\ [RoutesNext]_routesVars => RoutesIInv'
<1> SUFFICES ASSUME RoutesIInv, [RoutesNext]_routesVars PROVE RoutesIInv'
  OBVIOUS
<1>0. Kept => RoutesIInv'
  BY TypesInParts DEF Kept, RoutesIInv
<1>1. ASSUME NEW r \in Requests,
             Client(r) \/ Progress(r) \/ Turn(r) \/ Forget(r) \/ CancelFlight(r)
      PROVE  Kept
  BY <1>1, EnterKeeps, SubmissionKeeps, OperationKeeps, JobKeeps, TurnKeeps, CacheKeeps
     DEF Progress
<1>2. ASSUME CloseCache \/ CacheClosed \/ OtherOutput PROVE Kept
  BY <1>2, CacheKeeps, JobKeeps
<1>3. ASSUME Take \/ Deliver PROVE Kept
  BY <1>3, DispatcherKeeps
<1>4. CASE RoutesNext
  BY <1>0, <1>1, <1>2, <1>3, <1>4 DEF RoutesNext
<1>5. CASE UNCHANGED routesVars
  <2>1. CacheTypes' /\ CacheInv'
    BY <1>5, CacheStays DEF routesVars, workVars
  <2>2. RoutesTypeOK'
    BY <1>5 DEF RoutesIInv, RoutesTypeOK, routesVars, cacheVars, workVars, routeVars, outVars
  <2>3. RouteInv'
    BY <1>5 DEF RoutesIInv, RouteInv, Guarded, Reserved, Registered, Deleted, OperationsAreExclusive,
                OnlyTheGapIsMissed, RevivedByTheGapOnly, Operating, PastGuard, Holds, Unfinished,
                routesVars, workVars, routeVars
  <2> QED BY <2>1, <2>2, <2>3 DEF RoutesIInv
<1> QED BY <1>4, <1>5

LEMMA AlwaysIInv == RoutesSpec => []RoutesIInv
BY InitRoutesIInv, NextRoutesIInv, PTL DEF RoutesSpec

\* The guard of the route and the reservations of the loop together keep the session
\* and its turns apart, except in the gap between the bus and the loop, for any number
\* of requests and keys and any size of the cache and the lane.
THEOREM RoutesAreCorrect == RoutesSpec => []RoutesInv
<1>1. RoutesIInv => RoutesInv
  BY DEF RoutesIInv, CacheInv, RouteInv, RoutesInv
<1> QED BY <1>1, AlwaysIInv, PTL

\* Of two accepted submissions with one key the entry of one was evicted or had
\* expired: two entries of one key are never remembered.
THEOREM MutationsAreOnce == RoutesSpec => []OnceWhileRemembered
<1>1. RoutesIInv => OnceWhileRemembered
  <2> SUFFICES ASSUME RoutesIInv, NEW q \in Requests, NEW r \in Requests, q # r, Key(q) = Key(r),
                      answer[q] = "accepted", answer[r] = "accepted",
                      q \notin forgotten, r \notin forgotten
               PROVE  FALSE
    BY DEF OnceWhileRemembered
  <2>1. q \in ToSet(remembered) /\ r \in ToSet(remembered)
    BY DEF RoutesIInv, CacheInv, Memory
  <2> QED BY <2>1 DEF RoutesIInv, CacheInv, Memory
<1> QED BY <1>1, AlwaysIInv, PTL

\* A session is deleted by an operation that has it reserved and at the revision that
\* the client has seen.
THEOREM DeletionIsAsSeen == RoutesSpec => DeletedAsSeen
<1>1. ASSUME RoutesIInv, [RoutesNext]_routesVars, session' = "gone", session # "gone"
      PROVE  \E r \in Requests : exclusive = r /\ work[r] = "deleting" /\ loaded[r] = revision
  <2>1. session' # session /\ session' # "new"
    BY <1>1
  <2>2. RoutesNext
    BY <1>1, <2>1 DEF routesVars, routeVars
  <2>3. ASSUME NEW r \in Requests, Client(r) \/ Forget(r) \/ CancelFlight(r) PROVE session' = session
    BY <2>3 DEF Client, Request, Execute, Disconnect, Forget, CancelFlight, routeVars
  <2>4. ASSUME NEW r \in Requests, Turn(r) PROVE session' \in {session, "new"}
    BY <2>4 DEF Turn, Consume, HandOff, Begin, Record, Reply
  <2>5. ASSUME NEW r \in Requests, Progress(r) PROVE session' = session \/ DeleteSession(r)
    BY <2>5 DEF Progress, Enter, Missing, Answered, Admit, PublishTurn, PublishTimesOut, BeginDelete,
                Cleaned, BeginCompact, Compacted, BeginJob, JobOutputs, JobEnds, routeVars
  <2>6. ASSUME CloseCache \/ CacheClosed \/ OtherOutput \/ Take \/ Deliver PROVE session' = session
    BY <2>6 DEF CloseCache, CacheClosed, OtherOutput, Take, Deliver, routeVars
  <2>7. PICK r \in Requests : DeleteSession(r)
    BY <2>1, <2>2, <2>3, <2>4, <2>5, <2>6 DEF RoutesNext
  <2>8. work[r] = "deleting"
    BY <2>7 DEF DeleteSession
  <2> QED BY <1>1, <2>8 DEF RoutesIInv, RouteInv, Reserved, Operating
<1>2. RoutesIInv /\ [RoutesNext]_routesVars =>
        [session' = "gone" /\ session # "gone" =>
           \E r \in Requests : exclusive = r /\ work[r] = "deleting" /\ loaded[r] = revision]_routesVars
  BY <1>1
<1> QED BY <1>2, AlwaysIInv, PTL DEF RoutesSpec, DeletedAsSeen

-----------------------------------------------------------------------------
(***************************************************************************)
(* No event is missed in silence, for every size of the history and of the  *)
(* queue and any number of losses, suspensions and restarts.                *)
(*                                                                         *)
(* The inductive invariant has two parts.  Control relates the loop, the     *)
(* connection and the recovery: a tab reads only what is not dirty.          *)
(* Delivery looks into the pipe: below the number of an item that waits in   *)
(* it, every event is in the view, or waits in front of it, or a reset or    *)
(* the end of the stream does.                                              *)
(***************************************************************************)

Control ==
  /\ subscribed <=> pc = "read"
  /\ ~subscribed => wire = <<>> /\ queue = <<>>
  /\ server = "down" => ~subscribed
  /\ pc \in {"fetch", "read"} => ~dirty
  /\ attempt # "none" => dirty
  /\ snapshot <= newest
  /\ sameRun => cursor <= newest
  /\ sameRun /\ attempt = "read" => cursor <= snapshot

Carried(s) == {s[i] : i \in DOMAIN s}
Accounted(e) == e \in known \cup lost

\* Event e, or something that ends the stream, stands before position i of s.
Leads(s, i, e) == \E k \in 1..(i - 1) : s[k] = Event(e) \/ s[k].kind # "event"

Bounded ==
  \A item \in Carried(wire) \cup Carried(queue) :
    /\ item.id <= newest
    /\ item = End \/ item.kind # "end"
    /\ item.kind = "event" => item.id >= 1
    /\ item = End => server # "up"

Increasing ==
  /\ \A i \in DOMAIN wire : wire[i].kind = "event" => wire[i].id > cursor
  /\ \A i \in DOMAIN queue : queue[i].kind = "event" => queue[i].id > cursor
  /\ \A i, j \in DOMAIN wire :
       i < j /\ wire[i].kind = "event" /\ wire[j].kind = "event" => wire[i].id < wire[j].id
  /\ \A i, j \in DOMAIN queue :
       i < j /\ queue[i].kind = "event" /\ queue[j].kind = "event" => queue[i].id < queue[j].id
  /\ \A i \in DOMAIN wire, j \in DOMAIN queue :
       wire[i].kind = "event" /\ queue[j].kind = "event" => wire[i].id < queue[j].id

Complete ==
  /\ \A i \in DOMAIN wire : wire[i].kind = "event" =>
       \A e \in (cursor + 1)..(wire[i].id - 1) : Accounted(e) \/ Leads(wire, i, e)
  /\ \A i \in DOMAIN queue : queue[i].kind = "event" =>
       \A e \in (cursor + 1)..(queue[i].id - 1) :
         Accounted(e) \/ Leads(wire, Len(wire) + 1, e) \/ Leads(queue, i, e)

Delivery ==
  /\ Bounded
  /\ sameRun => Increasing /\ Complete
  /\ GapIsAnnounced
  /\ CursorIsHonest

StreamIInv == TypeOK /\ Control /\ Delivery

-----------------------------------------------------------------------------
LEMMA ItemsTyped ==
  ASSUME TypeOK
  PROVE  \A item \in Carried(wire) \cup Carried(queue) :
           item.id \in Nat /\ item.kind \in {"event", "stream.reset", "end"}
<1>1. \A item \in Item : item.id \in Nat /\ item.kind \in {"event", "stream.reset", "end"}
  BY DEF Item
<1>2. Carried(wire) \subseteq Item /\ Carried(queue) \subseteq Item
  BY DEF TypeOK, Carried
<1> QED BY <1>1, <1>2

LEMMA InitStreamIInv == Init => StreamIInv
<1> SUFFICES ASSUME Init PROVE StreamIInv
  OBVIOUS
<1>1. TypeOK
  <2>1. <<>> \in Seq(Item) /\ Len(<<>>) = 0
    OBVIOUS
  <2>2. 0 \in 0..MaxEvents /\ 0 \in 0..MaxLosses /\ 0 \in 0..MaxSuspends /\ 0 \in 0..MaxRestarts
        /\ 0 <= SubscriberLimit
    BY StreamAssumption DEF StreamAssumption
  <2> QED BY <2>1, <2>2 DEF Init, TypeOK
<1>2. Control
  BY DEF Init, Control
<1>3. Delivery
  BY DEF Init, Delivery, Bounded, Carried, Increasing, Complete, GapIsAnnounced, CursorIsHonest, Published
<1> QED BY <1>1, <1>2, <1>3 DEF StreamIInv

\* Steps that close the connection and leave the cursor where it is: what the
\* tab has not seen lies above it and is asked for again.
LEMMA CloseKeepsDelivery ==
  ASSUME StreamIInv, subscribed, NoConnection, UNCHANGED <<newest, server, cursor, known, sameRun, lost, dirty>>
  PROVE  Delivery'
<1>1. Bounded' /\ (sameRun' => Increasing' /\ Complete')
  BY DEF NoConnection, Bounded, Carried, Increasing, Complete
<1>2. CursorIsHonest'
  BY DEF StreamIInv, Delivery, CursorIsHonest
<1>3. GapIsAnnounced'
  <2> SUFFICES ASSUME sameRun, NEW e \in Published, e \notin known \cup lost, ~dirty
               PROVE  e > cursor
    BY DEF NoConnection, GapIsAnnounced, Published
  <2> QED BY DEF StreamIInv, TypeOK, Delivery, CursorIsHonest, Published
<1> QED BY <1>1, <1>2, <1>3 DEF Delivery

LEMMA PublishKeeps == ASSUME StreamIInv, Publish PROVE StreamIInv'
<1> USE DEF StreamIInv
<1>0. newest \in Nat /\ newest' = newest + 1 /\ newest' \in 0..MaxEvents
  BY StreamAssumption DEF StreamAssumption, TypeOK, Publish
<1>1. TypeOK'
  <2>1. Event(newest + 1) \in Item /\ Reset(newest + 1) \in Item
    BY <1>0 DEF Event, Reset, Item
  <2>2. queue' \in Seq(Item) /\ Len(queue') <= SubscriberLimit
    <3>1. CASE ~subscribed
      BY <3>1 DEF Publish, TypeOK
    <3>2. CASE subscribed /\ Len(queue) < SubscriberLimit
      BY <3>2, <2>1, StreamAssumption DEF StreamAssumption, Publish, TypeOK, Offer
    <3>3. CASE subscribed /\ ~(Len(queue) < SubscriberLimit)
      <4>1. queue' = <<Reset(newest + 1)>>
        BY <3>3 DEF Publish, Offer
      <4>2. <<Reset(newest + 1)>> \in Seq(Item) /\ Len(<<Reset(newest + 1)>>) = 1
        BY <2>1
      <4> QED BY <4>1, <4>2, StreamAssumption DEF StreamAssumption
    <3> QED BY <3>1, <3>2, <3>3
  <2> QED BY <1>0, <2>2 DEF TypeOK, Publish, recover, page, view, bounds
<1>2. Control'
  BY <1>0 DEF Control, Publish, recover, page, view, bounds, TypeOK
<1> USE DEF Delivery
<1>3. CursorIsHonest'
  BY DEF CursorIsHonest, Publish, recover, page, view, bounds
<1>4. UNCHANGED <<wire, cursor, known, lost, sameRun, dirty, subscribed, server>> /\ server = "up"
  BY DEF Publish, recover, page, view, bounds
<1>5. CASE ~subscribed
  <2>1. wire' = <<>> /\ queue' = <<>>
    BY <1>5 DEF Publish, Control
  <2>2. Bounded' /\ (sameRun' => Increasing' /\ Complete')
    BY <2>1 DEF Bounded, Carried, Increasing, Complete
  <2>3. GapIsAnnounced'
    BY <1>0, <1>4, <1>5, <2>1 DEF GapIsAnnounced, Owed, Published, Control, TypeOK
  <2> QED BY <1>1, <1>2, <1>3, <2>2, <2>3
<1>6. CASE subscribed /\ Len(queue) < SubscriberLimit
  <2>1. queue' = Append(queue, Event(newest + 1))
    BY <1>6 DEF Publish, Offer
  <2>2. /\ DOMAIN queue' = 1..(Len(queue) + 1) /\ DOMAIN queue = 1..Len(queue) /\ Len(queue) \in Nat
        /\ \A i \in DOMAIN queue : queue'[i] = queue[i]
        /\ queue'[Len(queue) + 1] = Event(newest + 1)
    BY <2>1, <1>0 DEF TypeOK, Event, Item
  <2>3. Carried(queue') = Carried(queue) \cup {Event(newest + 1)}
    BY <2>2 DEF Carried
  <2>4. Bounded'
    <3>1. \A item \in Carried(wire) \cup Carried(queue) : item.id <= newest + 1
      BY <1>0, ItemsTyped DEF Bounded
    <3> QED BY <3>1, <1>0, <1>4, <2>3 DEF Bounded, Event, End
  <2>5. ASSUME sameRun PROVE Increasing'
    <3>1. \A i \in DOMAIN queue : queue[i].id <= newest /\ queue[i].id \in Nat
      BY ItemsTyped DEF Bounded, Carried
    <3>2. \A i \in DOMAIN wire : wire[i].id <= newest /\ wire[i].id \in Nat
      BY ItemsTyped DEF Bounded, Carried
    <3>3. cursor < newest + 1
      BY <2>5 DEF Control, TypeOK
    <3>4. Increasing
      BY <2>5
    <3>5. \A i \in DOMAIN queue' : queue'[i].kind = "event" => queue'[i].id > cursor
      BY <2>2, <3>3, <3>4 DEF Increasing, Event
    <3>6. \A i, j \in DOMAIN queue' :
            i < j /\ queue'[i].kind = "event" /\ queue'[j].kind = "event" => queue'[i].id < queue'[j].id
      BY <2>2, <3>1, <3>4, <1>0 DEF Increasing, Event
    <3>7. \A i \in DOMAIN wire, j \in DOMAIN queue' :
            wire[i].kind = "event" /\ queue'[j].kind = "event" => wire[i].id < queue'[j].id
      BY <2>2, <3>2, <3>4, <1>0 DEF Increasing, Event
    <3> QED BY <3>4, <3>5, <3>6, <3>7, <1>4 DEF Increasing
  <2>6. ASSUME sameRun PROVE Complete'
    <3>1. \A i \in DOMAIN wire' : wire'[i].kind = "event" =>
            \A e \in (cursor' + 1)..(wire'[i].id - 1) : Accounted(e)' \/ Leads(wire', i, e)
      BY <2>6, <1>4 DEF Complete, Accounted
    <3>2. ASSUME NEW i \in DOMAIN queue', queue'[i].kind = "event",
                 NEW e \in (cursor' + 1)..(queue'[i].id - 1)
          PROVE  Accounted(e)' \/ Leads(wire', Len(wire') + 1, e) \/ Leads(queue', i, e)
      <4>1. CASE i \in DOMAIN queue
        <5>1. Accounted(e) \/ Leads(wire, Len(wire) + 1, e) \/ Leads(queue, i, e)
          BY <2>6, <2>2, <4>1, <3>2, <1>4 DEF Complete
        <5>2. Leads(queue, i, e) => Leads(queue', i, e)
          BY <2>2, <4>1 DEF Leads
        <5> QED BY <5>1, <5>2, <1>4 DEF Accounted
      <4>2. CASE i = Len(queue) + 1
        <5>1. e \in Published /\ e > cursor /\ e \in Nat
          BY <4>2, <2>2, <3>2, <1>0, <1>4 DEF Event, Published, TypeOK
        <5>2. ~dirty
          BY <1>6 DEF Control
        <5>3. Accounted(e) \/ \E item \in Owed : item = Event(e) \/ item.kind # "event"
          BY <2>6, <5>1, <5>2, <1>6 DEF GapIsAnnounced, Accounted, End
        <5>4. ASSUME NEW item \in Owed, item = Event(e) \/ item.kind # "event"
              PROVE  Leads(wire, Len(wire) + 1, e) \/ Leads(queue', i, e)
          <6>1. CASE \E k \in DOMAIN wire : item = wire[k]
            BY <6>1, <5>4 DEF Leads, TypeOK
          <6>2. CASE \E k \in DOMAIN queue : item = queue[k]
            BY <6>2, <5>4, <4>2, <2>2 DEF Leads
          <6> QED BY <6>1, <6>2 DEF Owed
        <5> QED BY <5>3, <5>4, <1>4 DEF Accounted
      <4> QED BY <2>2, <4>1, <4>2
    <3> QED BY <3>1, <3>2 DEF Complete
  <2>7. GapIsAnnounced'
    <3>1. Owed' = Owed \cup {Event(newest + 1)}
      BY <2>2, <1>4 DEF Owed
    <3>2. \A e \in Published' : e \in Published \/ e = newest + 1
      BY <1>0 DEF Published
    <3> QED BY <3>1, <3>2, <1>4 DEF GapIsAnnounced
  <2> QED BY <1>1, <1>2, <1>3, <1>4, <2>4, <2>5, <2>6, <2>7
<1>7. CASE subscribed /\ ~(Len(queue) < SubscriberLimit)
  <2>1. queue' = <<Reset(newest + 1)>>
    BY <1>7 DEF Publish, Offer
  <2>2. DOMAIN queue' = {1} /\ queue'[1] = Reset(newest + 1)
    BY <2>1
  <2>3. Bounded'
    <3>1. \A item \in Carried(wire) : item.id <= newest + 1
      BY <1>0, ItemsTyped DEF Bounded
    <3>2. Carried(queue') = {Reset(newest + 1)} /\ Carried(wire') = Carried(wire)
      BY <2>2, <1>4 DEF Carried
    <3> QED BY <3>1, <3>2, <1>0, <1>4 DEF Bounded, Reset, End
  <2>4. sameRun => Increasing' /\ Complete'
    BY <1>4, <2>2 DEF Increasing, Complete, Reset, Accounted
  <2>5. GapIsAnnounced'
    <3>1. Reset(newest + 1) \in Owed'
      BY <2>2 DEF Owed
    <3> QED BY <3>1 DEF GapIsAnnounced, Reset
  <2> QED BY <1>1, <1>2, <1>3, <1>4, <2>3, <2>4, <2>5
<1> QED BY <1>5, <1>6, <1>7

LEMMA SendKeeps == ASSUME StreamIInv, Send PROVE StreamIInv'
<1> USE DEF StreamIInv, Delivery
<1>0. UNCHANGED <<server, newest, subscribed, cursor, known, lost, sameRun, dirty, pc, attempt, snapshot>>
  BY DEF Send, broker, recover, view
<1>1. /\ wire = <<>> /\ wire' = <<queue[1]>> /\ queue # <<>> /\ queue' = Tail(queue)
      /\ 1 \in DOMAIN queue
  BY DEF Send, TypeOK
<1>2. /\ DOMAIN queue = 1..Len(queue) /\ Len(queue) \in Nat \ {0}
      /\ DOMAIN queue' = 1..(Len(queue) - 1)
      /\ \A i \in DOMAIN queue' : queue'[i] = queue[i + 1] /\ i + 1 \in DOMAIN queue
      /\ DOMAIN wire' = {1} /\ wire'[1] = queue[1] /\ Len(wire') = 1 /\ Len(wire) = 0
  BY <1>1 DEF TypeOK
<1>3. Carried(wire') \cup Carried(queue') = Carried(wire) \cup Carried(queue)
  <2>1. Carried(wire') = {queue[1]} /\ Carried(wire) = {}
    BY <1>1, <1>2 DEF Carried
  <2>2. Carried(queue') \subseteq Carried(queue)
    BY <1>2 DEF Carried
  <2>3. Carried(queue) \subseteq Carried(queue') \cup {queue[1]}
    <3> SUFFICES ASSUME NEW i \in DOMAIN queue, i # 1 PROVE queue[i] \in Carried(queue')
      BY DEF Carried
    <3>1. i - 1 \in DOMAIN queue' /\ queue'[i - 1] = queue[i]
      BY <1>2
    <3> QED BY <3>1 DEF Carried
  <2> QED BY <1>1, <2>1, <2>2, <2>3 DEF Carried
<1>4. TypeOK'
  <2>1. wire' \in Seq(Item) /\ queue' \in Seq(Item) /\ Len(queue') <= SubscriberLimit
    BY <1>1, StreamAssumption DEF TypeOK, StreamAssumption
  <2> QED BY <2>1 DEF Send, TypeOK, broker, recover, page, view, bounds
<1>5. subscribed
  BY <1>1 DEF Control
<1>6. Control'
  BY <1>0, <1>5 DEF Control
<1>7. Bounded'
  BY <1>0, <1>3 DEF Bounded
<1>8. CursorIsHonest'
  BY <1>0 DEF CursorIsHonest
<1>9. GapIsAnnounced'
  <2>1. Owed' = Owed
    BY <1>3 DEF Carried, Owed
  <2> QED BY <2>1, <1>0 DEF GapIsAnnounced, Published
<1>10. ASSUME sameRun PROVE Increasing'
  BY <1>0, <1>2, <1>10 DEF Increasing
<1>11. ASSUME sameRun PROVE Complete'
  <2>1. ASSUME NEW e \in Int, Leads(queue, 1, e) PROVE FALSE
    BY <2>1 DEF Leads
  <2>2. ASSUME NEW e \in Int, Leads(wire, Len(wire) + 1, e) PROVE FALSE
    BY <2>2, <1>2 DEF Leads
  <2>3. ASSUME NEW i \in DOMAIN queue', NEW e \in Int, Leads(queue, i + 1, e)
        PROVE  Leads(wire', Len(wire') + 1, e) \/ Leads(queue', i, e)
    <3>1. PICK k \in 1..i : queue[k] = Event(e) \/ queue[k].kind # "event"
      BY <2>3, <1>2 DEF Leads
    <3>2. CASE k = 1
      BY <3>1, <3>2, <1>2 DEF Leads
    <3>3. CASE k # 1
      <4>1. k - 1 \in 1..(i - 1) /\ k - 1 \in DOMAIN queue' /\ queue'[k - 1] = queue[k]
        BY <3>3, <1>2
      <4> QED BY <4>1, <3>1 DEF Leads
    <3> QED BY <3>2, <3>3
  <2>4. \A i \in DOMAIN queue : queue[i].id \in Nat
    BY ItemsTyped DEF Carried
  <2>5. \A i \in DOMAIN queue : queue[i].kind = "event" =>
          \A e \in (cursor + 1)..(queue[i].id - 1) : Accounted(e) \/ Leads(queue, i, e)
    BY <1>11, <2>2 DEF Complete
  <2>6. \A i \in DOMAIN wire' : wire'[i].kind = "event" =>
          \A e \in (cursor + 1)..(wire'[i].id - 1) : Accounted(e)
    BY <1>2, <2>1, <2>5
  <2>7. ASSUME NEW i \in DOMAIN queue', queue'[i].kind = "event",
               NEW e \in (cursor + 1)..(queue'[i].id - 1)
        PROVE  Accounted(e) \/ Leads(wire', Len(wire') + 1, e) \/ Leads(queue', i, e)
    BY <2>3, <2>5, <2>7, <1>2
  <2> QED BY <2>6, <2>7, <1>0 DEF Complete, Accounted
<1> QED BY <1>0, <1>4, <1>6, <1>7, <1>8, <1>9, <1>10, <1>11

LEMMA ReceiveKeeps == ASSUME StreamIInv, Receive PROVE StreamIInv' /\ (sameRun => Head(wire).id > cursor)
<1> USE DEF StreamIInv, Delivery
<1>0. UNCHANGED <<server, newest, subscribed, queue, lost, sameRun, dirty, pc, attempt, snapshot>>
  BY DEF Receive, broker, recover
<1>1. /\ Head(wire) = wire[1] /\ 1 \in DOMAIN wire /\ wire[1].kind = "event"
      /\ known' = known \cup {wire[1].id} /\ cursor' = wire[1].id /\ wire' = Tail(wire)
  BY DEF Receive, TypeOK
<1>2. /\ DOMAIN wire = 1..Len(wire) /\ Len(wire) \in Nat \ {0} /\ Len(wire') = Len(wire) - 1
      /\ DOMAIN wire' = 1..(Len(wire) - 1)
      /\ \A i \in DOMAIN wire' : wire'[i] = wire[i + 1] /\ i + 1 \in DOMAIN wire
  BY <1>1 DEF TypeOK
<1>3. wire[1].id \in 1..newest /\ newest \in 0..MaxEvents /\ MaxEvents \in Nat
  BY <1>1, ItemsTyped, StreamAssumption DEF StreamAssumption, Bounded, Carried, TypeOK
<1>4. TypeOK'
  <2>1. wire' \in Seq(Item)
    BY <1>1 DEF TypeOK
  <2>2. known' \in SUBSET (1..MaxEvents) /\ cursor' \in 0..MaxEvents
    <3>1. wire[1].id \in 1..MaxEvents /\ wire[1].id \in 0..MaxEvents
      BY <1>3
    <3>2. known \in SUBSET (1..MaxEvents)
      BY DEF TypeOK
    <3> QED BY <3>1, <3>2, <1>1
  <2> QED BY <2>1, <2>2 DEF Receive, TypeOK, broker, recover, page, bounds
<1>5. ~dirty /\ pc = "read" /\ subscribed
  BY DEF Receive, Control
<1>6. Control'
  BY <1>0, <1>1, <1>3, <1>5 DEF Control
<1>7. Carried(wire') \subseteq Carried(wire)
  BY <1>2 DEF Carried
<1>8. Bounded'
  BY <1>0, <1>7 DEF Bounded
<1>9. CursorIsHonest'
  <2> SUFFICES ASSUME sameRun, NEW e \in 1..wire[1].id, e # wire[1].id
               PROVE  e \in known \cup lost
    BY <1>0, <1>1 DEF CursorIsHonest
  <2>1. cursor \in Nat
    BY <1>3 DEF TypeOK
  <2>2. CASE e <= cursor
    BY <2>1, <2>2, <1>5 DEF CursorIsHonest
  <2>3. CASE e > cursor
    <3>1. ~Leads(wire, 1, e)
      BY DEF Leads
    <3>2. e \in (cursor + 1)..(wire[1].id - 1)
      BY <2>1, <2>3, <1>3
    <3> QED BY <3>1, <3>2, <1>1 DEF Complete, Accounted
  <2> QED BY <2>1, <2>2, <2>3
<1>10. ASSUME sameRun PROVE Increasing'
  BY <1>0, <1>1, <1>2, <1>10 DEF Increasing
<1>11. \A e \in Int : e > wire[1].id => wire[1] # Event(e)
  BY <1>3 DEF Event
<1>12. ASSUME NEW e \in Int, e > wire[1].id, NEW i \in 1..(Len(wire) + 1), Leads(wire, i, e)
       PROVE  Leads(wire', i - 1, e)
  <2>1. PICK k \in 1..(i - 1) : wire[k] = Event(e) \/ wire[k].kind # "event"
    BY <1>12 DEF Leads
  <2>2. k # 1
    BY <2>1, <1>1, <1>11, <1>12
  <2>3. k - 1 \in 1..(i - 1 - 1) /\ wire'[k - 1] = wire[k]
    BY <2>1, <2>2, <1>2, <1>12
  <2> QED BY <2>1, <2>3 DEF Leads
<1>13. ASSUME sameRun PROVE Complete'
  <2>1. cursor \in Nat /\ cursor' > cursor
    BY <1>1, <1>3, <1>13 DEF Increasing, TypeOK
  <2>2. \A i \in DOMAIN wire : wire[i].id \in Nat
    BY ItemsTyped DEF Carried
  <2>3. \A i \in DOMAIN queue : queue[i].id \in Nat
    BY ItemsTyped DEF Carried
  <2>4. ASSUME NEW i \in DOMAIN wire', wire'[i].kind = "event",
               NEW e \in (cursor' + 1)..(wire'[i].id - 1)
        PROVE  Accounted(e)' \/ Leads(wire', i, e)
    <3>1. i + 1 \in DOMAIN wire /\ i + 1 \in 1..(Len(wire) + 1) /\ (i + 1) - 1 = i
          /\ e \in (cursor + 1)..(wire[i + 1].id - 1) /\ e > wire[1].id /\ e \in Int
          /\ wire[i + 1].kind = "event"
      BY <2>1, <2>2, <2>4, <1>1, <1>2, <1>3
    <3>2. Accounted(e) \/ Leads(wire, i + 1, e)
      BY <3>1, <1>13 DEF Complete
    <3>3. Leads(wire, i + 1, e) => Leads(wire', i, e)
      BY <3>1, <1>12
    <3> QED BY <3>2, <3>3, <1>0, <1>1 DEF Accounted
  <2>5. ASSUME NEW i \in DOMAIN queue, queue[i].kind = "event",
               NEW e \in (cursor' + 1)..(queue[i].id - 1)
        PROVE  Accounted(e)' \/ Leads(wire', Len(wire') + 1, e) \/ Leads(queue, i, e)
    <3>1. e \in (cursor + 1)..(queue[i].id - 1) /\ e > wire[1].id /\ e \in Int
      BY <2>1, <2>3, <2>5, <1>1, <1>3
    <3>2. Accounted(e) \/ Leads(wire, Len(wire) + 1, e) \/ Leads(queue, i, e)
      BY <3>1, <2>5, <1>13 DEF Complete
    <3>3. Len(wire) + 1 \in 1..(Len(wire) + 1) /\ (Len(wire) + 1) - 1 = Len(wire') + 1
      BY <1>2
    <3>4. Leads(wire, Len(wire) + 1, e) => Leads(wire', Len(wire') + 1, e)
      BY <3>1, <3>3, <1>12
    <3> QED BY <3>2, <3>4, <1>0, <1>1 DEF Accounted
  <2> QED BY <2>4, <2>5, <1>0 DEF Complete
<1>14. GapIsAnnounced'
  <2> SUFFICES ASSUME sameRun, NEW e \in Published, e \notin known, e \notin lost, e # wire[1].id
               PROVE  \/ \E item \in Owed' : item = Event(e) \/ item.kind = "stream.reset"
                      \/ \E item \in Owed' : item = End /\ e > wire[1].id
    BY <1>0, <1>1, <1>5 DEF GapIsAnnounced, Published
  <2>1. Owed = Owed' \cup {wire[1]}
    <3>1. Carried(wire) = Carried(wire') \cup {wire[1]}
      <4> SUFFICES ASSUME NEW i \in DOMAIN wire, i # 1 PROVE wire[i] \in Carried(wire')
        BY <1>1, <1>7 DEF Carried
      <4>1. i - 1 \in DOMAIN wire' /\ wire'[i - 1] = wire[i]
        BY <1>2
      <4> QED BY <4>1 DEF Carried
    <3> QED BY <3>1, <1>0 DEF Carried, Owed
  <2>2. wire[1] # Event(e) /\ wire[1].kind # "stream.reset" /\ wire[1] # End
    BY <1>1 DEF Event, End
  <2>3. e \in 1..newest /\ newest \in Nat
    BY <1>3 DEF Published
  <2>4. e > wire[1].id
    BY <1>9, <2>3, <1>0, <1>1, <1>3, <1>5 DEF CursorIsHonest
  <2> QED BY <2>1, <2>2, <2>4, <1>5 DEF GapIsAnnounced
<1>15. sameRun => Head(wire).id > cursor
  BY <1>1 DEF Increasing
<1> QED BY <1>0, <1>4, <1>6, <1>8, <1>9, <1>10, <1>13, <1>14, <1>15

LEMMA ConnectKeeps == ASSUME StreamIInv, Connect PROVE StreamIInv'
<1> USE DEF StreamIInv, Delivery
<1>0. /\ UNCHANGED <<server, newest, cursor, known, sameRun, dirty, attempt, snapshot>>
      /\ subscribed' = TRUE /\ pc' = "read" /\ queue' = <<>> /\ wire' = Replay /\ ~dirty
      /\ server = "up" /\ ~subscribed
      /\ lost' = IF cursor = 0 THEN lost \cup (1..(Oldest - 1) \ known) ELSE lost
  BY DEF Connect, Control, broker, recover
<1>1. newest \in Nat /\ newest \in 0..MaxEvents /\ cursor \in Nat /\ Oldest \in 1..(newest + 1) /\ MaxEvents \in Nat
  BY StreamAssumption DEF StreamAssumption, TypeOK, Oldest
<1>2. lost' \in SUBSET (1..MaxEvents) /\ lost \subseteq lost'
  <2>1. 1..(Oldest - 1) \subseteq 1..MaxEvents
    BY <1>1
  <2>2. lost \in SUBSET (1..MaxEvents)
    BY DEF TypeOK
  <2> QED BY <2>1, <2>2, <1>0
<1>3. Control'
  BY <1>0 DEF Control
<1>4. CursorIsHonest'
  BY <1>0, <1>2 DEF CursorIsHonest
<1>5. CASE cursor > newest \/ (cursor # 0 /\ cursor < Oldest - 1)
  <2>1. wire' = <<Reset(newest)>>
    BY <1>0, <1>5 DEF Replay
  <2>2. DOMAIN wire' = {1} /\ wire'[1] = Reset(newest) /\ DOMAIN queue' = {}
    BY <2>1, <1>0
  <2>3. TypeOK'
    <3>1. Reset(newest) \in Item
      BY <1>1 DEF Reset, Item
    <3>2. wire' \in Seq(Item) /\ queue' \in Seq(Item) /\ Len(queue') <= SubscriberLimit
      BY <3>1, <2>1, <1>0, StreamAssumption DEF StreamAssumption
    <3> QED BY <3>2, <1>0, <1>2 DEF Connect, TypeOK, broker, recover, page, bounds
  <2>4. Carried(wire') \cup Carried(queue') = {Reset(newest)} /\ Owed' = {Reset(newest)}
    BY <2>2 DEF Carried, Owed
  <2>5. Bounded'
    BY <2>4, <1>0, <1>1 DEF Bounded, Reset, End
  <2>6. Increasing' /\ Complete'
    BY <2>2 DEF Increasing, Complete, Reset
  <2>7. GapIsAnnounced'
    BY <2>4 DEF GapIsAnnounced, Reset
  <2> QED BY <2>3, <2>5, <2>6, <2>7, <1>3, <1>4
<1>6. CASE ~(cursor > newest \/ (cursor # 0 /\ cursor < Oldest - 1))
  <2> DEFINE from == IF cursor + 1 < Oldest THEN Oldest ELSE cursor + 1
             n == newest - from + 1
  <2>1. from \in 1..(newest + 1) /\ n \in Nat /\ from > cursor /\ (from # cursor + 1 => cursor = 0 /\ from = Oldest)
    BY <1>1, <1>6
  <2>2. wire' = [i \in 1..n |-> Event(from + i - 1)]
    BY <1>0, <1>6 DEF Replay
  <2> HIDE DEF from, n
  <2>3. DOMAIN wire' = 1..n /\ DOMAIN queue' = {} /\ (\A i \in 1..n : wire'[i] = Event(from + i - 1))
    BY <2>2, <1>0
  <2>n. \A i \in 1..n : from + i - 1 \in from..newest
    BY <2>1, <1>1 DEF n
  <2>4. TypeOK'
    <3>1. \A i \in 1..n : Event(from + i - 1) \in Item
      BY <2>n, <2>1, <1>1 DEF Event, Item
    <3>2. wire' \in Seq(Item)
      BY <3>1, <2>1, <2>2
    <3>3. queue' \in Seq(Item) /\ Len(queue') <= SubscriberLimit
      BY <1>0, StreamAssumption DEF StreamAssumption
    <3> QED BY <3>2, <3>3, <1>0, <1>2 DEF Connect, TypeOK, broker, recover, page, bounds
  <2>5. Bounded'
    <3> SUFFICES ASSUME NEW i \in 1..n
                 PROVE  /\ wire'[i].id <= newest' /\ wire'[i].kind # "end"
                        /\ wire'[i].id >= 1 /\ wire'[i] # End
      BY <2>3 DEF Bounded, Carried
    <3>1. wire'[i].id = from + i - 1 /\ wire'[i].kind = "event"
      BY <2>3 DEF Event
    <3>2. from + i - 1 \in from..newest
      BY <2>n
    <3>3. wire'[i].id <= newest /\ wire'[i].id >= 1
      BY <3>1, <3>2, <2>1, <1>1
    <3> QED BY <3>1, <3>3, <1>0 DEF End
  <2>6. Increasing'
    <3>1. \A i \in DOMAIN wire' : wire'[i].id = from + i - 1 /\ i \in Nat /\ i >= 1
      BY <2>3 DEF Event
    <3> QED BY <3>1, <2>1, <2>3, <1>0, <1>1 DEF Increasing
  <2>7. Complete'
    <3> SUFFICES ASSUME NEW i \in 1..n, NEW e \in (cursor + 1)..(wire'[i].id - 1)
                 PROVE  Accounted(e)' \/ Leads(wire', i, e)
      BY <2>3, <1>0 DEF Complete
    <3>1. wire'[i].id = from + i - 1
      BY <2>3 DEF Event
    <3>2. CASE e < from
      <4>1. e \in 1..(Oldest - 1) /\ cursor = 0
        BY <3>2, <2>1, <1>1
      <4> QED BY <4>1, <1>0 DEF Accounted
    <3>3. CASE e >= from
      <4>1. e - from + 1 \in 1..(i - 1) /\ e - from + 1 \in 1..n /\ from + (e - from + 1) - 1 = e
        BY <3>1, <3>3, <2>1, <1>1
      <4>2. wire'[e - from + 1] = Event(e)
        BY <4>1, <2>3
      <4> QED BY <4>1, <4>2 DEF Leads
    <3> QED BY <3>2, <3>3, <2>1, <1>1
  <2>8. GapIsAnnounced'
    <3> SUFFICES ASSUME sameRun, NEW e \in Published, e \notin known, e \notin lost'
                 PROVE  \E item \in Owed' : item = Event(e)
      BY <1>0 DEF GapIsAnnounced, Published
    <3>0. e \in 1..newest
      BY DEF Published
    <3>1. e > cursor
      BY <3>0, <1>0, <1>1, <1>2 DEF CursorIsHonest
    <3>2. e >= from
      BY <3>0, <3>1, <2>1, <1>0, <1>1
    <3>3. e - from + 1 \in 1..n /\ from + (e - from + 1) - 1 = e
      BY <3>0, <3>2, <2>1, <1>1 DEF n
    <3>4. wire'[e - from + 1] = Event(e)
      BY <3>3, <2>3
    <3> QED BY <3>3, <3>4, <2>3 DEF Owed
  <2> QED BY <2>4, <2>5, <2>6, <2>7, <2>8, <1>3, <1>4
<1> QED BY <1>5, <1>6

LEMMA CloseBrokerKeeps == ASSUME StreamIInv, CloseBroker PROVE StreamIInv'
<1> USE DEF StreamIInv, Delivery
<1>0. /\ UNCHANGED <<newest, subscribed, wire, pc, cursor, known, lost, sameRun, dirty, attempt, snapshot>>
      /\ server = "up" /\ server' = "closed" /\ queue' = IF subscribed THEN <<End>> ELSE <<>>
  BY DEF CloseBroker, recover, view
<1>1. End \in Item /\ newest \in Nat /\ End.id = 0 /\ End.kind = "end"
  BY DEF End, Item, TypeOK
<1>2. TypeOK'
  <2>1. queue' \in Seq(Item) /\ Len(queue') <= SubscriberLimit
    BY <1>0, <1>1, StreamAssumption DEF StreamAssumption, TypeOK
  <2> QED BY <2>1, <1>0 DEF CloseBroker, TypeOK, recover, page, view, bounds
<1>3. Control'
  BY <1>0 DEF Control
<1>4. CursorIsHonest'
  BY <1>0 DEF CursorIsHonest
<1>5. Carried(queue') \subseteq {End} /\ Carried(wire') = Carried(wire)
  BY <1>0 DEF Carried
<1>6. Bounded'
  BY <1>0, <1>1, <1>5 DEF Bounded
<1>7. sameRun => Increasing' /\ Complete'
  <2>1. \A i \in DOMAIN queue' : queue'[i].kind # "event"
    BY <1>0, <1>1, <1>5 DEF Carried
  <2> QED BY <2>1, <1>0 DEF Increasing, Complete, Accounted
<1>8. GapIsAnnounced'
  <2> SUFFICES ASSUME sameRun, NEW e \in Published, e \notin known \cup lost, ~dirty, subscribed
               PROVE  \E item \in Owed' : item = End /\ e > cursor
    BY <1>0 DEF GapIsAnnounced, Published, Owed, Control
  <2>1. e > cursor
    BY <1>1 DEF CursorIsHonest, Published, TypeOK
  <2>2. End \in Owed'
    BY <1>0 DEF Owed
  <2> QED BY <2>1, <2>2
<1> QED BY <1>0, <1>2, <1>3, <1>4, <1>6, <1>7, <1>8

LEMMA CrashKeeps == ASSUME StreamIInv, Crash PROVE StreamIInv'
<1> USE DEF StreamIInv, Delivery
<1>0. /\ UNCHANGED <<cursor, dirty, attempt>> /\ newest' = 0 /\ subscribed' = FALSE
      /\ wire' = <<>> /\ queue' = <<>> /\ known' = {} /\ lost' = {} /\ snapshot' = 0
      /\ sameRun' = (cursor = 0) /\ pc' = IF pc = "read" THEN "wait" ELSE pc
  BY DEF Crash
<1>1. TypeOK'
  <2>1. 0 \in 0..MaxEvents /\ 0 <= SubscriberLimit /\ restarts' \in 0..MaxRestarts
    BY StreamAssumption DEF StreamAssumption, TypeOK, Crash
  <2>2. <<>> \in Seq(Item) /\ Len(<<>>) = 0
    OBVIOUS
  <2>3. sameRun' \in BOOLEAN /\ pc' \in {"idle", "top", "recover", "reset", "fetch", "read", "wait", "left"}
    BY <1>0 DEF TypeOK
  <2>4. UNCHANGED <<cursor, dirty, timer, attempt, suspended, resumePending, losses, suspends>> /\ server' = "down"
    BY DEF Crash, page
  <2> QED BY <2>1, <2>2, <2>3, <2>4, <1>0 DEF TypeOK
<1>2. Control'
  <2>1. sameRun' => cursor' = 0
    BY <1>0
  <2>2. ~subscribed' /\ pc' # "read" /\ (pc' = "fetch" => pc = "fetch")
    BY <1>0
  <2>3. (pc' = "fetch" => ~dirty') /\ (attempt' # "none" => dirty')
    BY <2>2, <1>0 DEF Control
  <2> QED BY <2>1, <2>2, <2>3, <1>0 DEF Control
<1>3. Bounded' /\ Increasing' /\ Complete'
  BY <1>0 DEF Bounded, Carried, Increasing, Complete
<1>4. GapIsAnnounced' /\ CursorIsHonest'
  <2>1. Published' = {}
    BY <1>0 DEF Published
  <2>2. sameRun' => 1..cursor' = {}
    <3>1. sameRun' => cursor' = 0
      BY <1>0
    <3>2. 1..0 = {}
      OBVIOUS
    <3> QED BY <3>1, <3>2
  <2> QED BY <2>1, <2>2 DEF GapIsAnnounced, CursorIsHonest
<1> QED BY <1>1, <1>2, <1>3, <1>4

LEMMA ReceiveResetKeeps == ASSUME StreamIInv, ReceiveReset PROVE StreamIInv'
<1> USE DEF StreamIInv, Delivery
<1>0. /\ UNCHANGED <<server, newest, known, lost, snapshot>> /\ dirty' = TRUE /\ sameRun' = TRUE
      /\ subscribed' = FALSE /\ wire' = <<>> /\ queue' = <<>> /\ cursor' = wire[1].id
      /\ pc' \in {"reset", "wait"} /\ pc = "read" /\ 1 \in DOMAIN wire
      /\ (attempt' = "asked" \/ attempt' = attempt)
  BY DEF ReceiveReset, NoConnection, TypeOK, broker
<1>1. attempt = "none" /\ attempt' # "read"
  BY <1>0 DEF Control
<1>2. wire[1].id \in 0..newest /\ newest \in 0..MaxEvents /\ MaxEvents \in Nat
  BY <1>0, ItemsTyped, StreamAssumption DEF StreamAssumption, Bounded, Carried, TypeOK
<1>3. TypeOK'
  <2>1. <<>> \in Seq(Item) /\ Len(<<>>) = 0 /\ 0 <= SubscriberLimit
    BY StreamAssumption DEF StreamAssumption
  <2>2. cursor' \in 0..MaxEvents
    BY <1>0, <1>2
  <2>3. timer' \in BOOLEAN /\ attempt' \in {"none", "asked", "read"}
    BY DEF ReceiveReset, TypeOK
  <2>4. UNCHANGED <<suspended, resumePending, losses, suspends, restarts>>
    BY DEF ReceiveReset, page, bounds
  <2> QED BY <2>1, <2>2, <2>3, <2>4, <1>0 DEF TypeOK
<1>4. Control'
  BY <1>0, <1>1, <1>2 DEF Control
<1>5. Bounded' /\ Increasing' /\ Complete'
  BY <1>0 DEF Bounded, Carried, Increasing, Complete
<1>6. GapIsAnnounced' /\ CursorIsHonest'
  BY <1>0 DEF GapIsAnnounced, CursorIsHonest
<1> QED BY <1>3, <1>4, <1>5, <1>6

LEMMA RecoveredKeeps == ASSUME StreamIInv, Recovered PROVE StreamIInv'
<1> USE DEF StreamIInv, Delivery
<1>0. /\ UNCHANGED <<server, newest, subscribed, wire, queue, cursor, snapshot, sameRun>>
      /\ attempt = "read" /\ attempt' = "none" /\ dirty' = FALSE
      /\ known' = known \cup 1..snapshot /\ lost' = {e \in lost : e > snapshot} /\ pc' = AfterAttempt(TRUE)
  BY DEF Recovered, broker, conn
<1>1. dirty /\ ~subscribed /\ wire = <<>> /\ queue = <<>> /\ pc # "read" /\ pc # "fetch"
  BY <1>0 DEF Control
<1>2. newest \in Nat /\ cursor \in Nat /\ snapshot \in 0..MaxEvents /\ snapshot \in Nat /\ MaxEvents \in Nat
  BY StreamAssumption DEF StreamAssumption, TypeOK
<1>3. pc' \in {"idle", "top", "recover", "reset", "fetch", "wait", "left"}
  BY <1>0, <1>1 DEF AfterAttempt, TypeOK
<1>4. TypeOK'
  <2>1. known' \in SUBSET (1..MaxEvents) /\ lost' \in SUBSET (1..MaxEvents)
    <3>1. 1..snapshot \subseteq 1..MaxEvents
      BY <1>2
    <3>2. known \in SUBSET (1..MaxEvents) /\ lost \in SUBSET (1..MaxEvents)
      BY DEF TypeOK
    <3> QED BY <3>1, <3>2, <1>0
  <2> QED BY <2>1, <1>3, <1>0 DEF Recovered, TypeOK, page, bounds
<1>5. Control'
  BY <1>0, <1>1, <1>3 DEF Control
<1>6. Bounded' /\ Increasing' /\ Complete'
  BY <1>0, <1>1 DEF Bounded, Carried, Increasing, Complete
<1>7. sameRun => cursor <= snapshot
  BY <1>0 DEF Control
<1>8. CursorIsHonest'
  BY <1>0, <1>2, <1>7 DEF CursorIsHonest
<1>9. GapIsAnnounced'
  <2> SUFFICES ASSUME sameRun, NEW e \in Published, e \notin known' PROVE e > cursor
    BY <1>0, <1>1 DEF GapIsAnnounced, Published
  <2> QED BY <1>0, <1>2, <1>7 DEF Published
<1> QED BY <1>4, <1>5, <1>6, <1>8, <1>9

\* The steps that leave the pipe, the cursor and the view alone.
LEMMA QuietKeeps ==
  ASSUME StreamIInv, UNCHANGED <<newest, subscribed, wire, queue, cursor, known, lost, sameRun, dirty>>,
         server' # server => server' = "up" /\ ~subscribed
  PROVE  Delivery'
<1> USE DEF StreamIInv, Delivery
<1>1. Bounded'
  <2>1. ~subscribed => Carried(wire) = {} /\ Carried(queue) = {}
    BY DEF Control, Carried
  <2> QED BY <2>1 DEF Bounded
<1>2. sameRun' => Increasing' /\ Complete'
  BY DEF Increasing, Complete, Accounted
<1>3. GapIsAnnounced' /\ CursorIsHonest'
  BY DEF GapIsAnnounced, CursorIsHonest, Published, Owed
<1> QED BY <1>1, <1>2, <1>3

LEMMA LoopKeeps ==
  ASSUME StreamIInv, Top \/ Refused \/ LoseConnection \/ Retry \/ Leave PROVE StreamIInv'
<1> USE DEF StreamIInv
<1>1. ASSUME Top PROVE StreamIInv'
  <2>1. TypeOK'
    BY <1>1 DEF Top, TypeOK, broker, conn, page, view, bounds
  <2>2. Control'
    BY <1>1 DEF Top, Control, broker, conn, page, view, bounds
  <2>3. Delivery'
    BY <1>1, QuietKeeps DEF Top, broker, conn, page, view, bounds
  <2> QED BY <2>1, <2>2, <2>3
<1>2. ASSUME Refused PROVE StreamIInv'
  <2>1. TypeOK'
    BY <1>2, StreamAssumption DEF StreamAssumption, Refused, TypeOK, broker, conn, recover, page, view
  <2>2. Control'
    BY <1>2 DEF Refused, Control, broker, conn, recover, page, view
  <2>3. Delivery'
    BY <1>2, QuietKeeps DEF Refused, broker, conn, recover, page, view
  <2> QED BY <2>1, <2>2, <2>3
<1>3. ASSUME LoseConnection PROVE StreamIInv'
  <2>1. TypeOK'
    <3>1. <<>> \in Seq(Item) /\ Len(<<>>) = 0 /\ 0 <= SubscriberLimit
      BY StreamAssumption DEF StreamAssumption
    <3>2. losses' \in 0..MaxLosses
      BY <1>3, StreamAssumption DEF StreamAssumption, LoseConnection, TypeOK
    <3> QED BY <1>3, <3>1, <3>2 DEF LoseConnection, NoConnection, TypeOK, broker, recover, page, view
  <2>2. Control'
    BY <1>3 DEF LoseConnection, NoConnection, Control, broker, recover, page, view
  <2>3. subscribed
    BY <1>3 DEF LoseConnection, Control
  <2>4. Delivery'
    BY <1>3, <2>3, CloseKeepsDelivery DEF LoseConnection, broker, recover, view
  <2> QED BY <2>1, <2>2, <2>4
<1>4. ASSUME Retry PROVE StreamIInv'
  <2>1. TypeOK'
    BY <1>4 DEF Retry, TypeOK, broker, conn, recover, page, view, bounds
  <2>2. Control'
    BY <1>4 DEF Retry, Control, broker, conn, recover, page, view, bounds
  <2>3. Delivery'
    BY <1>4, QuietKeeps DEF Retry, broker, conn, recover, view
  <2> QED BY <2>1, <2>2, <2>3
<1>5. ASSUME Leave PROVE StreamIInv'
  <2>1. TypeOK'
    BY <1>5 DEF Leave, TypeOK, broker, conn, recover, view, bounds
  <2>2. Control'
    BY <1>5 DEF Leave, Control, broker, conn, recover, view, bounds
  <2>3. Delivery'
    BY <1>5, QuietKeeps DEF Leave, broker, conn, recover, view
  <2> QED BY <2>1, <2>2, <2>3
<1> QED BY <1>1, <1>2, <1>3, <1>4, <1>5

LEMMA RecoveryKeeps == ASSUME StreamIInv, ReadState \/ AttemptFails \/ RecoveryTimer PROVE StreamIInv'
<1> USE DEF StreamIInv
<1>1. ASSUME ReadState PROVE StreamIInv'
  <2>1. TypeOK'
    BY <1>1 DEF ReadState, TypeOK, broker, conn, page, view, bounds
  <2>2. Control'
    BY <1>1 DEF ReadState, TypeOK, Control, broker, conn, page, view, bounds
  <2>3. Delivery'
    BY <1>1, QuietKeeps DEF ReadState, broker, conn, view
  <2> QED BY <2>1, <2>2, <2>3
<1>2. ASSUME AttemptFails PROVE StreamIInv'
  <2>1. pc' \in {"idle", "top", "recover", "reset", "wait", "left"} /\ pc \notin {"fetch", "read"}
    BY <1>2 DEF AttemptFails, AfterAttempt, TypeOK, Control
  <2>2. losses' \in 0..MaxLosses
    BY <1>2, StreamAssumption DEF StreamAssumption, AttemptFails, TypeOK
  <2>3. TypeOK'
    BY <1>2, <2>1, <2>2 DEF AttemptFails, TypeOK, broker, conn, page, view
  <2>4. Control'
    BY <1>2, <2>1 DEF AttemptFails, Control, broker, conn, page, view
  <2>5. Delivery'
    BY <1>2, QuietKeeps DEF AttemptFails, broker, conn, view
  <2> QED BY <2>3, <2>4, <2>5
<1>3. ASSUME RecoveryTimer PROVE StreamIInv'
  <2>1. TypeOK'
    BY <1>3 DEF RecoveryTimer, TypeOK, broker, conn, page, view, bounds
  <2>2. Control'
    BY <1>3 DEF RecoveryTimer, Control, broker, conn, page, view, bounds
  <2>3. Delivery'
    BY <1>3, QuietKeeps DEF RecoveryTimer, broker, conn, view
  <2> QED BY <2>1, <2>2, <2>3
<1> QED BY <1>1, <1>2, <1>3

LEMMA PageKeeps == ASSUME StreamIInv, Restart \/ Suspend \/ Resume PROVE StreamIInv'
<1> USE DEF StreamIInv
<1>1. ASSUME Restart PROVE StreamIInv'
  <2>0. ~subscribed
    BY <1>1 DEF Restart, Control
  <2>1. TypeOK'
    BY <1>1 DEF Restart, TypeOK, conn, recover, page, view, bounds
  <2>2. Control'
    BY <1>1 DEF Restart, Control, conn, recover, page, view, bounds
  <2>3. Delivery'
    BY <1>1, <2>0, QuietKeeps DEF Restart, conn, recover, view
  <2> QED BY <2>1, <2>2, <2>3
<1>2. ASSUME Suspend PROVE StreamIInv'
  <2>0. /\ pc' \in {"idle", "top", "recover", "reset", "left"}
        /\ UNCHANGED <<server, newest, cursor, dirty, attempt, snapshot, known, sameRun, lost>>
        /\ NoConnection
    BY <1>2 DEF Suspend, TypeOK, broker, view
  <2>1. TypeOK'
    <3>1. <<>> \in Seq(Item) /\ Len(<<>>) = 0 /\ 0 <= SubscriberLimit
      BY StreamAssumption DEF StreamAssumption
    <3>2. suspends' \in 0..MaxSuspends
      BY <1>2, StreamAssumption DEF StreamAssumption, Suspend, TypeOK
    <3> QED BY <1>2, <2>0, <3>1, <3>2 DEF Suspend, NoConnection, TypeOK
  <2>2. Control'
    BY <2>0 DEF NoConnection, Control
  <2>3. CASE subscribed
    BY <2>0, <2>1, <2>2, <2>3, CloseKeepsDelivery
  <2>4. CASE ~subscribed
    <3>1. UNCHANGED <<subscribed, wire, queue>>
      BY <2>0, <2>4 DEF NoConnection, Control, TypeOK
    <3> QED BY <3>1, <2>0, <2>1, <2>2, QuietKeeps
  <2> QED BY <2>3, <2>4
<1>3. ASSUME Resume PROVE StreamIInv'
  <2>1. TypeOK'
    BY <1>3 DEF Resume, TypeOK, broker, conn, view, bounds
  <2>2. Control'
    BY <1>3 DEF Resume, Control, broker, conn, view, bounds
  <2>3. Delivery'
    BY <1>3, QuietKeeps DEF Resume, broker, conn, view
  <2> QED BY <2>1, <2>2, <2>3
<1> QED BY <1>1, <1>2, <1>3

LEMMA NextStreamIInv == ASSUME StreamIInv, [Next]_vars PROVE StreamIInv'
<1>1. CASE UNCHANGED vars
  <2>1. TypeOK' /\ Control'
    BY <1>1 DEF StreamIInv, TypeOK, Control, vars, broker, conn, recover, page, view, bounds
  <2>2. Delivery'
    BY <1>1, QuietKeeps DEF vars, broker, conn, recover, view
  <2> QED BY <2>1, <2>2 DEF StreamIInv
<1>2. CASE Next
  BY <1>2, PublishKeeps, SendKeeps, ConnectKeeps, CloseBrokerKeeps, CrashKeeps, ReceiveKeeps,
     ReceiveResetKeeps, RecoveredKeeps, LoopKeeps, RecoveryKeeps, PageKeeps
     DEF Next, Loop, Recovery
<1> QED BY <1>1, <1>2

-----------------------------------------------------------------------------
\* Every reachable state satisfies the invariant.
THEOREM SpecIInv == Spec => []StreamIInv
<1>1. Init => StreamIInv
  BY InitStreamIInv
<1>2. StreamIInv /\ [Next]_vars => StreamIInv'
  BY NextStreamIInv
<1> QED BY <1>1, <1>2, PTL DEF Spec

\* No event is missed in silence: what events.py and sse.ts achieve together.
THEOREM SpecGapIsAnnounced == Spec => []GapIsAnnounced
<1>1. StreamIInv => GapIsAnnounced
  BY DEF StreamIInv, Delivery
<1> QED BY <1>1, SpecIInv, PTL

\* The number the tab gives back to the server is honest, connectEvents()
\* never reads a stream while its view is out of date, and the queue of a
\* subscriber keeps its limit.
THEOREM SpecInv == Spec => []EventsInv
<1>1. StreamIInv => EventsInv
  BY DEF StreamIInv, Control, Delivery, RecoversFirst, EventsInv
<1> QED BY <1>1, SpecIInv, PTL

\* Within a run of the server a tab is given each event once and in order.
THEOREM SpecEachOnceInOrder == Spec => EachOnceInOrder
<1>1. StreamIInv /\ [Next]_vars => [Receive /\ sameRun => Head(wire).id > cursor]_vars
  BY ReceiveKeeps
<1> QED BY <1>1, SpecIInv, PTL DEF Spec, EachOnceInOrder

-----------------------------------------------------------------------------
(***************************************************************************)
(* That the artifact registry's counts, quota, lists and files agree and that *)
(* uploads are answered honestly (ArtifactInv, UploadsAreHonest), for any      *)
(* number of uploads, registrations, readers and exits of the server, provided *)
(* that what an earlier run has left respects the quota.                      *)
(*                                                                         *)
(* The inductive invariant has these parts.  Course says which thread every    *)
(* upload has at every phase of its request, and who ends a publication         *)
(* (Phases, Receipts).  Shelf relates memory, the manifest and the files:       *)
(* whoever comes is in no list yet (NewComers), lists repeat nothing and the    *)
(* victims of a publication are in none (Lists), what they name is on disk       *)
(* (Files) and what a roll-back may need is protected (Guards); memory and the   *)
(* manifest name the same owned items unless the registry is read-only          *)
(* (Agreement, Degraded), and History ties them to what was answered.  Plan is   *)
(* what holds between the move of a published file and the manifest, Pins and     *)
(* Readers that nobody loses what is read, Down what an exit leaves.             *)
(***************************************************************************)

\* A thread whose operation has still to run.
ToRun(op, x) == <<op, x>> \in threads
Distinct(seq) == \A i, j \in DOMAIN seq : seq[i] = seq[j] => i = j

\* Which threads an upload has, by the phase of its request.
PhaseOf(u) ==
  /\ request[u] \in {"new", "closing", "done"} => \A op \in Ops : ~ToRun(op, u)
  /\ request[u] \in {"write", "publish", "ack", "rollback", "abandon"} => ToRun(request[u], u)
  /\ request[u] = "ack" => \A op \in Ops \ {"ack"} : ~ToRun(op, u)
  /\ ToRun("write", u) => request[u] \in {"write", "over"}
  /\ ToRun("publish", u) => request[u] \in {"publish", "over"}
  /\ \A op \in {"write", "publish"} : ToRun(op, u) => \A other \in Ops \ {op} : ~ToRun(other, u)
  /\ ToRun("rollback", u) => request[u] \in {"rollback", "abandon", "over"}
  /\ ToRun("settle", u) => request[u] = "over"
  /\ u \in cancelled => request[u] \in {"write", "publish"}
Phases == \A u \in Uploads : PhaseOf(u)

\* Who ends a publication.
ReceiptOf(u) ==
  /\ request[u] \in {"closing", "ack"} => u \in receipts
  /\ request[u] = "done" => u \notin receipts
  /\ u \in receipts =>
       \/ request[u] \in {"closing", "ack"}
       \/ \E op \in {"rollback", "abandon", "settle"} : ToRun(op, u)
  /\ u \in receipts /\ ToRun("rollback", u) /\ request[u] = "over" => ToRun("abandon", u)
Receipts == \A u \in Uploads : ReceiptOf(u)

Movement == moving # NoItem => moving \in Uploads /\ ToRun("publish", moving)
Closing == ToRun("close", NoItem) => registryClosed

Unpublished(u) == request[u] = "new" \/ ToRun("write", u) \/ ToRun("publish", u)
Unregistered(p) == registering[p] = "no" \/ ToRun("register", p)
Foreign(i) ==
  /\ ~Has(entries, i) /\ ~Has(manifest.items, i)
  /\ \A u \in receipts : ~Has(victims[u], i)

NewComers ==
  /\ \A u \in Uploads : Unpublished(u) =>
       /\ Foreign(u) /\ u \notin pending \cup manifest.pending \cup receipts
       /\ moving # u => file[u] # "bin"
  /\ \A p \in Paths : Unregistered(p) => Foreign(p)

Lists ==
  /\ Distinct(entries) /\ Len(entries) <= MaxEntries
  /\ Distinct(manifest.items) /\ Len(manifest.items) <= MaxEntries
  /\ \A u \in receipts :
       /\ Has(entries, u) /\ Len(victims[u]) <= 1
       /\ \A i \in ToSet(victims[u]) : ~Has(entries, i)
       /\ \A x \in receipts \ {u} : ToSet(victims[u]) \cap ToSet(victims[x]) = {}

Reading(l) == reader[l] \in {"held", "detached"}
Plan ==
  moving # NoItem =>
    LET ousted == victims[moving]
    IN  /\ Len(ousted) <= 1 /\ Len(entries) - Len(ousted) < MaxEntries
        /\ ToSet(ousted) \subseteq ToSet(entries) \ receipts
        /\ \A l \in Leases : Reading(l) => wanted[l] \notin ToSet(ousted)
        /\ file[moving] = "bin"

Files ==
  /\ Physical(file) <= MaxBytes
  /\ \A i \in Owned :
       /\ Has(manifest.items, i) => file[i] = "bin" /\ i \notin manifest.pending
       /\ Has(entries, i) => file[i] = "bin" /\ i \notin pending
       /\ \A u \in receipts : Has(victims[u], i) => file[i] = "bin"

Protectors(i) == {u \in receipts : Has(victims[u], i)}
Holders(i) == {l \in Leases : leases[l] = i}
Guards == \A i \in Owned : guards[i] = Cardinality(Protectors(i))
Pins ==
  ~registryClosed =>
     \A i \in Items : pins[i] = Cardinality(Holders(i)) + (IF i \in receipts THEN 1 ELSE 0)

Readers ==
  /\ IsFiniteSet({l \in Leases : leases[l] # NoItem})
  /\ \A l \in Leases :
       /\ ToRun("lease", l) => reader[l] \in {"asked", "dropped"}
       /\ ToRun("lease", l) \/ Reading(l) => wanted[l] \in Known
       /\ ~Reading(l) => leases[l] = NoItem
       /\ Reading(l) /\ ~registryClosed => leases[l] = wanted[l]
       /\ Reading(l) /\ wanted[l] \in Owned => Has(entries, wanted[l])

Agreement ==
  server # "down" /\ ~degraded => \A i \in Owned : Has(manifest.items, i) <=> Has(entries, i)
Degraded == degraded => entries = <<>> /\ receipts = {} /\ moving = NoItem
Down ==
  server = "down" =>
    /\ entries = <<>> /\ pending = {} /\ receipts = {} /\ threads = {} /\ moving = NoItem
    /\ \A l \in Leases : leases[l] = NoItem
    /\ ~degraded

History ==
  /\ \A i \in ToSet(traffic.stored) : Has(manifest.items, i) \/ i \in evicted
  /\ \A u \in Uploads :
       /\ request[u] = "done" => Has(manifest.items, u) \/ u \in evicted
       /\ Has(manifest.items, u) \/ Has(entries, u) => u \in receipts \cup kept
  /\ \A u \in receipts : ToSet(victims[u]) \cap Uploads \subseteq kept

Course == Phases /\ Receipts /\ Movement /\ Closing
Shelf == NewComers /\ Lists /\ Files /\ Guards /\ Agreement /\ Degraded /\ History
ArtifactIInv == ArtifactTypeOK /\ Course /\ Shelf /\ Plan /\ Pins /\ Readers /\ Down

-----------------------------------------------------------------------------
(* Lists, and what is taken out of them. *)

\* What is taken out of a list without repetition, and what an addition does.
LEMMA WithoutFacts ==
  ASSUME NEW T, NEW s \in Seq(T), NEW keep
  PROVE  /\ Only(s, keep) \in Seq(T) /\ ToSet(Only(s, keep)) = ToSet(s) \cap keep
         /\ Distinct(s) => Distinct(Only(s, keep))
         /\ Len(Only(s, keep)) <= Len(s)
         /\ ~(ToSet(s) \subseteq keep) => Len(Only(s, keep)) < Len(s)
<1> DEFINE u == Only(s, keep)   P == Positions(s, keep)
<1>1. u \in Seq(T) /\ Len(u) = Cardinality(P) /\ Len(s) \in Nat /\ Len(u) \in Nat
  BY OnlyFacts
<1>2. PICK at \in [1..Len(u) -> P] :
        /\ \A k, l \in 1..Len(u) : k < l => at[k] < at[l]
        /\ \A i \in P : \E k \in 1..Len(u) : at[k] = i
        /\ \A k \in 1..Len(u) : u[k] = s[at[k]]
  BY OnlyFacts
<1>3. /\ P \subseteq 1..Len(s) /\ \A i \in P : s[i] \in keep
      /\ \A i \in 1..Len(s) : s[i] \in keep => i \in P
  BY DEF Positions
<1>4. IsFiniteSet(1..Len(s)) /\ Cardinality(1..Len(s)) = Len(s)
  <2>1. 1 \in Int /\ Len(s) \in Int
    BY <1>1
  <2>2. /\ IsFiniteSet(1..Len(s))
        /\ Cardinality(1..Len(s)) = IF 1 > Len(s) THEN 0 ELSE Len(s) - 1 + 1
    BY <2>1, FS_Interval
  <2> QED BY <1>1, <2>2
<1> HIDE DEF P, u
<1>5. Cardinality(P) <= Len(s) /\ (Cardinality(P) = Len(s) => P = 1..Len(s))
  <2> DEFINE N == 1..Len(s)
  <2>1. P \in SUBSET N /\ IsFiniteSet(N) /\ Cardinality(N) = Len(s)
    BY <1>3, <1>4
  <2> HIDE DEF N
  <2>2. Cardinality(P) <= Cardinality(N) /\ (Cardinality(N) = Cardinality(P) => N = P)
    BY <2>1, FS_Subset
  <2>3. Cardinality(P) <= Len(s) /\ (Cardinality(P) = Len(s) => P = N)
    BY <2>1, <2>2
  <2> QED BY <2>3 DEF N
<1>6. ToSet(u) = ToSet(s) \cap keep
  <2>0. ToSet(s) = {s[i] : i \in 1..Len(s)} /\ ToSet(u) = {u[i] : i \in 1..Len(u)}
    BY <1>1 DEF ToSet
  <2>1. ASSUME NEW x \in ToSet(u) PROVE x \in ToSet(s) \cap keep
    <3>1. PICK k \in 1..Len(u) : x = u[k]
      BY <2>0
    <3>2. at[k] \in P /\ u[k] = s[at[k]]
      BY <1>2
    <3>3. at[k] \in 1..Len(s) /\ s[at[k]] \in keep
      BY <3>2, <1>3
    <3> QED BY <3>1, <3>2, <3>3, <2>0
  <2>2. ASSUME NEW x \in ToSet(s) \cap keep PROVE x \in ToSet(u)
    <3>1. PICK i \in 1..Len(s) : x = s[i]
      BY DEF ToSet
    <3>2. i \in P
      BY <3>1, <1>3
    <3>3. PICK k \in 1..Len(u) : at[k] = i
      BY <1>2, <3>2
    <3> QED BY <3>1, <3>3, <1>1, <1>2 DEF ToSet
  <2> QED BY <2>1, <2>2
<1>7. ASSUME Distinct(s), NEW k \in DOMAIN u, NEW l \in DOMAIN u, u[k] = u[l] PROVE k = l
  <2>1. k \in 1..Len(u) /\ l \in 1..Len(u)
    BY <1>1
  <2>2. at[k] \in 1..Len(s) /\ at[l] \in 1..Len(s) /\ s[at[k]] = s[at[l]]
    BY <1>2, <1>3, <1>7, <2>1
  <2>3. at[k] = at[l] /\ at[k] \in Nat
    BY <2>2, <1>7 DEF Distinct
  <2>4. ~(k < l) /\ ~(l < k)
    BY <1>2, <2>1, <2>2, <2>3
  <2> QED BY <2>1, <2>4
<1>8. ASSUME ~(ToSet(s) \subseteq keep) PROVE Len(u) < Len(s)
  <2>1. PICK i \in 1..Len(s) : s[i] \notin keep
    BY <1>8 DEF ToSet
  <2>2. P # 1..Len(s)
    BY <2>1, <1>3
  <2> QED BY <2>2, <1>5, <1>1
<1>9. Distinct(s) => Distinct(u)
  BY <1>7 DEF Distinct
<1> QED BY <1>1, <1>5, <1>6, <1>8, <1>9 DEF u

\* The same for the entries that are given up.
LEMMA DropFacts ==
  ASSUME NEW T, NEW s \in Seq(T), NEW gone
  PROVE  /\ Without(s, gone) \in Seq(T) /\ Len(Without(s, gone)) \in Nat /\ Len(s) \in Nat
         /\ ToSet(Without(s, gone)) = ToSet(s) \ gone
         /\ Distinct(s) => Distinct(Without(s, gone))
         /\ Len(Without(s, gone)) <= Len(s)
         /\ ToSet(s) \cap gone # {} => Len(Without(s, gone)) < Len(s)
<1> DEFINE keep == ToSet(s) \ gone
<1>1. Without(s, gone) = Only(s, keep)
  BY DEF Without
<1>2. ToSet(s) \cap keep = ToSet(s) \ gone
  OBVIOUS
<1>3. ToSet(s) \cap gone # {} => ~(ToSet(s) \subseteq keep)
  OBVIOUS
<1> HIDE DEF keep
<1>4. /\ Only(s, keep) \in Seq(T) /\ ToSet(Only(s, keep)) = ToSet(s) \cap keep
      /\ Distinct(s) => Distinct(Only(s, keep))
      /\ Len(Only(s, keep)) <= Len(s)
      /\ ~(ToSet(s) \subseteq keep) => Len(Only(s, keep)) < Len(s)
  BY WithoutFacts
<1>5. Len(Without(s, gone)) \in Nat /\ Len(s) \in Nat
  BY <1>1, <1>4
<1>6. ToSet(Without(s, gone)) = ToSet(s) \ gone
  BY <1>1, <1>2, <1>4
<1> QED BY <1>1, <1>3, <1>4, <1>5, <1>6

\* A list after which another one comes.
LEMMA LongerFacts ==
  ASSUME NEW T, NEW s \in Seq(T), NEW t \in Seq(T)
  PROVE  /\ s \o t \in Seq(T) /\ Len(s \o t) = Len(s) + Len(t)
         /\ ToSet(s \o t) = ToSet(s) \cup ToSet(t)
         /\ Distinct(s) /\ Distinct(t) /\ ToSet(s) \cap ToSet(t) = {} => Distinct(s \o t)
<1> DEFINE u == s \o t
<1>1. /\ u \in Seq(T) /\ Len(u) = Len(s) + Len(t) /\ Len(s) \in Nat /\ Len(t) \in Nat
      /\ \A i \in 1..Len(s) : u[i] = s[i]
      /\ \A i \in 1..Len(t) : u[Len(s) + i] = t[i]
  OBVIOUS
<1>2. \A i \in DOMAIN u : (i \in 1..Len(s)) \/ (\E j \in 1..Len(t) : i = Len(s) + j)
  <2>1. ASSUME NEW i \in 1..Len(u), ~(i \in 1..Len(s)) PROVE i - Len(s) \in 1..Len(t)
    BY <1>1, <2>1
  <2>2. \A i \in 1..Len(u) : i = Len(s) + (i - Len(s))
    BY <1>1
  <2>3. DOMAIN u = 1..Len(u)
    BY <1>1
  <2> HIDE DEF u
  <2> QED BY <2>1, <2>2, <2>3
<1> HIDE DEF u
<1>3. ToSet(u) = ToSet(s) \cup ToSet(t)
  <2>0. ToSet(s) = {s[i] : i \in 1..Len(s)} /\ ToSet(t) = {t[i] : i \in 1..Len(t)}
    BY DEF ToSet
  <2>1. ASSUME NEW x \in ToSet(u) PROVE x \in ToSet(s) \cup ToSet(t)
    <3>1. PICK i \in DOMAIN u : x = u[i]
      BY DEF ToSet
    <3>2. CASE i \in 1..Len(s)
      BY <3>1, <3>2, <1>1, <2>0
    <3>3. CASE \E j \in 1..Len(t) : i = Len(s) + j
      BY <3>1, <3>3, <1>1, <2>0
    <3> QED BY <3>2, <3>3, <1>2
  <2>2. ASSUME NEW x \in ToSet(s) PROVE x \in ToSet(u)
    <3>1. PICK i \in 1..Len(s) : x = s[i]
      BY DEF ToSet
    <3>2. i \in DOMAIN u /\ u[i] = x
      BY <1>1, <3>1
    <3> QED BY <3>2 DEF ToSet
  <2>3. ASSUME NEW x \in ToSet(t) PROVE x \in ToSet(u)
    <3>1. PICK i \in 1..Len(t) : x = t[i]
      BY DEF ToSet
    <3>2. Len(s) + i \in DOMAIN u /\ u[Len(s) + i] = x
      BY <1>1, <3>1
    <3> QED BY <3>2 DEF ToSet
  <2> QED BY <2>1, <2>2, <2>3
<1>4. ASSUME Distinct(s), Distinct(t), ToSet(s) \cap ToSet(t) = {},
             NEW i \in DOMAIN u, NEW j \in DOMAIN u, u[i] = u[j]
      PROVE  i = j
  <2>1. CASE i \in 1..Len(s) /\ j \in 1..Len(s)
    BY <2>1, <1>1, <1>4 DEF Distinct
  <2>2. CASE i \in 1..Len(s) /\ j \notin 1..Len(s)
    <3>1. PICK l \in 1..Len(t) : j = Len(s) + l
      BY <2>2, <1>2
    <3>2. u[i] = s[i] /\ u[j] = t[l]
      BY <2>2, <3>1, <1>1
    <3>3. s[i] \in ToSet(s) /\ t[l] \in ToSet(t)
      BY <2>2, <3>1 DEF ToSet
    <3> QED BY <3>2, <3>3, <1>4
  <2>3. CASE i \notin 1..Len(s) /\ j \in 1..Len(s)
    <3>1. PICK l \in 1..Len(t) : i = Len(s) + l
      BY <2>3, <1>2
    <3>2. u[j] = s[j] /\ u[i] = t[l]
      BY <2>3, <3>1, <1>1
    <3>3. s[j] \in ToSet(s) /\ t[l] \in ToSet(t)
      BY <2>3, <3>1 DEF ToSet
    <3> QED BY <3>2, <3>3, <1>4
  <2>4. CASE i \notin 1..Len(s) /\ j \notin 1..Len(s)
    <3>1. PICK k \in 1..Len(t) : i = Len(s) + k
      BY <2>4, <1>2
    <3>2. PICK l \in 1..Len(t) : j = Len(s) + l
      BY <2>4, <1>2
    <3>3. t[k] = t[l]
      BY <3>1, <3>2, <1>1, <1>4
    <3>4. k = l
      BY <3>3, <1>4 DEF Distinct
    <3> QED BY <3>1, <3>2, <3>4
  <2> QED BY <2>1, <2>2, <2>3, <2>4
<1>5. Distinct(s) /\ Distinct(t) /\ ToSet(s) \cap ToSet(t) = {} => Distinct(u)
  BY <1>4 DEF Distinct
<1> QED BY <1>1, <1>3, <1>5 DEF u

\* A list with an element more.
LEMMA AddedFacts ==
  ASSUME NEW T, NEW s \in Seq(T), NEW e \in T
  PROVE  /\ Append(s, e) \in Seq(T) /\ Len(Append(s, e)) = Len(s) + 1
         /\ ToSet(Append(s, e)) = ToSet(s) \cup {e}
         /\ Distinct(s) /\ e \notin ToSet(s) => Distinct(Append(s, e))
<1>1. Append(s, e) = s \o <<e>> /\ <<e>> \in Seq(T) /\ Len(<<e>>) = 1
  OBVIOUS
<1>2. ToSet(<<e>>) = {e}
  BY DEF ToSet
<1>3. Distinct(<<e>>)
  BY DEF Distinct
<1>4. /\ s \o <<e>> \in Seq(T) /\ Len(s \o <<e>>) = Len(s) + Len(<<e>>)
      /\ ToSet(s \o <<e>>) = ToSet(s) \cup ToSet(<<e>>)
      /\ (Distinct(s) /\ Distinct(<<e>>) /\ ToSet(s) \cap ToSet(<<e>>) = {}) => Distinct(s \o <<e>>)
  BY <1>1, LongerFacts
<1> QED BY <1>1, <1>2, <1>3, <1>4

\* The first entries of a list.
LEMMA PrefixFacts ==
  ASSUME NEW T, NEW s \in Seq(T), NEW n \in 0..Len(s)
  PROVE  /\ SubSeq(s, 1, n) \in Seq(T) /\ Len(SubSeq(s, 1, n)) = n
         /\ ToSet(SubSeq(s, 1, n)) \subseteq ToSet(s)
         /\ n > 0 => ToSet(SubSeq(s, 1, n)) # {}
         /\ n = 0 => ToSet(SubSeq(s, 1, n)) = {}
<1> DEFINE t == SubSeq(s, 1, n)
<1>1. /\ t \in Seq(T) /\ Len(t) = n /\ n \in Nat /\ n <= Len(s) /\ Len(s) \in Nat
      /\ \A i \in 1..n : t[i] = s[i]
  OBVIOUS
<1> HIDE DEF t
<1>2. ToSet(t) \subseteq ToSet(s)
  <2>1. ASSUME NEW x \in ToSet(t) PROVE x \in ToSet(s)
    <3>1. PICK i \in 1..n : x = t[i]
      BY <1>1 DEF ToSet
    <3>2. i \in 1..Len(s) /\ x = s[i]
      BY <1>1, <3>1
    <3> QED BY <3>2 DEF ToSet
  <2> QED BY <2>1
<1>3. n > 0 => t[1] \in ToSet(t)
  BY <1>1 DEF ToSet
<1>4. n = 0 => ToSet(t) = {}
  BY <1>1 DEF ToSet
<1> QED BY <1>1, <1>2, <1>3, <1>4 DEF t

\* The least number of victims that is enough.
LEMMA LeastFacts ==
  ASSUME NEW ns \in SUBSET Nat
  PROVE  /\ ns = {} => Least(ns) = -1
         /\ ns # {} => Least(ns) \in ns /\ \A m \in ns : Least(ns) <= m
<1>1. ns # {} => \E n \in ns : \A m \in ns : n <= m
  BY LeastNumber
<1> QED BY <1>1 DEF Least

-----------------------------------------------------------------------------
(* Files, and what protects them. *)

Contents == {"none", "empty", "temp", "bin"}
OnDisk(f, i) == f[i] \in {"temp", "bin"}

\* What is assumed of the constants.
LEMMA Parameters ==
  /\ IsFiniteSet(Owned) /\ IsFiniteSet(Uploads) /\ NoItem \notin Items
  /\ Stored \cap Uploads = {} /\ Paths \cap Owned = {} /\ Leases \cap Items = {}
  /\ MaxBytes \in Nat /\ MaxEntries \in Nat
<1>1. Owned \in SUBSET Items /\ Uploads \in SUBSET Items
  BY DEF Items, Owned
<1>2. IsFiniteSet(Items)
  BY ArtifactAssumption DEF ArtifactAssumption
<1>3. IsFiniteSet(Owned) /\ IsFiniteSet(Uploads)
  BY <1>1, <1>2, FS_Subset
<1> QED BY <1>3, ArtifactAssumption DEF ArtifactAssumption

\* Fewer files on disk are fewer bytes.
LEMMA PhysicalFacts ==
  ASSUME NEW f, NEW g
  PROVE  /\ Physical(f) \in Nat /\ Physical(g) \in Nat
         /\ (\A i \in Owned : OnDisk(g, i) => OnDisk(f, i)) => Physical(g) <= Physical(f)
         /\ \A u \in Owned :
              (\A i \in Owned \ {u} : OnDisk(g, i) => OnDisk(f, i)) => Physical(g) <= Physical(f) + 1
<1> DEFINE F == {i \in Owned : OnDisk(f, i)}   G == {i \in Owned : OnDisk(g, i)}
<1>1. Physical(f) = Cardinality(F) /\ Physical(g) = Cardinality(G)
  BY DEF Physical, OnDisk
<1>2. F \in SUBSET Owned /\ G \in SUBSET Owned
  OBVIOUS
<1>3. (\A i \in Owned : OnDisk(g, i) => OnDisk(f, i)) => G \in SUBSET F
  OBVIOUS
<1>4. \A u \in Owned : (\A i \in Owned \ {u} : OnDisk(g, i) => OnDisk(f, i)) => G \in SUBSET (F \cup {u})
  OBVIOUS
<1> HIDE DEF F, G
<1>5. IsFiniteSet(F) /\ IsFiniteSet(G)
  BY <1>2, Parameters, FS_Subset
<1>6. Cardinality(F) \in Nat /\ Cardinality(G) \in Nat
  BY <1>5, FS_CardinalityType
<1>7. G \in SUBSET F => Cardinality(G) <= Cardinality(F)
  BY <1>5, FS_Subset
<1>8. ASSUME NEW u, G \in SUBSET (F \cup {u}) PROVE Cardinality(G) <= Cardinality(F) + 1
  <2>1. IsFiniteSet(F \cup {u}) /\ (\/ Cardinality(F \cup {u}) = Cardinality(F)
                                  \/ Cardinality(F \cup {u}) = Cardinality(F) + 1)
    BY <1>5, FS_AddElement
  <2>2. Cardinality(G) <= Cardinality(F \cup {u})
    BY <1>8, <2>1, FS_Subset
  <2> QED BY <2>1, <2>2, <1>6
<1> QED BY <1>1, <1>3, <1>4, <1>6, <1>7, <1>8

\* Unlinking makes room.
LEMMA EraseFacts ==
  ASSUME NEW f \in [Owned -> Contents], NEW gone
  PROVE  /\ Erase(f, gone) \in [Owned -> Contents]
         /\ \A i \in Owned : /\ i \in gone => Erase(f, gone)[i] = "none"
                             /\ i \notin gone => Erase(f, gone)[i] = f[i]
         /\ Physical(Erase(f, gone)) <= Physical(f)
<1>1. /\ Erase(f, gone) \in [Owned -> Contents]
      /\ \A i \in Owned : /\ i \in gone => Erase(f, gone)[i] = "none"
                          /\ i \notin gone => Erase(f, gone)[i] = f[i]
  BY DEF Erase, Contents
<1>2. \A i \in Owned : OnDisk(Erase(f, gone), i) => OnDisk(f, i)
  BY <1>1 DEF OnDisk
<1>3. Physical(Erase(f, gone)) <= Physical(f)
  BY <1>2, PhysicalFacts
<1> QED BY <1>1, <1>3

\* Nothing that somebody protects is reaped.
LEMMA SomebodyProtects ==
  ASSUME NEW R \in SUBSET Uploads, NEW V, NEW i, NEW u \in R, Has(V[u], i)
  PROVE  Cardinality({x \in R : Has(V[x], i)}) \in Nat \ {0}
<1> DEFINE P == {x \in R : Has(V[x], i)}
<1>1. P \in SUBSET Uploads /\ u \in P
  OBVIOUS
<1> HIDE DEF P
<1>2. IsFiniteSet(P)
  BY <1>1, Parameters, FS_Subset
<1>3. Cardinality(P) \in Nat /\ Cardinality(P) # 0
  BY <1>1, <1>2, FS_CardinalityType, FS_EmptySet
<1> QED BY <1>3 DEF P

\* What is reaped was pending, and nobody protects it.
LEMMA ReapedFacts ==
  ASSUME NEW R \in SUBSET Uploads, NEW V, NEW G, NEW ps, NEW unlinks,
         \A i \in Owned : G[i] = Cardinality({x \in R : Has(V[x], i)})
  PROVE  /\ Reaped(ps, G, unlinks) \subseteq ps
         /\ \A u \in R : \A i \in Reaped(ps, G, unlinks) \cap Owned : ~Has(V[u], i)
<1>1. \A i \in Reaped(ps, G, unlinks) : i \in ps /\ G[i] <= 0
  BY DEF Reaped
<1>2. ASSUME NEW u \in R, NEW i \in Owned, Has(V[u], i)
      PROVE  ~(G[i] <= 0)
  <2>1. Cardinality({x \in R : Has(V[x], i)}) \in Nat \ {0}
    BY <1>2, SomebodyProtects
  <2>2. G[i] = Cardinality({x \in R : Has(V[x], i)})
    OBVIOUS
  <2> QED BY <2>1, <2>2
<1> QED BY <1>1, <1>2

\* The leases of an item are finitely many.
LEMMA HoldersFacts ==
  ASSUME ArtifactTypeOK, Readers, NEW i \in Items
  PROVE  /\ IsFiniteSet(Holders(i)) /\ Cardinality(Holders(i)) \in Nat
         /\ \A l \in Leases : leases[l] = i => Cardinality(Holders(i)) # 0
<1>1. i # NoItem
  BY Parameters
<1>2. Holders(i) \in SUBSET {l \in Leases : leases[l] # NoItem}
  BY <1>1 DEF Holders
<1>3. IsFiniteSet({l \in Leases : leases[l] # NoItem})
  BY DEF Readers
<1>4. IsFiniteSet(Holders(i))
  BY <1>2, <1>3, FS_Subset
<1>5. \A l \in Leases : leases[l] = i => l \in Holders(i)
  BY DEF Holders
<1> QED BY <1>4, <1>5, FS_CardinalityType, FS_EmptySet

\* What nobody pins is leased by nobody and no publication that may be withdrawn.
LEMMA UnpinnedFacts ==
  ASSUME ArtifactTypeOK, Readers, Pins, Lists
  PROVE  /\ Unpinned \in Seq(Items) /\ Distinct(Unpinned) /\ Len(Unpinned) <= Len(entries)
         /\ ToSet(Unpinned) \subseteq ToSet(entries)
         /\ ~registryClosed =>
              /\ ToSet(Unpinned) \cap receipts = {}
              /\ \A l \in Leases : Reading(l) => wanted[l] \notin ToSet(Unpinned)
<1> DEFINE free == {i \in Items : pins[i] <= 0}
<1>1. entries \in Seq(Items) /\ Distinct(entries)
  BY DEF ArtifactTypeOK, Lists
<1>2. /\ Unpinned \in Seq(Items) /\ Distinct(Unpinned) /\ Len(Unpinned) <= Len(entries)
      /\ ToSet(Unpinned) = ToSet(entries) \cap free
  <2> HIDE DEF free
  <2>1. /\ Only(entries, free) \in Seq(Items)
        /\ ToSet(Only(entries, free)) = ToSet(entries) \cap free
        /\ Distinct(Only(entries, free)) /\ Len(Only(entries, free)) <= Len(entries)
    BY <1>1, WithoutFacts
  <2> QED BY <2>1 DEF Unpinned, free
<1>3. ASSUME ~registryClosed, NEW i \in receipts, i \in ToSet(Unpinned) PROVE FALSE
  <2>1. i \in Items /\ pins[i] <= 0
    BY <1>2, <1>3
  <2>2. Cardinality(Holders(i)) \in Nat
    BY <2>1, HoldersFacts
  <2>3. pins[i] = Cardinality(Holders(i)) + 1
    BY <1>3, <2>1 DEF Pins
  <2> QED BY <2>1, <2>2, <2>3
<1>4. ASSUME ~registryClosed, NEW l \in Leases, Reading(l), wanted[l] \in ToSet(Unpinned) PROVE FALSE
  <2> DEFINE i == wanted[l]
  <2>1. i \in Items /\ pins[i] <= 0 /\ leases[l] = i
    BY <1>2, <1>4 DEF Readers
  <2> HIDE DEF i
  <2>2. Cardinality(Holders(i)) \in Nat \ {0}
    BY <2>1, HoldersFacts
  <2>3. pins[i] = Cardinality(Holders(i)) \/ pins[i] = Cardinality(Holders(i)) + 1
    BY <1>4, <2>1, <2>2 DEF Pins
  <2> QED BY <2>1, <2>2, <2>3
<1> QED BY <1>2, <1>3, <1>4

\* _release_publication_guards_locked() takes back what the receipt has counted.
LEMMA ReleaseKeepsCounts ==
  ASSUME ArtifactTypeOK, Readers, Guards, Pins, NEW u \in receipts, ReleaseGuards(u),
         UNCHANGED <<leases, registryClosed>>
  PROVE  /\ Guards' /\ Pins'
         /\ receipts' = receipts \ {u} /\ guards' \in [Owned -> Int] /\ pins' \in [Items -> Int]
         /\ victims' \in [Uploads -> Seq(Items)]
         /\ \A x \in receipts' : victims'[x] = victims[x]
<1>1. /\ u \in Uploads /\ receipts \in SUBSET Uploads /\ victims \in [Uploads -> Seq(Items)]
      /\ guards \in [Owned -> Int] /\ pins \in [Items -> Int] /\ u \in Items
  BY DEF ArtifactTypeOK, Items, Owned
<1>2. /\ receipts' = receipts \ {u} /\ victims' = [victims EXCEPT ![u] = <<>>]
      /\ pins' = [pins EXCEPT ![u] = IF @ > 1 THEN @ - 1 ELSE 0]
      /\ guards' = [i \in Owned |-> IF Has(victims[u], i) /\ guards[i] > 0 THEN guards[i] - 1
                                    ELSE guards[i]]
  BY DEF ReleaseGuards
<1>3. /\ victims' \in [Uploads -> Seq(Items)] /\ \A x \in receipts' : victims'[x] = victims[x]
  BY <1>1, <1>2
<1>4. guards' \in [Owned -> Int] /\ pins' \in [Items -> Int]
  BY <1>1, <1>2
<1>5. ASSUME NEW i \in Owned PROVE guards'[i] = Cardinality(Protectors(i)')
  <2>1. Protectors(i)' = Protectors(i) \ {u}
    BY <1>2, <1>3 DEF Protectors
  <2>2. IsFiniteSet(Protectors(i))
    <3>1. Protectors(i) \in SUBSET Uploads
      BY <1>1 DEF Protectors
    <3> QED BY <3>1, Parameters, FS_Subset
  <2>3. guards[i] = Cardinality(Protectors(i))
    BY DEF Guards
  <2>4. CASE Has(victims[u], i)
    <3>1. u \in Protectors(i)
      BY <2>4 DEF Protectors
    <3>2. Cardinality(Protectors(i) \ {u}) = Cardinality(Protectors(i)) - 1
      BY <2>2, <3>1, FS_RemoveElement
    <3>3. Cardinality(Protectors(i)) \in Nat /\ Cardinality(Protectors(i)) # 0
      BY <2>2, <3>1, FS_CardinalityType, FS_EmptySet
    <3>4. guards'[i] = guards[i] - 1
      BY <1>2, <2>3, <2>4, <3>3
    <3> QED BY <2>1, <2>3, <3>2, <3>4
  <2>5. CASE ~Has(victims[u], i)
    <3>1. u \notin Protectors(i)
      BY <2>5 DEF Protectors
    <3>2. Protectors(i) \ {u} = Protectors(i)
      BY <3>1
    <3> QED BY <1>2, <2>1, <2>3, <2>5, <3>2
  <2> QED BY <2>4, <2>5
<1>6. ASSUME ~registryClosed', NEW i \in Items
      PROVE  pins'[i] = Cardinality(Holders(i)') + (IF i \in receipts' THEN 1 ELSE 0)
  <2>1. Holders(i)' = Holders(i) /\ Cardinality(Holders(i)) \in Nat
    BY HoldersFacts DEF Holders
  <2>2. pins[i] = Cardinality(Holders(i)) + (IF i \in receipts THEN 1 ELSE 0)
    BY <1>6 DEF Pins
  <2>3. CASE i = u
    <3>1. pins[i] = Cardinality(Holders(i)) + 1 /\ i \notin receipts'
      BY <1>2, <2>2, <2>3
    <3>2. pins'[i] = IF pins[i] > 1 THEN pins[i] - 1 ELSE 0
      BY <1>1, <1>2, <2>3
    <3> QED BY <2>1, <3>1, <3>2
  <2>4. CASE i # u
    <3>1. pins'[i] = pins[i] /\ (i \in receipts' <=> i \in receipts)
      BY <1>1, <1>2, <2>4
    <3> QED BY <2>1, <2>2, <3>1
  <2> QED BY <2>3, <2>4
<1>7. Guards' /\ Pins'
  BY <1>5, <1>6 DEF Guards, Pins
<1> QED BY <1>2, <1>3, <1>4, <1>7

-----------------------------------------------------------------------------
(* Requests and their threads. *)

\* What a step of one upload does to the others.
Elsewhere(u) ==
  \A x \in Uploads \ {u} :
    /\ request'[x] = request[x]
    /\ x \in cancelled' <=> x \in cancelled
    /\ x \in receipts' <=> x \in receipts
    /\ \A op \in Ops : ToRun(op, x)' <=> ToRun(op, x)

NobodyReturns == \A u \in Uploads : Unpublished(u)' => Unpublished(u)

\* A step of one upload is looked at for that upload only.
LEMMA OneUploadMoves ==
  ASSUME Phases, Receipts, NEW u \in Uploads, Elsewhere(u), PhaseOf(u)', ReceiptOf(u)',
         Unpublished(u)' => Unpublished(u)
  PROVE  Phases' /\ Receipts' /\ NobodyReturns
<1>1. ASSUME NEW x \in Uploads \ {u}
      PROVE  PhaseOf(x)' /\ ReceiptOf(x)' /\ (Unpublished(x)' => Unpublished(x))
  <2>1. /\ request'[x] = request[x] /\ (x \in cancelled' <=> x \in cancelled)
        /\ x \in receipts' <=> x \in receipts
        /\ \A op \in Ops : ToRun(op, x)' <=> ToRun(op, x)
    BY DEF Elsewhere
  <2>2. PhaseOf(x) /\ ReceiptOf(x)
    BY DEF Phases, Receipts
  <2>3. PhaseOf(x)'
    BY <2>1, <2>2 DEF PhaseOf, Ops
  <2>4. ReceiptOf(x)'
    BY <2>1, <2>2 DEF ReceiptOf, Ops
  <2> QED BY <2>1, <2>3, <2>4 DEF Unpublished, Ops
<1> QED BY <1>1 DEF Phases, Receipts, NobodyReturns

\* The same for a step of none.
LEMMA NoUploadMoves ==
  ASSUME Phases, Receipts, UNCHANGED <<request, cancelled, receipts>>,
         \A x \in Uploads : \A op \in Ops : ToRun(op, x)' <=> ToRun(op, x)
  PROVE  Phases' /\ Receipts' /\ NobodyReturns
<1>1. ASSUME NEW x \in Uploads
      PROVE  PhaseOf(x)' /\ ReceiptOf(x)' /\ (Unpublished(x)' => Unpublished(x))
  <2>1. PhaseOf(x) /\ ReceiptOf(x)
    BY DEF Phases, Receipts
  <2>2. PhaseOf(x)'
    BY <2>1 DEF PhaseOf, Ops
  <2>3. ReceiptOf(x)'
    BY <2>1 DEF ReceiptOf, Ops
  <2> QED BY <2>2, <2>3 DEF Unpublished, Ops
<1> QED BY <1>1 DEF Phases, Receipts, NobodyReturns

\* What the assignments of such a step come to.
LEMMA OnlyOneMoves ==
  ASSUME ArtifactTypeOK, NEW u \in Uploads, NEW p, request' = [request EXCEPT ![u] = p],
         \A x \in Uploads \ {u} : x \in cancelled' <=> x \in cancelled,
         \A x \in Uploads \ {u} : x \in receipts' <=> x \in receipts,
         \A x \in Uploads \ {u} : \A op : ToRun(op, x)' <=> ToRun(op, x)
  PROVE  Elsewhere(u)
<1>1. \A x \in Uploads \ {u} : request'[x] = request[x]
  BY DEF ArtifactTypeOK
<1> QED BY <1>1 DEF Elsewhere

\* The steps of uploads and of their threads: who waits for whom afterwards.
LEMMA BeginUploadMoves ==
  ASSUME ArtifactTypeOK, Phases, Receipts, NEW u \in Uploads, BeginUpload(u)
  PROVE  Phases' /\ Receipts' /\ NobodyReturns
<1>1. /\ request[u] = "new" /\ request' = [request EXCEPT ![u] = "write"]
      /\ threads' = threads \cup {<<"write", u>>} /\ UNCHANGED <<cancelled, receipts>>
  BY DEF BeginUpload, registry
<1>2. request \in [Uploads -> {"new", "write", "publish", "closing", "ack", "rollback",
                               "abandon", "done", "over"}]
  BY DEF ArtifactTypeOK
<1>3. \A o, x : ToRun(o, x)' <=> ToRun(o, x) \/ (o = "write" /\ x = u)
  BY <1>1 DEF ToRun
<1>4. PhaseOf(u) /\ ReceiptOf(u)
  BY DEF Phases, Receipts
<1>5. Elsewhere(u)
  <2>1. \A x \in Uploads \ {u} : \A op : ToRun(op, x)' <=> ToRun(op, x)
    BY <1>1, <1>2, <1>3
  <2>2. /\ \A x \in Uploads \ {u} : x \in cancelled' <=> x \in cancelled
        /\ \A x \in Uploads \ {u} : x \in receipts' <=> x \in receipts
    BY <1>1, <1>2, <1>3
  <2> QED BY <2>1, <2>2, <1>1, <1>2, <1>3, OnlyOneMoves
<1>6. PhaseOf(u)'
  BY <1>1, <1>2, <1>3, <1>4 DEF PhaseOf, Ops
<1>7. ReceiptOf(u)' /\ Unpublished(u)
  BY <1>1, <1>2, <1>3, <1>4 DEF ReceiptOf, PhaseOf, Ops, Unpublished
<1> QED BY <1>4, <1>5, <1>6, <1>7, OneUploadMoves

LEMMA WrittenMoves ==
  ASSUME ArtifactTypeOK, Phases, Receipts, NEW u \in Uploads, NEW f, NEW wrote,
         ToRun("write", u), u \notin receipts, Written(u, f, wrote), UNCHANGED receipts
  PROVE  Phases' /\ Receipts' /\ NobodyReturns /\ ~ToRun("write", u)'
<1> DEFINE goes == wrote /\ request[u] = "write" /\ u \notin cancelled
<1>1. /\ request' = [request EXCEPT ![u] = IF goes THEN "publish" ELSE "over"]
      /\ threads' = Ended("write", u) \cup (IF goes THEN {<<"publish", u>>} ELSE {})
      /\ cancelled' = cancelled \ {u}
  BY DEF Written
<1>2. request \in [Uploads -> {"new", "write", "publish", "closing", "ack", "rollback",
                               "abandon", "done", "over"}]
  BY DEF ArtifactTypeOK
<1> HIDE DEF goes
<1>3. \A o, x : ToRun(o, x)' <=> \/ ToRun(o, x) /\ ~(o = "write" /\ x = u)
                                 \/ goes /\ o = "publish" /\ x = u
  BY <1>1 DEF ToRun, Ended
<1>4. PhaseOf(u) /\ ReceiptOf(u)
  BY DEF Phases, Receipts
<1>5. Elsewhere(u)
  <2>1. \A x \in Uploads \ {u} : \A op : ToRun(op, x)' <=> ToRun(op, x)
    BY <1>1, <1>2, <1>3
  <2>2. /\ \A x \in Uploads \ {u} : x \in cancelled' <=> x \in cancelled
        /\ \A x \in Uploads \ {u} : x \in receipts' <=> x \in receipts
    BY <1>1, <1>2, <1>3
  <2> QED BY <2>1, <2>2, <1>1, <1>2, <1>3, OnlyOneMoves
<1>6. request'[u] = IF goes THEN "publish" ELSE "over"
  BY <1>1, <1>2
<1>7. \A op \in Ops \ {"write"} : ~ToRun(op, u)
  BY <1>4 DEF PhaseOf, Ops
<1>8. \A op \in Ops : ToRun(op, u)' <=> goes /\ op = "publish"
  BY <1>3, <1>7 DEF Ops
<1>9. PhaseOf(u)'
  BY <1>1, <1>6, <1>8 DEF PhaseOf, Ops
<1>10. ReceiptOf(u)' /\ Unpublished(u)
  BY <1>6, <1>8 DEF ReceiptOf, Ops, Unpublished
<1> QED BY <1>3, <1>5, <1>9, <1>10, OneUploadMoves

LEMMA NotPublishedMoves ==
  ASSUME ArtifactTypeOK, Phases, Receipts, NEW u \in Uploads,
         ToRun("publish", u), u \notin receipts, NotPublished(u), UNCHANGED receipts
  PROVE  Phases' /\ Receipts' /\ NobodyReturns /\ ~ToRun("publish", u)' /\ ~Unpublished(u)'
<1>1. /\ request' = [request EXCEPT ![u] = "over"]
      /\ threads' = Ended("publish", u) \cup {}
      /\ cancelled' = cancelled \ {u}
  BY DEF NotPublished
<1>2. request \in [Uploads -> {"new", "write", "publish", "closing", "ack", "rollback",
                               "abandon", "done", "over"}]
  BY DEF ArtifactTypeOK
<1>3. \A o, x : ToRun(o, x)' <=> ToRun(o, x) /\ ~(o = "publish" /\ x = u)
  BY <1>1 DEF ToRun, Ended
<1>4. PhaseOf(u) /\ ReceiptOf(u)
  BY DEF Phases, Receipts
<1>5. Elsewhere(u)
  <2>1. \A x \in Uploads \ {u} : \A op : ToRun(op, x)' <=> ToRun(op, x)
    BY <1>1, <1>2, <1>3
  <2>2. /\ \A x \in Uploads \ {u} : x \in cancelled' <=> x \in cancelled
        /\ \A x \in Uploads \ {u} : x \in receipts' <=> x \in receipts
    BY <1>1, <1>2, <1>3
  <2> QED BY <2>1, <2>2, <1>1, <1>2, <1>3, OnlyOneMoves
<1>6. request'[u] = "over" /\ u \notin cancelled' /\ u \notin receipts'
  BY <1>1, <1>2
<1>7. \A op \in Ops : ~ToRun(op, u)'
  BY <1>3, <1>4 DEF PhaseOf, Ops
<1>8. PhaseOf(u)'
  BY <1>6, <1>7 DEF PhaseOf, Ops
<1>9. ReceiptOf(u)' /\ ~Unpublished(u)' /\ Unpublished(u)
  BY <1>6, <1>7 DEF ReceiptOf, Ops, Unpublished
<1> QED BY <1>3, <1>5, <1>8, <1>9, OneUploadMoves

LEMMA PublishSavesMoves ==
  ASSUME ArtifactTypeOK, Phases, Receipts, NEW u \in Uploads,
         ToRun("publish", u), PublishSaves(u)
  PROVE  Phases' /\ Receipts' /\ NobodyReturns /\ ~Unpublished(u)'
<1>1. /\ request' = [request EXCEPT ![u] = IF @ = "over" THEN @
                                           ELSE IF u \in cancelled THEN "rollback" ELSE "closing"]
      /\ threads' = Ended("publish", u) \cup Follows(u)
      /\ cancelled' = cancelled \ {u} /\ receipts' = receipts \cup {u}
  BY DEF PublishSaves
<1>2. request \in [Uploads -> {"new", "write", "publish", "closing", "ack", "rollback",
                               "abandon", "done", "over"}]
  BY DEF ArtifactTypeOK
<1>3. \A o, x : ToRun(o, x)' <=> \/ ToRun(o, x) /\ ~(o = "publish" /\ x = u)
                                 \/ <<o, x>> \in Follows(u)
  BY <1>1 DEF ToRun, Ended
<1>4. \A o, x : <<o, x>> \in Follows(u) <=>
                 /\ x = u
                 /\ \/ request[u] = "over" /\ o = "settle"
                    \/ request[u] # "over" /\ u \in cancelled /\ o = "rollback"
  BY DEF Follows
<1>5. PhaseOf(u)
  BY DEF Phases
<1>6. Elsewhere(u)
  <2>1. \A x \in Uploads \ {u} : \A op : ToRun(op, x)' <=> ToRun(op, x)
    BY <1>1, <1>2, <1>3, <1>4
  <2>2. /\ \A x \in Uploads \ {u} : x \in cancelled' <=> x \in cancelled
        /\ \A x \in Uploads \ {u} : x \in receipts' <=> x \in receipts
    BY <1>1, <1>2, <1>3, <1>4
  <2> QED BY <2>1, <2>2, <1>1, <1>2, <1>3, <1>4, OnlyOneMoves
<1>7. /\ u \notin cancelled' /\ u \in receipts'
      /\ request'[u] = IF request[u] = "over" THEN "over"
                       ELSE IF u \in cancelled THEN "rollback" ELSE "closing"
  BY <1>1, <1>2
<1>8. \A op \in Ops \ {"publish"} : ~ToRun(op, u)
  BY <1>5 DEF PhaseOf, Ops
<1>9. \A op \in Ops : ToRun(op, u)' <=> \/ request[u] = "over" /\ op = "settle"
                                        \/ request[u] # "over" /\ u \in cancelled /\ op = "rollback"
  BY <1>3, <1>4, <1>8 DEF Ops
<1>10. PhaseOf(u)'
  BY <1>7, <1>9 DEF PhaseOf, Ops
<1>11. ReceiptOf(u)' /\ ~Unpublished(u)'
  BY <1>7, <1>9 DEF ReceiptOf, Ops, Unpublished
<1> QED BY <1>6, <1>10, <1>11, OneUploadMoves

LEMMA AckMoves ==
  ASSUME ArtifactTypeOK, Phases, Receipts, NEW u \in Uploads, NEW fault, AckRuns(u, fault),
         receipts' = receipts \ {u}
  PROVE  Phases' /\ Receipts' /\ NobodyReturns /\ (request'[u] = "done" => u \in receipts \/ request[u] = "done")
<1>1. /\ ToRun("ack", u) /\ cancelled' = cancelled
      /\ \/ /\ request[u] = "ack" /\ request' = [request EXCEPT ![u] = "done"]
            /\ threads' = Ended("ack", u) \cup {}
         \/ /\ request[u] = "ack" /\ request' = [request EXCEPT ![u] = "rollback"]
            /\ threads' = Ended("ack", u) \cup {<<"rollback", u>>}
         \/ request[u] # "ack" /\ request' = request /\ threads' = Ended("ack", u) \cup {}
  BY DEF AckRuns, Run, ToRun
<1>2. request \in [Uploads -> {"new", "write", "publish", "closing", "ack", "rollback",
                               "abandon", "done", "over"}]
  BY DEF ArtifactTypeOK
<1>3. PhaseOf(u) /\ ReceiptOf(u)
  BY DEF Phases, Receipts
<1>4. u \notin receipts'
  OBVIOUS
<1>5. CASE request[u] = "ack" /\ request' = [request EXCEPT ![u] = "done"]
           /\ threads' = Ended("ack", u) \cup {}
  <2>1. \A o, x : ToRun(o, x)' <=> ToRun(o, x) /\ ~(o = "ack" /\ x = u)
    BY <1>5 DEF ToRun, Ended
  <2>2. Elsewhere(u)
    <3>1. \A x \in Uploads \ {u} : \A op : ToRun(op, x)' <=> ToRun(op, x)
      BY <1>1, <1>2, <1>5, <2>1
    <3>2. /\ \A x \in Uploads \ {u} : x \in cancelled' <=> x \in cancelled
          /\ \A x \in Uploads \ {u} : x \in receipts' <=> x \in receipts
      BY <1>1, <1>2, <1>5, <2>1
    <3> QED BY <3>1, <3>2, <1>1, <1>2, <1>5, <2>1, OnlyOneMoves
  <2>3. request'[u] = "done" /\ \A op \in Ops : ~ToRun(op, u)'
    BY <1>2, <1>3, <1>5, <2>1 DEF PhaseOf, Ops
  <2>4. PhaseOf(u)' /\ ReceiptOf(u)' /\ ~Unpublished(u)' /\ u \in receipts
    BY <1>1, <1>3, <1>4, <1>5, <2>3 DEF PhaseOf, ReceiptOf, Unpublished, Ops
  <2> QED BY <2>2, <2>4, OneUploadMoves
<1>6. CASE request[u] = "ack" /\ request' = [request EXCEPT ![u] = "rollback"]
           /\ threads' = Ended("ack", u) \cup {<<"rollback", u>>}
  <2>1. \A o, x : ToRun(o, x)' <=> \/ ToRun(o, x) /\ ~(o = "ack" /\ x = u)
                                   \/ o = "rollback" /\ x = u
    BY <1>6 DEF ToRun, Ended
  <2>2. Elsewhere(u)
    <3>1. \A x \in Uploads \ {u} : \A op : ToRun(op, x)' <=> ToRun(op, x)
      BY <1>1, <1>2, <1>6, <2>1
    <3>2. /\ \A x \in Uploads \ {u} : x \in cancelled' <=> x \in cancelled
          /\ \A x \in Uploads \ {u} : x \in receipts' <=> x \in receipts
      BY <1>1, <1>2, <1>6, <2>1
    <3> QED BY <3>1, <3>2, <1>1, <1>2, <1>6, <2>1, OnlyOneMoves
  <2>3. request'[u] = "rollback" /\ \A op \in Ops : ToRun(op, u)' <=> op = "rollback"
    BY <1>2, <1>3, <1>6, <2>1 DEF PhaseOf, Ops
  <2>4. PhaseOf(u)' /\ ReceiptOf(u)' /\ ~Unpublished(u)'
    BY <1>1, <1>3, <1>4, <1>6, <2>3 DEF PhaseOf, ReceiptOf, Unpublished, Ops
  <2> QED BY <2>2, <2>3, <2>4, OneUploadMoves
<1>7. CASE request[u] # "ack" /\ request' = request /\ threads' = Ended("ack", u) \cup {}
  <2>1. \A o, x : ToRun(o, x)' <=> ToRun(o, x) /\ ~(o = "ack" /\ x = u)
    BY <1>7 DEF ToRun, Ended
  <2>2. Elsewhere(u)
    <3>1. \A x \in Uploads \ {u} : \A op : ToRun(op, x)' <=> ToRun(op, x)
      BY <1>1, <1>2, <1>7, <2>1
    <3>2. /\ \A x \in Uploads \ {u} : x \in cancelled' <=> x \in cancelled
          /\ \A x \in Uploads \ {u} : x \in receipts' <=> x \in receipts
      BY <1>1, <1>2, <1>7, <2>1
    <3> QED BY <3>1, <3>2, <1>1, <1>2, <1>7, <2>1, OnlyOneMoves
  <2>3. request'[u] = request[u] /\ \A op \in Ops : ToRun(op, u)' <=> ToRun(op, u) /\ op # "ack"
    BY <1>7, <2>1
  <2>4. request[u] # "closing" /\ request[u] # "done"
    BY <1>1, <1>3 DEF PhaseOf, Ops
  <2>5. PhaseOf(u)'
    BY <1>1, <1>3, <1>7, <2>3 DEF PhaseOf, Ops
  <2>6. ReceiptOf(u)' /\ (Unpublished(u)' => Unpublished(u))
    BY <1>4, <1>7, <2>3, <2>4 DEF ReceiptOf, Unpublished, Ops
  <2> QED BY <2>2, <2>3, <2>5, <2>6, OneUploadMoves
<1> QED BY <1>1, <1>5, <1>6, <1>7

LEMMA AbandonMoves ==
  ASSUME ArtifactTypeOK, Phases, Receipts, NEW u \in Uploads, NEW fault, AbandonRuns(u, fault),
         receipts' = receipts \ {u}
  PROVE  Phases' /\ Receipts' /\ NobodyReturns
<1>1. /\ ToRun("abandon", u) /\ cancelled' = cancelled
      /\ request' = [request EXCEPT ![u] = IF @ = "abandon" THEN "over" ELSE @]
      /\ threads' = Ended("abandon", u)
  BY DEF AbandonRuns, Run, ToRun
<1>2. request \in [Uploads -> {"new", "write", "publish", "closing", "ack", "rollback",
                               "abandon", "done", "over"}]
  BY DEF ArtifactTypeOK
<1>3. PhaseOf(u) /\ ReceiptOf(u) /\ u \notin receipts'
  BY DEF Phases, Receipts
<1>4. \A o, x : ToRun(o, x)' <=> ToRun(o, x) /\ ~(o = "abandon" /\ x = u)
  BY <1>1 DEF ToRun, Ended
<1>5. Elsewhere(u)
  <2>1. \A x \in Uploads \ {u} : \A op : ToRun(op, x)' <=> ToRun(op, x)
    BY <1>4
  <2>2. /\ \A x \in Uploads \ {u} : x \in cancelled' <=> x \in cancelled
        /\ \A x \in Uploads \ {u} : x \in receipts' <=> x \in receipts
    BY <1>1
  <2> QED BY <1>1, <2>1, <2>2, OnlyOneMoves
<1>6. /\ request'[u] = IF request[u] = "abandon" THEN "over" ELSE request[u]
      /\ \A op \in Ops : ToRun(op, u)' <=> ToRun(op, u) /\ op # "abandon"
  BY <1>1, <1>2, <1>4
<1>7. request[u] \notin {"new", "closing", "ack", "done"} /\ ~ToRun("write", u) /\ ~ToRun("publish", u)
  BY <1>1, <1>3 DEF PhaseOf, Ops
<1>8. PhaseOf(u)'
  <2>1. CASE request[u] = "abandon"
    BY <2>1, <1>1, <1>3, <1>6, <1>7 DEF PhaseOf, Ops
  <2>2. CASE request[u] # "abandon"
    BY <2>2, <1>1, <1>3, <1>6, <1>7 DEF PhaseOf, Ops
  <2> QED BY <2>1, <2>2
<1>9. ReceiptOf(u)' /\ (Unpublished(u)' => Unpublished(u))
  BY <1>3, <1>6, <1>7 DEF ReceiptOf, Unpublished, Ops
<1> QED BY <1>5, <1>8, <1>9, OneUploadMoves

LEMMA RollbackMoves ==
  ASSUME ArtifactTypeOK, Phases, Receipts, NEW u \in Uploads, NEW op \in {"rollback", "settle"},
         NEW fault, RollbackRuns(op, u, fault),
         receipts' = IF u \in receipts /\ fault # "save" THEN receipts \ {u} ELSE receipts
  PROVE  Phases' /\ Receipts' /\ NobodyReturns
<1> DEFINE fails == u \in receipts /\ fault = "save"
           waits == op = "rollback" /\ request[u] = "rollback"
           more == fails /\ (waits \/ op = "settle")
<1>1. /\ ToRun(op, u) /\ cancelled' = cancelled
      /\ request' = [request EXCEPT ![u] = IF ~waits THEN @
                                           ELSE IF fails THEN "abandon" ELSE "over"]
      /\ threads' = Ended(op, u) \cup (IF more THEN {<<"abandon", u>>} ELSE {})
  BY DEF RollbackRuns, Run, ToRun
<1>2. request \in [Uploads -> {"new", "write", "publish", "closing", "ack", "rollback",
                               "abandon", "done", "over"}]
  BY DEF ArtifactTypeOK
<1>3. PhaseOf(u) /\ ReceiptOf(u)
  BY DEF Phases, Receipts
<1>m. more => fails /\ (waits \/ op = "settle")
  OBVIOUS
<1>n. fails /\ (waits \/ op = "settle") => more
  OBVIOUS
<1> HIDE DEF more
<1>4. \A o, x : ToRun(o, x)' <=> \/ ToRun(o, x) /\ ~(o = op /\ x = u)
                                 \/ more /\ o = "abandon" /\ x = u
  BY <1>1 DEF ToRun, Ended
<1>5. Elsewhere(u)
  <2>1. \A x \in Uploads \ {u} : \A o : ToRun(o, x)' <=> ToRun(o, x)
    BY <1>4
  <2>2. /\ \A x \in Uploads \ {u} : x \in cancelled' <=> x \in cancelled
        /\ \A x \in Uploads \ {u} : x \in receipts' <=> x \in receipts
    BY <1>1
  <2> QED BY <1>1, <2>1, <2>2, OnlyOneMoves
<1>6. /\ request'[u] = IF ~waits THEN request[u] ELSE IF fails THEN "abandon" ELSE "over"
      /\ \A o \in Ops : ToRun(o, u)' <=> (ToRun(o, u) /\ o # op) \/ (more /\ o = "abandon")
      /\ u \in cancelled' <=> u \in cancelled
  BY <1>1, <1>2, <1>4
<1>7. /\ request[u] \in {"rollback", "abandon", "over"}
      /\ ~ToRun("write", u) /\ ~ToRun("publish", u)
      /\ op = "settle" => request[u] = "over"
  BY <1>1, <1>3 DEF PhaseOf, Ops
<1>8. u \in receipts' <=> fails
  OBVIOUS
<1>9. fails => u \in receipts
  OBVIOUS
<1>10. waits <=> op = "rollback" /\ request[u] = "rollback"
  OBVIOUS
<1> HIDE DEF fails, waits
<1>11. CASE op = "settle"
  <2>1. /\ request'[u] = "over" /\ (more <=> fails)
        /\ \A o \in Ops : ToRun(o, u)' <=> (ToRun(o, u) /\ o # "settle") \/ (fails /\ o = "abandon")
    BY <1>6, <1>7, <1>10, <1>11, <1>m, <1>n
  <2>2. PhaseOf(u)'
    BY <1>3, <1>6, <1>7, <2>1 DEF PhaseOf, Ops
  <2>3. ReceiptOf(u)' /\ ~Unpublished(u)'
    BY <1>7, <1>8, <2>1 DEF ReceiptOf, Unpublished, Ops
  <2> QED BY <1>5, <2>2, <2>3, OneUploadMoves
<1>12. CASE op = "rollback" /\ waits
  <2>1. /\ request'[u] = IF fails THEN "abandon" ELSE "over"
        /\ more <=> fails
        /\ \A o \in Ops : ToRun(o, u)' <=> (ToRun(o, u) /\ o # "rollback") \/ (fails /\ o = "abandon")
    BY <1>6, <1>10, <1>12, <1>m, <1>n
  <2>2. PhaseOf(u)'
    <3>1. CASE fails
      BY <3>1, <1>3, <1>6, <1>7, <1>10, <1>12, <2>1 DEF PhaseOf, Ops
    <3>2. CASE ~fails
      BY <3>2, <1>3, <1>6, <1>7, <1>10, <1>12, <2>1 DEF PhaseOf, Ops
    <3> QED BY <3>1, <3>2
  <2>3. ReceiptOf(u)' /\ ~Unpublished(u)'
    BY <1>7, <1>8, <2>1 DEF ReceiptOf, Unpublished, Ops
  <2> QED BY <1>5, <2>2, <2>3, OneUploadMoves
<1>13. CASE op = "rollback" /\ ~waits
  <2>1. /\ request'[u] = request[u] /\ ~more
        /\ \A o \in Ops : ToRun(o, u)' <=> ToRun(o, u) /\ o # "rollback"
    BY <1>6, <1>10, <1>13, <1>m
  <2>2. PhaseOf(u)'
    BY <1>3, <1>6, <1>7, <1>10, <1>13, <2>1 DEF PhaseOf, Ops
  <2>3. request[u] \in {"abandon", "over"}
    BY <1>7, <1>10, <1>13
  <2>4. fails => ToRun("abandon", u)
    BY <1>1, <1>3, <1>9, <1>13, <2>3 DEF PhaseOf, ReceiptOf
  <2>5. ReceiptOf(u)' /\ ~Unpublished(u)'
    BY <1>7, <1>8, <2>1, <2>3, <2>4 DEF ReceiptOf, Unpublished, Ops
  <2> QED BY <1>5, <2>2, <2>5, OneUploadMoves
<1> QED BY <1>11, <1>12, <1>13

LEMMA CloseFileMoves ==
  ASSUME ArtifactTypeOK, Phases, Receipts, NEW u \in Uploads, CloseFile(u)
  PROVE  Phases' /\ Receipts' /\ NobodyReturns
<1>1. /\ request[u] = "closing" /\ request' = [request EXCEPT ![u] = "ack"]
      /\ threads' = threads \cup {<<"ack", u>>} /\ UNCHANGED <<cancelled, receipts>>
  BY DEF CloseFile, registry
<1>2. request \in [Uploads -> {"new", "write", "publish", "closing", "ack", "rollback",
                               "abandon", "done", "over"}]
  BY DEF ArtifactTypeOK
<1>3. \A o, x : ToRun(o, x)' <=> ToRun(o, x) \/ (o = "ack" /\ x = u)
  BY <1>1 DEF ToRun
<1>4. PhaseOf(u) /\ ReceiptOf(u)
  BY DEF Phases, Receipts
<1>5. Elsewhere(u)
  <2>1. \A x \in Uploads \ {u} : \A op : ToRun(op, x)' <=> ToRun(op, x)
    BY <1>3
  <2>2. /\ \A x \in Uploads \ {u} : x \in cancelled' <=> x \in cancelled
        /\ \A x \in Uploads \ {u} : x \in receipts' <=> x \in receipts
    BY <1>1
  <2> QED BY <1>1, <2>1, <2>2, OnlyOneMoves
<1>6. request'[u] = "ack" /\ \A op \in Ops : ToRun(op, u)' <=> op = "ack"
  BY <1>1, <1>2, <1>3, <1>4 DEF PhaseOf, Ops
<1>7. PhaseOf(u)' /\ ReceiptOf(u)' /\ ~Unpublished(u)'
  BY <1>1, <1>4, <1>6 DEF PhaseOf, ReceiptOf, Unpublished, Ops
<1> QED BY <1>5, <1>7, OneUploadMoves

LEMMA InterruptMoves ==
  ASSUME ArtifactTypeOK, Phases, Receipts, NEW u \in Uploads, InterruptUpload(u)
  PROVE  Phases' /\ Receipts' /\ NobodyReturns /\ (request' # request => request'[u] # "done")
<1>1. /\ receipts' = receipts
      /\ \/ /\ request[u] \in {"write", "publish"}
            /\ cancelled' = cancelled \cup {u} /\ UNCHANGED <<request, threads>>
         \/ /\ request[u] \in {"closing", "ack", "rollback", "abandon"}
            /\ request' = [request EXCEPT ![u] = After(@)]
            /\ threads' = threads \cup
                 (IF request[u] = "abandon" THEN {} ELSE {<<After(request[u]), u>>})
            /\ UNCHANGED cancelled
  BY DEF InterruptUpload, registry
<1>2. request \in [Uploads -> {"new", "write", "publish", "closing", "ack", "rollback",
                               "abandon", "done", "over"}]
  BY DEF ArtifactTypeOK
<1>3. PhaseOf(u) /\ ReceiptOf(u)
  BY DEF Phases, Receipts
<1>4. CASE request[u] \in {"write", "publish"} /\ cancelled' = cancelled \cup {u}
           /\ UNCHANGED <<request, threads>>
  <2>1. \A o, x : ToRun(o, x)' <=> ToRun(o, x)
    BY <1>4 DEF ToRun
  <2>2. Elsewhere(u)
    BY <1>1, <1>4, <2>1 DEF Elsewhere
  <2>3. PhaseOf(u)' /\ ReceiptOf(u)' /\ (Unpublished(u)' => Unpublished(u))
    BY <1>1, <1>3, <1>4, <2>1 DEF PhaseOf, ReceiptOf, Unpublished, Ops
  <2> QED BY <1>4, <2>2, <2>3, OneUploadMoves
<1>5. ASSUME NEW from \in {"closing", "ack", "rollback", "abandon"}, NEW to, NEW more,
             request[u] = from, to = After(from), more = (from # "abandon"),
             request' = [request EXCEPT ![u] = to], UNCHANGED cancelled,
             threads' = threads \cup (IF more THEN {<<to, u>>} ELSE {})
      PROVE  Phases' /\ Receipts' /\ NobodyReturns /\ request'[u] # "done"
  <2>1. \A o, x : ToRun(o, x)' <=> ToRun(o, x) \/ (more /\ o = to /\ x = u)
    BY <1>5 DEF ToRun
  <2>2. Elsewhere(u)
    <3>1. \A x \in Uploads \ {u} : \A op : ToRun(op, x)' <=> ToRun(op, x)
      BY <2>1
    <3>2. /\ \A x \in Uploads \ {u} : x \in cancelled' <=> x \in cancelled
          /\ \A x \in Uploads \ {u} : x \in receipts' <=> x \in receipts
      BY <1>1, <1>5
    <3> QED BY <1>5, <3>1, <3>2, OnlyOneMoves
  <2>3. /\ request'[u] = to /\ (u \in cancelled' <=> u \in cancelled)
        /\ \A o \in Ops : ToRun(o, u)' <=> ToRun(o, u) \/ (more /\ o = to)
    BY <1>2, <1>5, <2>1
  <2>4. CASE from \in {"closing", "ack"}
    <3>1. to = "rollback" /\ more
      BY <1>5, <2>4 DEF After
    <3>2. PhaseOf(u)' /\ ReceiptOf(u)' /\ (Unpublished(u)' => Unpublished(u))
      BY <1>1, <1>3, <1>5, <2>3, <2>4, <3>1 DEF PhaseOf, ReceiptOf, Unpublished, Ops
    <3> QED BY <2>2, <2>3, <3>1, <3>2, OneUploadMoves
  <2>5. CASE from = "rollback"
    <3>1. to = "abandon" /\ more
      BY <1>5, <2>5 DEF After
    <3>2. PhaseOf(u)' /\ ReceiptOf(u)' /\ (Unpublished(u)' => Unpublished(u))
      BY <1>1, <1>3, <1>5, <2>3, <2>5, <3>1 DEF PhaseOf, ReceiptOf, Unpublished, Ops
    <3> QED BY <2>2, <2>3, <3>1, <3>2, OneUploadMoves
  <2>6. CASE from = "abandon"
    <3>1. to = "over" /\ ~more
      BY <1>5, <2>6 DEF After
    <3>2. PhaseOf(u)' /\ ReceiptOf(u)' /\ (Unpublished(u)' => Unpublished(u))
      BY <1>1, <1>3, <1>5, <2>3, <2>6, <3>1 DEF PhaseOf, ReceiptOf, Unpublished, Ops
    <3> QED BY <2>2, <2>3, <3>1, <3>2, OneUploadMoves
  <2> QED BY <1>5, <2>4, <2>5, <2>6
<1>6. CASE /\ request[u] \in {"closing", "ack", "rollback", "abandon"}
           /\ request' = [request EXCEPT ![u] = After(@)]
           /\ threads' = threads \cup
                (IF request[u] = "abandon" THEN {} ELSE {<<After(request[u]), u>>})
           /\ UNCHANGED cancelled
  <2>1. request' = [request EXCEPT ![u] = After(request[u])]
    BY <1>6
  <2>2. threads' = threads \cup (IF request[u] # "abandon" THEN {<<After(request[u]), u>>} ELSE {})
    BY <1>6
  <2> QED BY <1>5, <1>6, <2>1, <2>2
<1> QED BY <1>1, <1>4, <1>6

LEMMA DetachMoves ==
  ASSUME ArtifactTypeOK, Phases, Receipts, NEW u \in Uploads, DetachUpload(u)
  PROVE  Phases' /\ Receipts' /\ NobodyReturns
<1>1. /\ u \in cancelled /\ request' = [request EXCEPT ![u] = "over"]
      /\ cancelled' = cancelled \ {u} /\ UNCHANGED <<threads, receipts>>
  BY DEF DetachUpload, registry
<1>2. request \in [Uploads -> {"new", "write", "publish", "closing", "ack", "rollback",
                               "abandon", "done", "over"}]
  BY DEF ArtifactTypeOK
<1>3. \A o, x : ToRun(o, x)' <=> ToRun(o, x)
  BY <1>1 DEF ToRun
<1>4. PhaseOf(u) /\ ReceiptOf(u)
  BY DEF Phases, Receipts
<1>5. Elsewhere(u)
  <2>1. /\ \A x \in Uploads \ {u} : x \in cancelled' <=> x \in cancelled
        /\ \A x \in Uploads \ {u} : x \in receipts' <=> x \in receipts
    BY <1>1
  <2> QED BY <1>1, <1>3, <2>1, OnlyOneMoves
<1>6. request'[u] = "over" /\ u \notin cancelled' /\ \A op \in Ops : ToRun(op, u)' <=> ToRun(op, u)
  BY <1>1, <1>2, <1>3
<1>7. request[u] \in {"write", "publish"} /\ ToRun(request[u], u) /\ ~ToRun("rollback", u)
  BY <1>1, <1>4 DEF PhaseOf, Ops
<1>8. PhaseOf(u)' /\ ReceiptOf(u)' /\ (Unpublished(u)' => Unpublished(u))
  BY <1>1, <1>4, <1>6, <1>7 DEF PhaseOf, ReceiptOf, Unpublished, Ops
<1> QED BY <1>5, <1>8, OneUploadMoves

-----------------------------------------------------------------------------
(* Steps that leave the registry as it is. *)

\* The server goes on.
Goes == server # "down" /\ UNCHANGED server

PathsStay == \A p \in Paths : Unregistered(p)' => Unregistered(p)

\* No file that somebody knows is touched.
FilesStay == \A i \in Owned : file'[i] # file[i] => file[i] # "bin" /\ file'[i] \notin {"temp", "bin"}

\* The lists and the files keep their part of the invariant.
LEMMA ShelfStays ==
  ASSUME Shelf, Goes, NobodyReturns, PathsStay, FilesStay,
         UNCHANGED <<manifest, entries, pending, guards, receipts, victims, degraded, moving,
                     traffic, evicted, kept>>,
         \A u \in Uploads : request'[u] = "done" => request[u] = "done"
  PROVE  Shelf'
<1>1. NewComers /\ Lists /\ Files /\ Guards /\ Agreement /\ Degraded /\ History
  BY DEF Shelf
<1>2. NewComers'
  <2>1. ASSUME NEW u \in Uploads, Unpublished(u)'
        PROVE  /\ Foreign(u)' /\ u \notin pending' \cup manifest'.pending \cup receipts'
               /\ moving' # u => file'[u] # "bin"
    <3>1. /\ Foreign(u) /\ u \notin pending \cup manifest.pending \cup receipts
          /\ moving # u => file[u] # "bin"
      BY <1>1, <2>1 DEF NobodyReturns, NewComers
    <3>2. Foreign(u)' /\ u \notin pending' \cup manifest'.pending \cup receipts'
      BY <3>1 DEF Foreign
    <3>3. u \in Owned
      BY DEF Owned
    <3>4. moving' # u => file'[u] # "bin"
      BY <3>1, <3>3 DEF FilesStay
    <3> QED BY <3>2, <3>4
  <2>2. ASSUME NEW p \in Paths, Unregistered(p)' PROVE Foreign(p)'
    <3>1. Foreign(p)
      BY <1>1, <2>2 DEF PathsStay, NewComers
    <3> QED BY <3>1 DEF Foreign
  <2> QED BY <2>1, <2>2 DEF NewComers
<1>3. Lists'
  BY <1>1 DEF Lists, Distinct, Has
<1>4. Files'
  <2>1. \A i \in Owned : OnDisk(file', i) => OnDisk(file, i)
    BY DEF FilesStay, OnDisk
  <2>2. Physical(file') <= Physical(file) /\ Physical(file) \in Nat /\ Physical(file') \in Nat
    BY <2>1, PhysicalFacts
  <2>3. Physical(file)' = Physical(file')
    BY DEF Physical
  <2>4. Physical(file)' <= MaxBytes
    BY <1>1, <2>2, <2>3, Parameters DEF Files
  <2>5. \A i \in Owned : file[i] = "bin" => file'[i] = "bin"
    BY DEF FilesStay
  <2> QED BY <1>1, <2>4, <2>5 DEF Files
<1>5. Guards'
  BY <1>1 DEF Guards, Protectors, Has
<1>6. Agreement' /\ Degraded'
  BY <1>1 DEF Agreement, Degraded, Goes, Has
<1>7. History'
  BY <1>1 DEF History, Has
<1> QED BY <1>2, <1>3, <1>4, <1>5, <1>6, <1>7 DEF Shelf

\* So does the plan of the file that is moving,
LEMMA PlanStays ==
  ASSUME Plan, Movement, UNCHANGED <<moving, victims, entries, receipts>>,
         \A l \in Leases : Reading(l)' => Reading(l) /\ wanted'[l] = wanted[l],
         \A i \in Owned : file[i] = "bin" => file'[i] = "bin"
  PROVE  Plan'
<1> SUFFICES ASSUME moving # NoItem PROVE Plan'
  BY DEF Plan
<1>1. moving \in Owned
  BY DEF Movement, Owned
<1>2. \A l \in Leases : Reading(l) => wanted[l] \notin ToSet(victims[moving])
  BY DEF Plan, Reading
<1>3. \A l \in Leases : Reading(l)' => wanted'[l] \notin ToSet(victims[moving])
  BY <1>2
<1>4. file'[moving] = "bin"
  BY <1>1 DEF Plan
<1> QED BY <1>3, <1>4 DEF Plan, Reading

\* the counts,
LEMMA PinsStay ==
  ASSUME Pins, UNCHANGED <<pins, leases, receipts>>, registryClosed => registryClosed'
  PROVE  Pins'
BY DEF Pins, Holders

\* and the readers.
LEMMA ReadersStay ==
  ASSUME Readers, UNCHANGED <<leases, reader, wanted>>, registryClosed => registryClosed',
         \A l \in Leases : ToRun("lease", l)' => ToRun("lease", l),
         Known \subseteq Known',
         \A l \in Leases : Reading(l) /\ wanted[l] \in Owned => Has(entries', wanted[l])
  PROVE  Readers'
<1>1. \A l \in Leases : Reading(l)' <=> Reading(l)
  BY DEF Reading
<1> QED BY <1>1 DEF Readers

\* Known only grows.
LEMMA KnownGrows ==
  ASSUME \A u \in Uploads : request[u] = "done" => request'[u] = "done",
         \A p \in Paths : registering[p] = "done" => registering'[p] = "done"
  PROVE  Known \subseteq Known'
BY DEF Known

\* Threads of uploads are not those of paths or readers.
LEMMA OthersWait ==
  ASSUME NEW u \in Uploads, \A o, x : x # u => (ToRun(o, x)' <=> ToRun(o, x))
  PROVE  /\ \A p \in Paths : ToRun("register", p)' <=> ToRun("register", p)
         /\ \A l \in Leases : ToRun("lease", l)' <=> ToRun("lease", l)
<1>1. \A x \in Paths \cup Leases : x # u
  BY Parameters DEF Owned, Items
<1> QED BY <1>1

Quiet(u) ==
  /\ UNCHANGED <<manifest, registry, reader, wanted, registering, moving, traffic, evicted, kept>>
  /\ FilesStay
  /\ \A o, x : x # u => (ToRun(o, x)' <=> ToRun(o, x))
  /\ \A x \in Uploads : request'[x] = "done" <=> request[x] = "done"
  /\ moving # NoItem => ToRun("publish", moving)'

\* A step of an upload that touches no file somebody knows.
LEMMA QuietUpload ==
  ASSUME ArtifactIInv, Goes, NEW u \in Uploads, Quiet(u), ArtifactTypeOK', Phases', Receipts',
         NobodyReturns
  PROVE  ArtifactIInv'
<1>1. /\ Course /\ Shelf /\ Plan /\ Pins /\ Readers
  BY DEF ArtifactIInv
<1>2. /\ UNCHANGED <<manifest, entries, pending, pins, guards, receipts, victims, leases, degraded,
                     registryClosed, reader, wanted, registering, moving, traffic, evicted, kept>>
      /\ \A x \in Uploads : request'[x] = "done" <=> request[x] = "done"
      /\ FilesStay
  BY DEF Quiet, registry
<1>3. /\ \A p \in Paths : ToRun("register", p)' <=> ToRun("register", p)
      /\ \A l \in Leases : ToRun("lease", l)' <=> ToRun("lease", l)
  BY OthersWait DEF Quiet
<1>4. PathsStay
  BY <1>2, <1>3 DEF PathsStay, Unregistered
<1>5. Shelf'
  BY <1>1, <1>2, <1>4, ShelfStays
<1>6. Course'
  <2>1. ToRun("close", NoItem)' => ToRun("close", NoItem)
    BY Parameters DEF Quiet, Items, Owned
  <2> QED BY <1>1, <1>2, <2>1 DEF Course, Movement, Closing, Quiet
<1>7. Plan'
  <2>1. Movement /\ \A i \in Owned : file[i] = "bin" => file'[i] = "bin"
    BY <1>1, <1>2 DEF Course, FilesStay
  <2>2. \A l \in Leases : Reading(l)' => Reading(l) /\ wanted'[l] = wanted[l]
    BY <1>2 DEF Reading
  <2> QED BY <1>1, <1>2, <2>1, <2>2, PlanStays
<1>8. Pins'
  BY <1>1, <1>2, PinsStay
<1>9. Readers'
  <2>1. Known \subseteq Known'
    BY <1>2, KnownGrows
  <2>2. \A l \in Leases : Reading(l) /\ wanted[l] \in Owned => Has(entries', wanted[l])
    BY <1>1, <1>2 DEF Readers
  <2> QED BY <1>1, <1>2, <1>3, <2>1, <2>2, ReadersStay
<1>10. Down'
  BY DEF Goes, Down
<1> QED BY <1>5, <1>6, <1>7, <1>8, <1>9, <1>10 DEF ArtifactIInv

\* The steps of the request of an upload.
LEMMA BeginUploadKeeps ==
  ASSUME ArtifactIInv, Goes, NEW u \in Uploads, BeginUpload(u)
  PROVE  ArtifactIInv'
<1>1. ArtifactTypeOK /\ Phases /\ Receipts /\ Movement /\ NewComers
  BY DEF ArtifactIInv, Course, Shelf
<1>2. Phases' /\ Receipts' /\ NobodyReturns
  BY <1>1, BeginUploadMoves
<1>3. request[u] = "new" /\ ~ToRun("publish", u)
  BY <1>1 DEF BeginUpload, Phases, PhaseOf, Ops
<1>4. file[u] # "bin"
  <2>1. moving # u
    BY <1>1, <1>3, Parameters DEF Movement, Items, Owned
  <2> QED BY <1>1, <1>3, <2>1 DEF NewComers, Unpublished
<1>5. Quiet(u)
  <2>1. FilesStay
    BY <1>1, <1>4 DEF BeginUpload, FilesStay, ArtifactTypeOK
  <2>2. \A o, x : x # u => (ToRun(o, x)' <=> ToRun(o, x))
    BY DEF BeginUpload, ToRun
  <2>3. \A x \in Uploads : request'[x] = "done" <=> request[x] = "done"
    BY <1>1, <1>3 DEF BeginUpload, ArtifactTypeOK
  <2>4. moving # NoItem => ToRun("publish", moving)'
    BY <1>1 DEF BeginUpload, ToRun, Movement
  <2> QED BY <2>1, <2>2, <2>3, <2>4 DEF Quiet, BeginUpload, rest
<1>6. ArtifactTypeOK'
  <2>1. u \in Owned /\ u \in Uploads /\ "write" \in Ops
    BY DEF Owned, Ops
  <2> QED BY <1>1, <2>1 DEF BeginUpload, ArtifactTypeOK, registry, rest
<1> QED BY <1>2, <1>5, <1>6, QuietUpload

LEMMA CloseFileKeeps ==
  ASSUME ArtifactIInv, Goes, NEW u \in Uploads, CloseFile(u)
  PROVE  ArtifactIInv'
<1>1. ArtifactTypeOK /\ Phases /\ Receipts /\ Movement
  BY DEF ArtifactIInv, Course
<1>2. Phases' /\ Receipts' /\ NobodyReturns
  BY <1>1, CloseFileMoves
<1>3. Quiet(u)
  <2>1. FilesStay
    BY DEF CloseFile, FilesStay, disk
  <2>2. \A o, x : x # u => (ToRun(o, x)' <=> ToRun(o, x))
    BY DEF CloseFile, ToRun
  <2>3. \A x \in Uploads : request'[x] = "done" <=> request[x] = "done"
    BY <1>1 DEF CloseFile, ArtifactTypeOK
  <2>4. moving # NoItem => ToRun("publish", moving)'
    BY <1>1 DEF CloseFile, ToRun, Movement
  <2> QED BY <2>1, <2>2, <2>3, <2>4 DEF Quiet, CloseFile, rest, disk
<1>4. ArtifactTypeOK'
  <2>1. "ack" \in Ops
    BY DEF Ops
  <2> QED BY <1>1, <2>1 DEF CloseFile, ArtifactTypeOK, registry, rest, disk
<1> QED BY <1>2, <1>3, <1>4, QuietUpload

LEMMA InterruptKeeps ==
  ASSUME ArtifactIInv, Goes, NEW u \in Uploads, InterruptUpload(u)
  PROVE  ArtifactIInv'
<1>1. ArtifactTypeOK /\ Phases /\ Receipts /\ Movement
  BY DEF ArtifactIInv, Course
<1>2. Phases' /\ Receipts' /\ NobodyReturns
  BY <1>1, InterruptMoves
<1>3. After(request[u]) \in {"rollback", "abandon", "over"}
  BY <1>1 DEF After
<1>4. Quiet(u)
  <2>1. FilesStay
    BY DEF InterruptUpload, FilesStay, disk
  <2>2. \A o, x : x # u => (ToRun(o, x)' <=> ToRun(o, x))
    BY DEF InterruptUpload, ToRun
  <2>3. \A x \in Uploads : request'[x] = "done" <=> request[x] = "done"
    BY <1>1, <1>3 DEF InterruptUpload, ArtifactTypeOK
  <2>4. moving # NoItem => ToRun("publish", moving)'
    BY <1>1 DEF InterruptUpload, ToRun, Movement
  <2> QED BY <2>1, <2>2, <2>3, <2>4 DEF Quiet, InterruptUpload, rest, disk
<1>5. ArtifactTypeOK'
  <2>1. request[u] # "abandon" /\ request[u] \in {"closing", "ack", "rollback", "abandon"}
          => After(request[u]) \in Ops
    BY DEF Ops, After
  <2>2. request' \in [Uploads -> {"new", "write", "publish", "closing", "ack", "rollback",
                                  "abandon", "done", "over"}]
    BY <1>1, <1>3 DEF InterruptUpload, ArtifactTypeOK
  <2>3. threads' \subseteq Ops \X (Uploads \cup Paths \cup Leases \cup {NoItem})
    BY <1>1, <2>1 DEF InterruptUpload, ArtifactTypeOK
  <2> QED BY <1>1, <2>2, <2>3 DEF InterruptUpload, ArtifactTypeOK, registry, rest, disk
<1> QED BY <1>2, <1>4, <1>5, QuietUpload

LEMMA DetachKeeps ==
  ASSUME ArtifactIInv, Goes, NEW u \in Uploads, DetachUpload(u)
  PROVE  ArtifactIInv'
<1>1. ArtifactTypeOK /\ Phases /\ Receipts /\ Movement
  BY DEF ArtifactIInv, Course
<1>2. Phases' /\ Receipts' /\ NobodyReturns
  BY <1>1, DetachMoves
<1>3. request[u] # "done"
  BY <1>1 DEF DetachUpload, Phases, PhaseOf
<1>4. u \in Owned
  BY DEF Owned
<1>5. Quiet(u)
  <2>1. FilesStay
    BY <1>1, <1>4 DEF DetachUpload, FilesStay, ArtifactTypeOK
  <2>2. \A o, x : x # u => (ToRun(o, x)' <=> ToRun(o, x))
    BY DEF DetachUpload, ToRun
  <2>3. \A x \in Uploads : request'[x] = "done" <=> request[x] = "done"
    BY <1>1, <1>3 DEF DetachUpload, ArtifactTypeOK
  <2>4. moving # NoItem => ToRun("publish", moving)'
    BY <1>1 DEF DetachUpload, ToRun, Movement
  <2> QED BY <2>1, <2>2, <2>3, <2>4 DEF Quiet, DetachUpload, rest
<1>6. ArtifactTypeOK'
  BY <1>1, <1>4 DEF DetachUpload, ArtifactTypeOK, registry, rest
<1> QED BY <1>2, <1>5, <1>6, QuietUpload

\* The registry and the uploads are left alone.
Aside ==
  /\ UNCHANGED <<file, manifest, entries, pending, guards, receipts, victims, degraded, request,
                 cancelled, moving, traffic, evicted, kept>>
  /\ \A u \in Uploads : \A op \in Ops : ToRun(op, u)' <=> ToRun(op, u)
  /\ PathsStay
  /\ registryClosed => registryClosed'
  /\ ToRun("close", NoItem)' => ToRun("close", NoItem) \/ registryClosed'

\* Steps of registrations and of readers.
LEMMA AsideKeeps ==
  ASSUME ArtifactIInv, Goes, Aside, ArtifactTypeOK', Readers', Pins',
         \A l \in Leases : Reading(l)' => Reading(l) /\ wanted'[l] = wanted[l]
  PROVE  ArtifactIInv'
<1>1. Course /\ Shelf /\ Plan
  BY DEF ArtifactIInv
<1>2. /\ UNCHANGED <<file, manifest, entries, pending, guards, receipts, victims, degraded, request,
                     cancelled, moving, traffic, evicted, kept>>
      /\ \A u \in Uploads : \A op \in Ops : ToRun(op, u)' <=> ToRun(op, u)
      /\ PathsStay
  BY DEF Aside
<1>3. Phases' /\ Receipts' /\ NobodyReturns
  BY <1>1, <1>2, NoUploadMoves DEF Course
<1>4. Movement' /\ Closing'
  BY <1>1, <1>2 DEF Aside, Course, Movement, Closing, Ops
<1>5. Shelf'
  <2>1. FilesStay
    BY <1>2 DEF FilesStay
  <2> QED BY <1>1, <1>2, <1>3, <2>1, ShelfStays
<1>6. Plan'
  BY <1>1, <1>2, PlanStays DEF Course
<1>7. Down'
  BY DEF Goes, Down
<1> QED BY <1>3, <1>4, <1>5, <1>6, <1>7 DEF ArtifactIInv, Course

\* Paths and readers are no uploads.
LEMMA NoUpload ==
  /\ \A u \in Uploads : u \notin Paths /\ u \notin Leases /\ u # NoItem
  /\ \A p \in Paths : p \notin Leases /\ p # NoItem /\ p \notin Owned
BY Parameters DEF Owned, Items

\* Those of a registration,
LEMMA AskRegistrationKeeps ==
  ASSUME ArtifactIInv, Goes, NEW p \in Paths, AskRegistration(p)
  PROVE  ArtifactIInv'
<1>1. ArtifactTypeOK /\ Readers /\ Pins
  BY DEF ArtifactIInv
<1>2. Aside
  <2>1. \A u \in Uploads : \A op \in Ops : ToRun(op, u)' <=> ToRun(op, u)
    BY NoUpload DEF AskRegistration, ToRun
  <2>2. PathsStay
    BY <1>1 DEF AskRegistration, PathsStay, Unregistered, ToRun, ArtifactTypeOK
  <2> QED BY <2>1, <2>2 DEF Aside, AskRegistration, registry, disk, rest, ToRun
<1>3. ArtifactTypeOK'
  <2>1. "register" \in Ops
    BY DEF Ops
  <2> QED BY <1>1, <2>1 DEF AskRegistration, ArtifactTypeOK, registry, disk, rest
<1>4. Readers'
  <2>1. Known \subseteq Known'
    <3>1. \A u \in Uploads : request[u] = "done" => request'[u] = "done"
      BY DEF AskRegistration
    <3>2. \A x \in Paths : registering[x] = "done" => registering'[x] = "done"
      BY <1>1 DEF AskRegistration, ArtifactTypeOK
    <3> QED BY <3>1, <3>2, KnownGrows
  <2>2. \A l \in Leases : ToRun("lease", l)' => ToRun("lease", l)
    BY DEF AskRegistration, ToRun
  <2>3. \A l \in Leases : Reading(l) /\ wanted[l] \in Owned => Has(entries', wanted[l])
    BY <1>1 DEF AskRegistration, registry, Readers
  <2> QED BY <1>1, <2>1, <2>2, <2>3, ReadersStay DEF AskRegistration, registry
<1>5. Pins'
  BY <1>1, PinsStay DEF AskRegistration, registry
<1>6. \A l \in Leases : Reading(l)' => Reading(l) /\ wanted'[l] = wanted[l]
  BY DEF AskRegistration, Reading
<1> QED BY <1>2, <1>3, <1>4, <1>5, <1>6, AsideKeeps

LEMMA DropRegistrationKeeps ==
  ASSUME ArtifactIInv, Goes, NEW p \in Paths, DropRegistration(p)
  PROVE  ArtifactIInv'
<1>1. ArtifactTypeOK /\ Readers /\ Pins
  BY DEF ArtifactIInv
<1>2. Aside
  <2>1. PathsStay
    BY <1>1 DEF DropRegistration, PathsStay, Unregistered, ToRun, ArtifactTypeOK
  <2> QED BY <2>1 DEF Aside, DropRegistration, registry, disk, rest, ToRun
<1>3. ArtifactTypeOK'
  BY <1>1 DEF DropRegistration, ArtifactTypeOK, registry, disk, rest
<1>4. Readers'
  <2>1. Known \subseteq Known'
    <3>1. \A u \in Uploads : request[u] = "done" => request'[u] = "done"
      BY DEF DropRegistration
    <3>2. \A x \in Paths : registering[x] = "done" => registering'[x] = "done"
      BY <1>1 DEF DropRegistration, ArtifactTypeOK
    <3> QED BY <3>1, <3>2, KnownGrows
  <2>2. \A l \in Leases : ToRun("lease", l)' => ToRun("lease", l)
    BY DEF DropRegistration, ToRun
  <2>3. \A l \in Leases : Reading(l) /\ wanted[l] \in Owned => Has(entries', wanted[l])
    BY <1>1 DEF DropRegistration, registry, Readers
  <2> QED BY <1>1, <2>1, <2>2, <2>3, ReadersStay DEF DropRegistration, registry
<1>5. Pins'
  BY <1>1, PinsStay DEF DropRegistration, registry
<1>6. \A l \in Leases : Reading(l)' => Reading(l) /\ wanted'[l] = wanted[l]
  BY DEF DropRegistration, Reading
<1> QED BY <1>2, <1>3, <1>4, <1>5, <1>6, AsideKeeps

LEMMA VanishKeeps ==
  ASSUME ArtifactIInv, Goes, NEW p \in Paths, Vanish(p)
  PROVE  ArtifactIInv'
<1>1. ArtifactTypeOK /\ Readers /\ Pins
  BY DEF ArtifactIInv
<1>2. Aside
  BY DEF Aside, Vanish, registry, clients, rest, ToRun, PathsStay, Unregistered
<1>3. ArtifactTypeOK'
  BY <1>1 DEF Vanish, ArtifactTypeOK, registry, clients, rest
<1>4. Readers'
  BY <1>1 DEF Vanish, Readers, registry, clients, ToRun, Reading, Known, Has
<1>5. Pins'
  BY <1>1, PinsStay DEF Vanish, registry
<1>6. \A l \in Leases : Reading(l)' => Reading(l) /\ wanted'[l] = wanted[l]
  BY DEF Vanish, clients, Reading
<1> QED BY <1>2, <1>3, <1>4, <1>5, <1>6, AsideKeeps

\* those of a reader,
LEMMA AskLeaseKeeps ==
  ASSUME ArtifactIInv, Goes, NEW l \in Leases, NEW i \in Items, AskLease(l, i)
  PROVE  ArtifactIInv'
<1>1. ArtifactTypeOK /\ Readers /\ Pins
  BY DEF ArtifactIInv
<1>2. Aside
  <2>1. \A u \in Uploads : \A op \in Ops : ToRun(op, u)' <=> ToRun(op, u)
    BY NoUpload DEF AskLease, ToRun
  <2>2. PathsStay
    BY NoUpload DEF AskLease, PathsStay, Unregistered, ToRun
  <2> QED BY <2>1, <2>2 DEF Aside, AskLease, registry, disk, rest, ToRun
<1>3. ArtifactTypeOK'
  <2>1. "lease" \in Ops
    BY DEF Ops
  <2> QED BY <1>1, <2>1 DEF AskLease, ArtifactTypeOK, registry, disk, rest
<1>4. Known' = Known
  BY DEF AskLease, Known
<1>5. \A k \in Leases : k # l => reader'[k] = reader[k] /\ wanted'[k] = wanted[k]
  BY <1>1 DEF AskLease, ArtifactTypeOK
<1>6. reader'[l] = "asked" /\ wanted'[l] = i /\ i \in Known /\ reader[l] = "idle"
  BY <1>1 DEF AskLease, ArtifactTypeOK
<1>7. /\ UNCHANGED <<leases, entries, registryClosed, pins, receipts>>
      /\ \A k \in Leases : k # l => (ToRun("lease", k)' <=> ToRun("lease", k))
  BY DEF AskLease, ToRun, registry
<1>8. Readers'
  <2>1. ASSUME NEW k \in Leases
        PROVE  /\ ToRun("lease", k)' => reader'[k] \in {"asked", "dropped"}
               /\ ToRun("lease", k)' \/ Reading(k)' => wanted'[k] \in Known'
               /\ ~Reading(k)' => leases'[k] = NoItem
               /\ Reading(k)' /\ ~registryClosed' => leases'[k] = wanted'[k]
               /\ Reading(k)' /\ wanted'[k] \in Owned => Has(entries', wanted'[k])
    <3>1. CASE k = l
      BY <1>1, <1>4, <1>6, <1>7, <3>1 DEF Readers, Reading
    <3>2. CASE k # l
      BY <1>1, <1>4, <1>5, <1>7, <3>2 DEF Readers, Reading
    <3> QED BY <3>1, <3>2
  <2> QED BY <1>1, <1>7, <2>1 DEF Readers
<1>9. Pins'
  BY <1>1, <1>7, PinsStay DEF AskLease, registry
<1>10. \A k \in Leases : Reading(k)' => Reading(k) /\ wanted'[k] = wanted[k]
  BY <1>5, <1>6 DEF Reading
<1> QED BY <1>2, <1>3, <1>8, <1>9, <1>10, AsideKeeps

LEMMA DropLeaseKeeps ==
  ASSUME ArtifactIInv, Goes, NEW l \in Leases, DropLease(l)
  PROVE  ArtifactIInv'
<1>1. ArtifactTypeOK /\ Readers /\ Pins
  BY DEF ArtifactIInv
<1>2. Aside
  BY DEF Aside, DropLease, registry, disk, rest, ToRun, PathsStay, Unregistered
<1>3. ArtifactTypeOK'
  BY <1>1 DEF DropLease, ArtifactTypeOK, registry, disk, rest
<1>4. \A k \in Leases : k # l => reader'[k] = reader[k]
  BY <1>1 DEF DropLease, ArtifactTypeOK
<1>5. reader'[l] = "dropped" /\ reader[l] = "asked"
  BY <1>1 DEF DropLease, ArtifactTypeOK
<1>6. \A k \in Leases : Reading(k)' <=> Reading(k)
  BY <1>4, <1>5 DEF Reading
<1>7. /\ UNCHANGED <<leases, entries, registryClosed, pins, receipts, wanted>> /\ Known' = Known
      /\ \A k \in Leases : ToRun("lease", k)' <=> ToRun("lease", k)
  BY DEF DropLease, ToRun, registry, Known
<1>8. Readers'
  <2>1. \A k \in Leases : ToRun("lease", k)' => reader'[k] \in {"asked", "dropped"}
    BY <1>1, <1>4, <1>5, <1>7 DEF Readers
  <2> QED BY <1>1, <1>6, <1>7, <2>1 DEF Readers
<1>9. Pins'
  BY <1>1, <1>7, PinsStay DEF DropLease, registry
<1> QED BY <1>2, <1>3, <1>6, <1>7, <1>8, <1>9, AsideKeeps

\* A lease gives its pin back, and only a closed registry has none for it.
LEMMA ReleaseLeaseKeeps ==
  ASSUME ArtifactIInv, Goes, NEW l \in Leases, ReleaseLease(l)
  PROVE  ArtifactIInv'
<1>1. ArtifactTypeOK /\ Readers /\ Pins
  BY DEF ArtifactIInv
<1>2. Aside
  BY DEF Aside, ReleaseLease, registry, disk, rest, ToRun, PathsStay, Unregistered
<1>3. ArtifactTypeOK'
  <2>1. pins' \in [Items -> Int]
    BY <1>1 DEF ReleaseLease, ArtifactTypeOK
  <2> QED BY <1>1, <2>1 DEF ReleaseLease, ArtifactTypeOK, registry, disk, rest
<1>4. \A k \in Leases : k # l => reader'[k] = reader[k] /\ wanted'[k] = wanted[k] /\ leases'[k] = leases[k]
  BY <1>1 DEF ReleaseLease, ArtifactTypeOK
<1>5. reader'[l] = "idle" /\ leases'[l] = NoItem /\ Reading(l)
  BY <1>1 DEF ReleaseLease, ArtifactTypeOK, Reading
<1>6. /\ UNCHANGED <<entries, registryClosed, receipts>> /\ Known' = Known
      /\ \A k \in Leases : ToRun("lease", k)' <=> ToRun("lease", k)
  BY DEF ReleaseLease, ToRun, Known
<1>7. Readers'
  <2>1. ASSUME NEW k \in Leases
        PROVE  /\ ToRun("lease", k)' => reader'[k] \in {"asked", "dropped"}
               /\ ToRun("lease", k)' \/ Reading(k)' => wanted'[k] \in Known'
               /\ ~Reading(k)' => leases'[k] = NoItem
               /\ Reading(k)' /\ ~registryClosed' => leases'[k] = wanted'[k]
               /\ Reading(k)' /\ wanted'[k] \in Owned => Has(entries', wanted'[k])
    <3>1. CASE k = l
      <4>1. ~ToRun("lease", k)
        BY <1>1, <1>5, <3>1 DEF Readers, Reading
      <4> QED BY <1>5, <1>6, <3>1, <4>1 DEF Reading
    <3>2. CASE k # l
      BY <1>1, <1>4, <1>6, <3>2 DEF Readers, Reading
    <3> QED BY <3>1, <3>2
  <2>2. {k \in Leases : leases'[k] # NoItem} \in SUBSET {k \in Leases : leases[k] # NoItem}
    BY <1>4, <1>5
  <2>3. IsFiniteSet({k \in Leases : leases[k] # NoItem})
    BY <1>1 DEF Readers
  <2>4. IsFiniteSet({k \in Leases : leases'[k] # NoItem})
    BY <2>2, <2>3, FS_Subset
  <2> QED BY <2>1, <2>4 DEF Readers
<1>8. Pins'
  <2> SUFFICES ASSUME ~registryClosed, NEW i \in Items
               PROVE  pins'[i] = Cardinality(Holders(i)') + (IF i \in receipts THEN 1 ELSE 0)
    BY <1>6 DEF Pins
  <2>1. /\ IsFiniteSet(Holders(i)) /\ Cardinality(Holders(i)) \in Nat
        /\ \A k \in Leases : leases[k] = i => Cardinality(Holders(i)) # 0
    BY <1>1, HoldersFacts
  <2>2. pins[i] = Cardinality(Holders(i)) + (IF i \in receipts THEN 1 ELSE 0)
    BY <1>1 DEF Pins
  <2>3. leases[l] = wanted[l]
    BY <1>1, <1>5 DEF Readers
  <2>4. CASE i = leases[l]
    <3>1. i # NoItem
      BY Parameters
    <3>2. Holders(i)' = Holders(i) \ {l} /\ l \in Holders(i)
      BY <1>4, <1>5, <2>4, <3>1 DEF Holders
    <3>3. Cardinality(Holders(i)') = Cardinality(Holders(i)) - 1 /\ Cardinality(Holders(i)) # 0
      BY <2>1, <2>4, <3>2, FS_RemoveElement
    <3>4. pins'[i] = IF pins[i] > 1 THEN pins[i] - 1 ELSE 0
      BY <1>1, <2>4, <3>1 DEF ReleaseLease, ArtifactTypeOK
    <3> QED BY <2>1, <2>2, <3>3, <3>4
  <2>5. CASE i # leases[l]
    <3>1. i # NoItem
      BY Parameters
    <3>2. Holders(i)' = Holders(i)
      BY <1>4, <1>5, <2>5, <3>1 DEF Holders
    <3>3. pins'[i] = pins[i]
      BY <1>1, <2>5 DEF ReleaseLease, ArtifactTypeOK
    <3> QED BY <2>2, <3>2, <3>3
  <2> QED BY <2>4, <2>5
<1>9. \A k \in Leases : Reading(k)' => Reading(k) /\ wanted'[k] = wanted[k]
  BY <1>4, <1>5 DEF Reading
<1> QED BY <1>2, <1>3, <1>7, <1>8, <1>9, AsideKeeps

\* and the close of the registry.
LEMMA CloseRegistryKeeps ==
  ASSUME ArtifactIInv, Goes, CloseRegistry
  PROVE  ArtifactIInv'
<1>1. ArtifactTypeOK /\ Readers /\ Pins
  BY DEF ArtifactIInv
<1>2. \A o, x : x # NoItem => (ToRun(o, x)' <=> ToRun(o, x))
  BY DEF CloseRegistry, ToRun
<1>w. \A l \in Leases : ToRun("lease", l)' <=> ToRun("lease", l)
  BY DEF CloseRegistry, ToRun
<1>3. Aside
  <2>1. \A u \in Uploads : \A op \in Ops : ToRun(op, u)' <=> ToRun(op, u)
    BY <1>2, NoUpload
  <2>2. PathsStay
    BY <1>2, NoUpload DEF CloseRegistry, clients, PathsStay, Unregistered
  <2> QED BY <2>1, <2>2 DEF Aside, CloseRegistry, clients, disk, rest
<1>4. ArtifactTypeOK'
  <2>1. "close" \in Ops
    BY DEF Ops
  <2> QED BY <1>1, <2>1 DEF CloseRegistry, ArtifactTypeOK, clients, disk, rest
<1>5. Readers'
  <2>1. Known \subseteq Known'
    BY DEF CloseRegistry, clients, Known
  <2>2. \A l \in Leases : Reading(l) /\ wanted[l] \in Owned => Has(entries', wanted[l])
    BY <1>1 DEF CloseRegistry, Readers
  <2> QED BY <1>1, <1>w, <2>1, <2>2, ReadersStay DEF CloseRegistry, clients
<1>6. Pins'
  BY <1>1, PinsStay DEF CloseRegistry
<1>7. \A l \in Leases : Reading(l)' => Reading(l) /\ wanted'[l] = wanted[l]
  BY DEF CloseRegistry, clients, Reading
<1> QED BY <1>3, <1>4, <1>5, <1>6, <1>7, AsideKeeps

LEMMA CloseGivesUpKeeps ==
  ASSUME ArtifactIInv, Goes, CloseGivesUp
  PROVE  ArtifactIInv'
<1>1. ArtifactTypeOK /\ Readers /\ Pins
  BY DEF ArtifactIInv
<1>2. \A o, x : ToRun(o, x)' => ToRun(o, x)
  BY DEF CloseGivesUp, Ended, ToRun
<1>3. Aside
  <2>1. \A u \in Uploads : \A op \in Ops : ToRun(op, u)' <=> ToRun(op, u)
    BY NoUpload DEF CloseGivesUp, Ended, ToRun
  <2>2. PathsStay
    BY <1>2 DEF CloseGivesUp, clients, PathsStay, Unregistered
  <2> QED BY <2>1, <2>2 DEF Aside, CloseGivesUp, Ended, registry, clients, disk, rest, ToRun
<1>4. ArtifactTypeOK'
  BY <1>1 DEF CloseGivesUp, Ended, ArtifactTypeOK, registry, clients, disk, rest
<1>5. Readers'
  <2>1. Known \subseteq Known'
    BY DEF CloseGivesUp, clients, Known
  <2>2. \A l \in Leases : Reading(l) /\ wanted[l] \in Owned => Has(entries', wanted[l])
    BY <1>1 DEF CloseGivesUp, registry, Readers
  <2> QED BY <1>1, <1>2, <2>1, <2>2, ReadersStay DEF CloseGivesUp, registry, clients
<1>6. Pins'
  BY <1>1, PinsStay DEF CloseGivesUp, registry
<1>7. \A l \in Leases : Reading(l)' => Reading(l) /\ wanted'[l] = wanted[l]
  BY DEF CloseGivesUp, clients, Reading
<1> QED BY <1>3, <1>4, <1>5, <1>6, <1>7, AsideKeeps

-----------------------------------------------------------------------------
(* The threads of the registry. *)

\* The lists gain only `met` ones, which nobody waits for any more.
LEMMA NewComersStay ==
  ASSUME NewComers, NobodyReturns, PathsStay, NEW met,
         \A u \in Uploads : u \in met => ~Unpublished(u)',
         \A p \in Paths : p \in met => ~Unregistered(p)',
         \A i \in Items : ~Foreign(i)' => i \in met \/ ~Foreign(i),
         \A i \in Uploads : i \in pending' \cup manifest'.pending =>
              i \in met \cup pending \cup manifest.pending \/ ~Foreign(i),
         receipts' \subseteq receipts \cup met,
         \A u \in Uploads \ met : file'[u] = "bin" /\ moving' # u => file[u] = "bin" /\ moving # u
  PROVE  NewComers'
<1>1. ASSUME NEW u \in Uploads, Unpublished(u)'
      PROVE  /\ Foreign(u)' /\ u \notin pending' \cup manifest'.pending \cup receipts'
             /\ moving' # u => file'[u] # "bin"
  <2>1. u \notin met /\ Unpublished(u) /\ u \in Items
    BY <1>1 DEF NobodyReturns, Items, Owned
  <2>2. /\ Foreign(u) /\ u \notin pending \cup manifest.pending \cup receipts
        /\ moving # u => file[u] # "bin"
    BY <2>1 DEF NewComers
  <2> QED BY <2>1, <2>2
<1>2. ASSUME NEW p \in Paths, Unregistered(p)' PROVE Foreign(p)'
  <2>1. Unregistered(p) /\ p \notin met /\ p \in Items
    BY <1>2 DEF PathsStay, Items
  <2> QED BY <2>1 DEF NewComers
<1> QED BY <1>1, <1>2 DEF NewComers

\* The same when the lists gain none.
LEMMA NoNewComers ==
  ASSUME NewComers, NobodyReturns, PathsStay,
         \A i \in Items : ~Foreign(i)' => ~Foreign(i),
         \A i \in Uploads : i \in pending' \cup manifest'.pending =>
              i \in pending \cup manifest.pending \/ ~Foreign(i),
         receipts' \subseteq receipts,
         \A u \in Uploads : file'[u] = "bin" /\ moving' # u => file[u] = "bin" /\ moving # u
  PROVE  NewComers'
<1>1. ASSUME NEW u \in Uploads, Unpublished(u)'
      PROVE  /\ Foreign(u)' /\ u \notin pending' \cup manifest'.pending \cup receipts'
             /\ moving' # u => file'[u] # "bin"
  <2>1. Unpublished(u) /\ u \in Items
    BY <1>1 DEF NobodyReturns, Items, Owned
  <2>2. /\ Foreign(u) /\ u \notin pending \cup manifest.pending \cup receipts
        /\ moving # u => file[u] # "bin"
    BY <2>1 DEF NewComers
  <2> QED BY <2>1, <2>2
<1>2. ASSUME NEW p \in Paths, Unregistered(p)' PROVE Foreign(p)'
  <2>1. Unregistered(p) /\ p \in Items
    BY <1>2 DEF PathsStay, Items
  <2> QED BY <2>1 DEF NewComers
<1> QED BY <1>1, <1>2 DEF NewComers

\* An operation meets one fault at most.
LEMMA MeetsFacts ==
  ASSUME ArtifactTypeOK, NEW fault, Meets(fault), UNCHANGED traffic
  PROVE  faults' \in 0..traffic'.faults
<1>1. traffic.faults \in Nat /\ faults \in 0..traffic.faults
  BY ArtifactAssumption DEF ArtifactAssumption, ArtifactTypeOK
<1>2. faults' = faults \/ (faults < traffic.faults /\ faults' = faults + 1)
  BY DEF Meets
<1> QED BY <1>1, <1>2

\* What earlier runs have stored is owned.
LEMMA StoredIsOwned ==
  ASSUME ArtifactTypeOK
  PROVE  \A i \in ToSet(traffic.stored) : i \in Stored /\ i \in Owned
<1>1. traffic.stored \in Seq(Stored)
  BY ArtifactAssumption DEF ArtifactAssumption, ArtifactTypeOK
<1> QED BY <1>1 DEF ToSet, Owned

\* The entries are put in another order or lose a file of the runtime, and the
\* manifest is left or written anew.
Trims ==
  /\ UNCHANGED <<file, pending, guards, receipts, victims, degraded, request, cancelled, moving,
                 traffic, evicted, kept>>
  /\ moving = NoItem
  /\ Distinct(entries') /\ Len(entries') <= Len(entries)
  /\ ToSet(entries') \subseteq ToSet(entries)
  /\ ToSet(entries) \cap Owned \subseteq ToSet(entries')
  /\ manifest' = manifest \/ (~degraded /\ manifest' = Disk(entries', pending))
  /\ \A u \in Uploads : \A op \in Ops : ToRun(op, u)' <=> ToRun(op, u)
  /\ PathsStay
  /\ UNCHANGED registryClosed
  /\ ToRun("close", NoItem)' => ToRun("close", NoItem)

\* Such steps keep the invariant.
LEMMA TrimsKeeps ==
  ASSUME ArtifactIInv, Goes, Trims, ArtifactTypeOK', Readers', Pins'
  PROVE  ArtifactIInv'
<1>1. ArtifactTypeOK /\ Course /\ Shelf
  BY DEF ArtifactIInv
<1>2. NewComers /\ Lists /\ Files /\ Guards /\ Agreement /\ Degraded /\ History
  BY <1>1 DEF Shelf
<1>3. /\ UNCHANGED <<file, pending, guards, receipts, victims, degraded, request, cancelled, moving,
                     traffic, evicted, kept>>
      /\ moving = NoItem /\ PathsStay
      /\ Distinct(entries') /\ Len(entries') <= Len(entries)
      /\ ToSet(entries') \subseteq ToSet(entries)
      /\ ToSet(entries) \cap Owned \subseteq ToSet(entries')
      /\ \A u \in Uploads : \A op \in Ops : ToRun(op, u)' <=> ToRun(op, u)
  BY DEF Trims
<1>4. \/ manifest' = manifest
      \/ ~degraded /\ manifest'.items = entries' /\ manifest'.pending = pending
  BY DEF Trims, Disk
<1>5. Phases' /\ Receipts' /\ NobodyReturns
  BY <1>1, <1>3, NoUploadMoves DEF Course
<1>6. Course'
  <2>1. Movement' /\ Closing'
    BY <1>1, <1>3 DEF Trims, Course, Movement, Closing
  <2> QED BY <1>5, <2>1 DEF Course
<1>7. Plan'
  BY <1>3 DEF Plan
<1>8. \A i : Has(entries', i) => Has(entries, i)
  BY <1>3 DEF Has
<1>9. \A i \in Owned : Has(entries', i) <=> Has(entries, i)
  BY <1>3 DEF Has
<1>10. \A i \in Owned : Has(manifest'.items, i) <=> Has(manifest.items, i)
  BY <1>2, <1>4, <1>9 DEF Agreement, Goes
<1>11. NewComers'
  <2>1. \A i \in Items : ~Foreign(i)' => ~Foreign(i)
    BY <1>3, <1>4, <1>8 DEF Foreign
  <2>2. \A i \in Uploads : i \in pending' \cup manifest'.pending => i \in pending \cup manifest.pending
    BY <1>3, <1>4
  <2> QED BY <1>2, <1>3, <1>5, <2>1, <2>2, NoNewComers
<1>12. Lists'
  <2>1. Len(entries') \in Nat /\ Len(entries) \in Nat
    BY <1>1 DEF ArtifactTypeOK
  <2>2. Len(entries') <= MaxEntries
    BY <1>2, <1>3, <2>1, Parameters DEF Lists
  <2>3. Distinct(manifest'.items) /\ Len(manifest'.items) <= MaxEntries
    BY <1>2, <1>3, <1>4, <2>2 DEF Lists, Distinct
  <2>4. \A u \in receipts : u \in Owned
    BY <1>1 DEF ArtifactTypeOK, Owned
  <2>5. ASSUME NEW u \in receipts'
        PROVE  /\ Has(entries, u)' /\ Len(victims'[u]) <= 1
               /\ \A i \in ToSet(victims'[u]) : ~Has(entries, i)'
               /\ \A x \in receipts' \ {u} : ToSet(victims'[u]) \cap ToSet(victims'[x]) = {}
    <3>1. /\ Has(entries, u) /\ Len(victims[u]) <= 1
          /\ \A i \in ToSet(victims[u]) : ~Has(entries, i)
          /\ \A x \in receipts \ {u} : ToSet(victims[u]) \cap ToSet(victims[x]) = {}
      BY <1>2, <1>3, <2>5 DEF Lists
    <3> QED BY <1>3, <1>8, <1>9, <2>4, <2>5, <3>1 DEF Has
  <2>6. Distinct(entries)' /\ Distinct(manifest.items)'
    BY <1>3, <2>3 DEF Distinct
  <2> QED BY <2>2, <2>3, <2>5, <2>6 DEF Lists
<1>13. Files'
  <2>1. Physical(file)' <= MaxBytes
    BY <1>2, <1>3 DEF Files, Physical
  <2> QED BY <1>2, <1>3, <1>4, <1>8, <1>10, <2>1 DEF Files, Has
<1>14. Guards'
  BY <1>2, <1>3 DEF Guards, Protectors, Has
<1>15. Agreement'
  BY <1>2, <1>3, <1>9, <1>10 DEF Agreement, Goes, Has
<1>16. Degraded'
  <2>1. entries = <<>> => entries' = <<>>
    <3>1. entries' \in Seq(Items) /\ (entries = <<>> => Len(entries') <= 0)
      BY <1>3 DEF ArtifactTypeOK
    <3> QED BY <3>1
  <2> QED BY <1>2, <1>3, <2>1 DEF Degraded
<1>17. History'
  <2>1. \A i \in ToSet(traffic.stored) : i \in Owned
    BY <1>1, StoredIsOwned
  <2>2. \A u \in Uploads : u \in Owned
    BY DEF Owned
  <2> QED BY <1>2, <1>3, <1>9, <1>10, <2>1, <2>2 DEF History, Has
<1>18. Down'
  BY DEF Goes, Down
<1> QED BY <1>6, <1>7, <1>11, <1>12, <1>13, <1>14, <1>15, <1>16, <1>17, <1>18 DEF ArtifactIInv, Shelf

\* close(): the manifest is what memory is.
LEMMA CloseRunsKeeps ==
  ASSUME ArtifactIInv, Goes, NEW fault, CloseRuns(fault)
  PROVE  ArtifactIInv'
<1>1. ArtifactTypeOK /\ Course /\ Lists /\ Readers
  BY DEF ArtifactIInv, Shelf
<1>2. registryClosed /\ moving = NoItem
  BY <1>1 DEF CloseRuns, Run, ToRun, Course, Closing
<1>3. /\ UNCHANGED <<file, entries, pending, guards, receipts, victims, degraded, registryClosed,
                     request, cancelled, moving, traffic, evicted, kept, reader, wanted, registering>>
      /\ manifest' = manifest \/ (~degraded /\ manifest' = Disk(entries, pending))
  BY DEF CloseRuns, clients
<1>4. \A o, x : ToRun(o, x)' => ToRun(o, x)
  BY DEF CloseRuns, Ended, ToRun
<1>5. Trims
  <2>1. \A u \in Uploads : \A op \in Ops : ToRun(op, u)' <=> ToRun(op, u)
    BY NoUpload DEF CloseRuns, Ended, ToRun
  <2>2. PathsStay
    BY <1>3, <1>4 DEF PathsStay, Unregistered
  <2>3. Distinct(entries') /\ Len(entries') <= Len(entries) /\ Len(entries) \in Nat
    BY <1>1, <1>3 DEF Lists, Distinct, ArtifactTypeOK
  <2> QED BY <1>2, <1>3, <1>4, <2>1, <2>2, <2>3 DEF Trims
<1>6. Pins'
  BY <1>2, <1>3 DEF Pins
<1>7. Readers'
  <2>1. {l \in Leases : leases'[l] # NoItem} = {} /\ \A l \in Leases : leases'[l] = NoItem
    BY DEF CloseRuns
  <2>2. IsFiniteSet({l \in Leases : leases'[l] # NoItem})
    BY <2>1, FS_EmptySet
  <2>3. Known' = Known /\ \A l \in Leases : Reading(l)' <=> Reading(l)
    BY <1>3 DEF Known, Reading
  <2> QED BY <1>1, <1>2, <1>3, <1>4, <2>1, <2>2, <2>3 DEF Readers
<1>8. ArtifactTypeOK'
  <2>1. manifest' \in [items : Seq(Items), pending : SUBSET Owned]
    BY <1>1, <1>3 DEF ArtifactTypeOK, Disk
  <2>2. faults' \in 0..traffic'.faults
    BY <1>1, <1>3, MeetsFacts DEF CloseRuns
  <2> QED BY <1>1, <2>1, <2>2 DEF CloseRuns, Ended, ArtifactTypeOK, clients
<1> QED BY <1>5, <1>6, <1>7, <1>8, TrimsKeeps

\* A registration whose caller has gone is taken back.
LEMMA DiscardRunsKeeps ==
  ASSUME ArtifactIInv, Goes, NEW p \in Paths, NEW fault, DiscardRuns(p, fault)
  PROVE  ArtifactIInv'
<1>1. ArtifactTypeOK /\ Course /\ Lists /\ Readers /\ Pins /\ Degraded
  BY DEF ArtifactIInv, Shelf
<1>2. /\ UNCHANGED <<file, pending, guards, receipts, victims, degraded, registryClosed, pins, leases,
                     request, cancelled, moving, traffic, evicted, kept, reader, wanted, registering>>
      /\ moving = NoItem
      /\ threads' = Ended("discard", p)
  BY DEF DiscardRuns, clients, Run
<1>3. /\ \A o, x : ToRun(o, x)' => ToRun(o, x)
      /\ \A u \in Uploads : \A op \in Ops : ToRun(op, u)' <=> ToRun(op, u)
  BY <1>2, NoUpload DEF Ended, ToRun
<1>4. /\ entries' \in Seq(Items) /\ Distinct(entries') /\ Len(entries') <= Len(entries)
      /\ ToSet(entries') \subseteq ToSet(entries)
      /\ ToSet(entries) \cap Owned \subseteq ToSet(entries')
      /\ manifest' = manifest \/ (~degraded /\ manifest' = Disk(entries', pending))
  <2>1. CASE Has(entries, p) /\ fault # "save"
    <3>1. entries' = Without(entries, {p}) /\ manifest' = Disk(entries', pending)
      BY <2>1 DEF DiscardRuns
    <3>2. entries \in Seq(Items) /\ Distinct(entries)
      BY <1>1 DEF ArtifactTypeOK, Lists
    <3>3. /\ entries' \in Seq(Items) /\ ToSet(entries') = ToSet(entries) \ {p}
          /\ Distinct(entries') /\ Len(entries') <= Len(entries)
      BY <3>1, <3>2, DropFacts
    <3>4. p \notin Owned /\ ~degraded
      BY <1>1, <2>1, NoUpload DEF Degraded, Has, ToSet
    <3> QED BY <3>1, <3>3, <3>4
  <2>2. CASE ~(Has(entries, p) /\ fault # "save")
    <3>1. entries' = entries /\ manifest' = manifest
      BY <2>2 DEF DiscardRuns
    <3>2. entries \in Seq(Items) /\ Distinct(entries) /\ Len(entries) \in Nat
      BY <1>1 DEF ArtifactTypeOK, Lists
    <3> QED BY <3>1, <3>2 DEF Distinct
  <2> QED BY <2>1, <2>2
<1>5. Trims
  <2>1. PathsStay
    BY <1>2, <1>3 DEF PathsStay, Unregistered
  <2> QED BY <1>2, <1>3, <1>4, <2>1 DEF Trims
<1>6. Pins'
  BY <1>1, <1>2, PinsStay
<1>7. Readers'
  <2>1. Known \subseteq Known'
    BY <1>2 DEF Known
  <2>2. \A l \in Leases : Reading(l) /\ wanted[l] \in Owned => Has(entries', wanted[l])
    BY <1>1, <1>4 DEF Readers, Has
  <2> QED BY <1>1, <1>2, <1>3, <2>1, <2>2, ReadersStay
<1>8. ArtifactTypeOK'
  <2>1. manifest' \in [items : Seq(Items), pending : SUBSET Owned]
    BY <1>1, <1>4 DEF ArtifactTypeOK, Disk
  <2>2. faults' \in 0..traffic'.faults
    BY <1>1, <1>2, MeetsFacts DEF DiscardRuns
  <2>3. present' = present
    BY DEF DiscardRuns
  <2> QED BY <1>1, <1>2, <1>4, <2>1, <2>2, <2>3 DEF Ended, ArtifactTypeOK
<1> QED BY <1>5, <1>6, <1>7, <1>8, TrimsKeeps

\* A reader gets the file, or an entry whose file has gone goes as well.
LEMMA LeaseRunsKeeps ==
  ASSUME ArtifactIInv, Goes, NEW l \in Leases, NEW fault, LeaseRuns(l, fault)
  PROVE  ArtifactIInv'
<1> DEFINE i == wanted[l]
           found == ~registryClosed /\ Has(entries, i)
           taken == found /\ Valid(i)
<1>1. ArtifactTypeOK /\ Course /\ Lists /\ Files /\ Readers /\ Pins /\ Degraded
  BY DEF ArtifactIInv, Shelf
<1>2. /\ UNCHANGED <<file, pending, guards, receipts, victims, degraded, registryClosed,
                     request, cancelled, moving, traffic, evicted, kept, registering>>
      /\ moving = NoItem /\ ToRun("lease", l)
      /\ threads' = Ended("lease", l)
  BY DEF LeaseRuns, Run, ToRun
<1>3. /\ entries' = CASE taken -> Append(Without(entries, {i}), i)
                      [] found /\ ~taken -> Without(entries, {i})
                      [] OTHER -> entries
      /\ manifest' = IF found /\ ~taken /\ fault # "save" THEN Disk(entries', pending) ELSE manifest
      /\ leases' = IF taken THEN [leases EXCEPT ![l] = i] ELSE leases
      /\ pins' = IF taken THEN [pins EXCEPT ![i] = @ + 1] ELSE pins
      /\ reader' = [reader EXCEPT ![l] = IF ~taken THEN "idle"
                                         ELSE IF @ = "dropped" THEN "detached" ELSE "held"]
      /\ wanted' = IF taken THEN wanted ELSE [wanted EXCEPT ![l] = NoItem]
  BY DEF LeaseRuns
<1>4. i \in Items /\ i \in Known /\ i # NoItem /\ leases[l] = NoItem
  <2>1. i \in Known /\ leases[l] = NoItem
    BY <1>1, <1>2 DEF Readers, Reading
  <2> QED BY <2>1, Parameters DEF Known, Items, Owned
<1>5. found /\ ~taken => i \notin Owned
  BY <1>1 DEF Files, Valid
<1>t. entries \in Seq(Items) /\ Distinct(entries) /\ Len(entries) \in Nat
  BY <1>1 DEF ArtifactTypeOK, Lists
<1> HIDE DEF taken
<1>6. /\ entries' \in Seq(Items) /\ Distinct(entries') /\ Len(entries') <= Len(entries)
      /\ ToSet(entries') \subseteq ToSet(entries)
      /\ ToSet(entries) \cap Owned \subseteq ToSet(entries')
      /\ taken => Has(entries', i)
  <2> DEFINE w == Without(entries, {i})
  <2>1. /\ w \in Seq(Items) /\ ToSet(w) = ToSet(entries) \ {i} /\ Distinct(w) /\ Len(w) <= Len(entries)
        /\ (i \in ToSet(entries) => Len(w) < Len(entries)) /\ Len(w) \in Nat
    BY <1>t, DropFacts
  <2> HIDE DEF w
  <2>2. CASE taken
    <3>1. i \in ToSet(entries)
      BY <2>2 DEF Has, taken
    <3>2. /\ Append(w, i) \in Seq(Items) /\ Len(Append(w, i)) = Len(w) + 1
          /\ ToSet(Append(w, i)) = ToSet(w) \cup {i}
          /\ i \notin ToSet(w) => Distinct(Append(w, i))
      BY <1>4, <2>1, AddedFacts
    <3>3. entries' = Append(w, i)
      BY <1>3, <2>2 DEF w
    <3> QED BY <1>t, <2>1, <3>1, <3>2, <3>3 DEF Has
  <2>3. CASE found /\ ~taken
    <3>1. entries' = w
      BY <1>3, <2>3 DEF w
    <3> QED BY <1>5, <2>1, <2>3, <3>1
  <2>4. CASE ~found
    <3>1. entries' = entries /\ ~taken
      BY <1>3, <2>4 DEF taken
    <3> QED BY <1>t, <3>1 DEF Distinct
  <2> QED BY <2>2, <2>3, <2>4 DEF taken
<1>7. /\ \A o, x : ToRun(o, x)' => ToRun(o, x)
      /\ ~ToRun("lease", l)'
      /\ \A u \in Uploads : \A op \in Ops : ToRun(op, u)' <=> ToRun(op, u)
  BY <1>2, NoUpload DEF Ended, ToRun
<1>8. Trims
  <2>1. PathsStay
    BY <1>2, <1>7 DEF PathsStay, Unregistered
  <2>2. found => ~degraded
    BY <1>1 DEF Degraded, Has, ToSet
  <2> QED BY <1>2, <1>3, <1>6, <1>7, <2>1, <2>2 DEF Trims
<1>9. leases \in [Leases -> Items \cup {NoItem}] /\ reader \in [Leases -> {"idle", "asked", "held", "dropped", "detached"}]
      /\ wanted \in [Leases -> Items \cup {NoItem}] /\ pins \in [Items -> Int]
  BY <1>1 DEF ArtifactTypeOK
<1>10. ASSUME ~registryClosed', NEW x \in Items
       PROVE  pins'[x] = Cardinality(Holders(x)') + (IF x \in receipts' THEN 1 ELSE 0)
  <2>1. pins[x] = Cardinality(Holders(x)) + (IF x \in receipts THEN 1 ELSE 0)
    BY <1>1, <1>2, <1>10 DEF Pins
  <2>2. IsFiniteSet(Holders(x)) /\ Cardinality(Holders(x)) \in Nat
    BY <1>1, HoldersFacts
  <2>3. CASE taken /\ x = i
    <3>1. Holders(x)' = Holders(x) \cup {l} /\ l \notin Holders(x)
      BY <1>3, <1>4, <1>9, <2>3 DEF Holders
    <3>2. Cardinality(Holders(x) \cup {l}) = Cardinality(Holders(x)) + 1
      BY <2>2, <3>1, FS_AddElement
    <3>3. pins'[x] = pins[x] + 1
      BY <1>3, <1>9, <2>3
    <3> QED BY <1>2, <2>1, <2>2, <3>1, <3>2, <3>3
  <2>4. CASE ~(taken /\ x = i)
    <3>1. Holders(x)' = Holders(x)
      BY <1>3, <1>4, <1>9, <2>4, Parameters DEF Holders
    <3>2. pins'[x] = pins[x]
      BY <1>3, <1>9, <2>4
    <3> QED BY <1>2, <2>1, <3>1, <3>2
  <2> QED BY <2>3, <2>4
<1>11. Pins'
  BY <1>10 DEF Pins
<1>12. Readers'
  <2>1. IsFiniteSet({x \in Leases : leases'[x] # NoItem})
    <3>1. IsFiniteSet({x \in Leases : leases[x] # NoItem})
      BY <1>1 DEF Readers
    <3>2. IsFiniteSet({x \in Leases : leases[x] # NoItem} \cup {l})
      BY <3>1, FS_AddElement
    <3>3. {x \in Leases : leases'[x] # NoItem} \in SUBSET ({x \in Leases : leases[x] # NoItem} \cup {l})
      BY <1>3, <1>9
    <3> QED BY <3>2, <3>3, FS_Subset
  <2>2. Known' = Known
    BY <1>2 DEF Known
  <2>3. ASSUME NEW x \in Leases
        PROVE  /\ ToRun("lease", x)' => reader'[x] \in {"asked", "dropped"}
               /\ ToRun("lease", x)' \/ Reading(x)' => wanted'[x] \in Known
               /\ ~Reading(x)' => leases'[x] = NoItem
               /\ Reading(x)' /\ ~registryClosed' => leases'[x] = wanted'[x]
               /\ Reading(x)' /\ wanted'[x] \in Owned => Has(entries', wanted'[x])
    <3>1. /\ ToRun("lease", x) => reader[x] \in {"asked", "dropped"}
          /\ ToRun("lease", x) \/ Reading(x) => wanted[x] \in Known
          /\ ~Reading(x) => leases[x] = NoItem
          /\ Reading(x) /\ ~registryClosed => leases[x] = wanted[x]
          /\ Reading(x) /\ wanted[x] \in Owned => Has(entries, wanted[x])
      BY <1>1 DEF Readers
    <3>2. CASE x # l
      <4>1. reader'[x] = reader[x] /\ wanted'[x] = wanted[x] /\ leases'[x] = leases[x]
        BY <1>3, <1>9, <3>2
      <4>2. wanted[x] \in Owned => (Has(entries, wanted[x]) => Has(entries', wanted[x]))
        BY <1>6 DEF Has
      <4> QED BY <1>2, <1>7, <3>1, <4>1, <4>2 DEF Reading
    <3>3. CASE x = l
      <4>1. CASE taken
        <5>1. wanted'[x] = i /\ leases'[x] = i /\ reader'[x] \in {"held", "detached"}
          BY <1>3, <1>9, <3>3, <4>1
        <5> QED BY <1>4, <1>6, <1>7, <3>3, <4>1, <5>1 DEF Reading
      <4>2. CASE ~taken
        <5>1. reader'[x] = "idle" /\ leases'[x] = NoItem
          BY <1>3, <1>4, <1>9, <3>3, <4>2
        <5> QED BY <1>7, <3>3, <5>1 DEF Reading
      <4> QED BY <4>1, <4>2
    <3> QED BY <3>2, <3>3
  <2> QED BY <2>1, <2>2, <2>3 DEF Readers
<1>13. ArtifactTypeOK'
  <2>1. manifest' \in [items : Seq(Items), pending : SUBSET Owned]
    BY <1>1, <1>3, <1>6 DEF ArtifactTypeOK, Disk
  <2>2. faults' \in 0..traffic'.faults
    BY <1>1, <1>2, MeetsFacts DEF LeaseRuns
  <2>3. /\ leases' \in [Leases -> Items \cup {NoItem}]
        /\ reader' \in [Leases -> {"idle", "asked", "held", "dropped", "detached"}]
        /\ wanted' \in [Leases -> Items \cup {NoItem}] /\ pins' \in [Items -> Int]
    BY <1>3, <1>4, <1>9
  <2>4. present' = present
    BY DEF LeaseRuns
  <2> QED BY <1>1, <1>2, <1>6, <2>1, <2>2, <2>3, <2>4 DEF Ended, ArtifactTypeOK
<1> QED BY <1>8, <1>11, <1>12, <1>13, TrimsKeeps

\* A thread reclaims space: the entries in `ousted` go, those in `met` come, and
\* pending files are deleted.
Trade(ousted, met) ==
  /\ UNCHANGED <<pins, leases, registryClosed, guards, receipts, degraded, reader, wanted, traffic, kept>>
  /\ \A u \in receipts : victims'[u] = victims[u]
  /\ Distinct(entries') /\ Len(entries') <= MaxEntries
  /\ ToSet(entries') = (ToSet(entries) \ ousted) \cup met
  /\ ousted \subseteq ToSet(entries) \ receipts
  /\ \A p \in met : p \in Paths /\ ~Unregistered(p)' /\ \A u \in receipts : ~Has(victims[u], p)
  /\ pending' \subseteq pending \cup (ousted \cap Owned)
  /\ \/ ousted = {} /\ met = {} /\ manifest' = manifest
     \/ /\ ~degraded /\ manifest'.items = entries'
        /\ manifest'.pending \subseteq pending \cup (ousted \cap Owned)
  /\ \A i \in Owned : file[i] = "bin" /\ file'[i] # "bin" =>
       /\ ~degraded /\ (i \in pending \cup ousted \/ Foreign(i))
       /\ \A u \in receipts : ~Has(victims[u], i)
  /\ Physical(file') <= MaxBytes
  /\ evicted' = evicted \cup ousted
  /\ degraded => moving' = NoItem
  /\ \A u \in Uploads : file'[u] = "bin" /\ moving' # u => file[u] = "bin" /\ moving # u
  /\ \A l \in Leases : Reading(l) => wanted[l] \notin ousted
  /\ \A l \in Leases : ToRun("lease", l)' => ToRun("lease", l)
  /\ ToRun("close", NoItem)' => ToRun("close", NoItem)
  /\ PathsStay
  /\ \A u \in Uploads : request'[u] = "done" <=> request[u] = "done"
  /\ \A p \in Paths : registering[p] = "done" => registering'[p] = "done"

\* Whoever reclaims space like that keeps the invariant.
LEMMA TradeKeeps ==
  ASSUME ArtifactIInv, Goes, NEW ousted, NEW met, Trade(ousted, met), ArtifactTypeOK',
         Phases', Receipts', NobodyReturns, Movement', Plan'
  PROVE  ArtifactIInv'
<1>1. ArtifactTypeOK /\ Course /\ Shelf /\ Pins /\ Readers
  BY DEF ArtifactIInv
<1>2. NewComers /\ Lists /\ Files /\ Guards /\ Agreement /\ Degraded /\ History
  BY <1>1 DEF Shelf
<1>3. /\ UNCHANGED <<pins, leases, registryClosed, guards, receipts, degraded, reader, wanted, traffic, kept>>
      /\ \A u \in receipts : victims'[u] = victims[u]
      /\ Distinct(entries') /\ Len(entries') <= MaxEntries
      /\ ToSet(entries') = (ToSet(entries) \ ousted) \cup met
      /\ ousted \subseteq ToSet(entries) \ receipts
      /\ \A p \in met : p \in Paths /\ ~Unregistered(p)' /\ \A u \in receipts : ~Has(victims[u], p)
      /\ pending' \subseteq pending \cup (ousted \cap Owned)
      /\ PathsStay
      /\ evicted' = evicted \cup ousted
      /\ \A u \in Uploads : request'[u] = "done" <=> request[u] = "done"
  BY DEF Trade
<1>4. \/ ousted = {} /\ met = {} /\ manifest' = manifest
      \/ /\ ~degraded /\ manifest'.items = entries'
         /\ manifest'.pending \subseteq pending \cup (ousted \cap Owned)
  BY DEF Trade
<1>5. /\ \A i \in met : i \notin Owned /\ i \in Items
      /\ \A u \in Uploads : u \in Owned /\ u \in Items
      /\ receipts \subseteq Uploads
  BY <1>1, <1>3, NoUpload DEF Items, Owned, ArtifactTypeOK
<1>6. /\ \A i : Has(entries', i) <=> (Has(entries, i) /\ i \notin ousted) \/ i \in met
      /\ \A i \in ousted : Has(entries, i) /\ i \notin receipts
  BY <1>3 DEF Has
<1>7. \A i \in Owned : ~degraded => (Has(manifest.items, i) <=> Has(entries, i))
  BY <1>2 DEF Agreement, Goes
<1>8. NewComers'
  <2>1. \A i \in Items : ~Foreign(i)' => i \in met \/ ~Foreign(i)
    BY <1>3, <1>4, <1>6 DEF Foreign
  <2>2. \A i \in Uploads : i \in pending' \cup manifest'.pending =>
              i \in met \cup pending \cup manifest.pending \/ ~Foreign(i)
    BY <1>3, <1>4, <1>6 DEF Foreign
  <2>3. receipts' \subseteq receipts \cup met
    BY <1>3
  <2>4. \A u \in Uploads \ met : file'[u] = "bin" /\ moving' # u => file[u] = "bin" /\ moving # u
    BY DEF Trade
  <2>5. (\A u \in Uploads : u \in met => ~Unpublished(u)') /\ (\A p \in Paths : p \in met => ~Unregistered(p)')
    BY <1>3, <1>5
  <2> HIDE DEF Trade
  <2> QED BY <1>2, <1>3, <2>1, <2>2, <2>3, <2>4, <2>5, NewComersStay
<1>9. Lists'
  <2>1. Distinct(entries)' /\ Distinct(manifest.items)' /\ Len(manifest'.items) <= MaxEntries
    BY <1>2, <1>3, <1>4 DEF Lists, Distinct
  <2>2. ASSUME NEW u \in receipts'
        PROVE  /\ Has(entries, u)' /\ Len(victims'[u]) <= 1
               /\ \A i \in ToSet(victims'[u]) : ~Has(entries, i)'
               /\ \A x \in receipts' \ {u} : ToSet(victims'[u]) \cap ToSet(victims'[x]) = {}
    <3>1. /\ Has(entries, u) /\ Len(victims[u]) <= 1
          /\ \A i \in ToSet(victims[u]) : ~Has(entries, i)
          /\ \A x \in receipts \ {u} : ToSet(victims[u]) \cap ToSet(victims[x]) = {}
      BY <1>2, <1>3, <2>2 DEF Lists
    <3>2. Has(entries', u)
      BY <1>3, <1>6, <2>2, <3>1
    <3>3. \A i \in ToSet(victims[u]) : ~Has(entries', i)
      BY <1>3, <1>6, <2>2, <3>1 DEF Has
    <3> QED BY <1>3, <2>2, <3>1, <3>2, <3>3 DEF Has
  <2> QED BY <1>3, <2>1, <2>2 DEF Lists
<1>10. Files'
  <2>1. ASSUME NEW i \in Owned
        PROVE  /\ Has(manifest'.items, i) => file'[i] = "bin" /\ i \notin manifest'.pending
               /\ Has(entries', i) => file'[i] = "bin" /\ i \notin pending'
               /\ \A u \in receipts : Has(victims[u], i) => file'[i] = "bin"
    <3>1. /\ Has(manifest.items, i) => file[i] = "bin" /\ i \notin manifest.pending
          /\ Has(entries, i) => file[i] = "bin" /\ i \notin pending
          /\ \A u \in receipts : Has(victims[u], i) => file[i] = "bin"
      BY <1>2 DEF Files
    <3>2. file[i] = "bin" /\ file'[i] # "bin" =>
             /\ ~degraded /\ (i \in pending \cup ousted \/ Foreign(i))
             /\ \A u \in receipts : ~Has(victims[u], i)
      BY DEF Trade
    <3>3. Has(entries', i) => Has(entries, i) /\ i \notin ousted /\ i \notin pending
      BY <1>5, <1>6, <3>1
    <3>4. Has(entries', i) => file'[i] = "bin" /\ i \notin pending'
      BY <1>3, <3>1, <3>2, <3>3 DEF Foreign
    <3>5. Has(manifest'.items, i) => file'[i] = "bin" /\ i \notin manifest'.pending
      <4>1. CASE ousted = {} /\ manifest' = manifest
        BY <1>7, <3>1, <3>2, <4>1 DEF Foreign
      <4>2. CASE manifest'.items = entries' /\ manifest'.pending \subseteq pending \cup (ousted \cap Owned)
        BY <3>3, <3>4, <4>2
      <4> QED BY <1>4, <4>1, <4>2
    <3> QED BY <3>1, <3>2, <3>4, <3>5
  <2>2. Physical(file)' <= MaxBytes
    BY DEF Trade, Physical
  <2> QED BY <1>3, <2>1, <2>2 DEF Files, Has
<1>11. Guards'
  BY <1>2, <1>3 DEF Guards, Protectors, Has
<1>12. Agreement'
  <2>1. ASSUME NEW i \in Owned, ~degraded PROVE Has(manifest'.items, i) <=> Has(entries', i)
    BY <1>4, <1>6, <1>7, <2>1
  <2> QED BY <1>3, <2>1 DEF Agreement, Has
<1>13. Degraded'
  <2>1. ASSUME degraded PROVE entries' = <<>>
    <3>1. entries = <<>> /\ ousted = {} /\ met = {}
      BY <1>2, <1>4, <2>1 DEF Degraded
    <3>2. ToSet(entries') = {}
      BY <1>3, <3>1 DEF ToSet
    <3>3. entries' \in Seq(Items)
      BY DEF ArtifactTypeOK
    <3>4. entries' # <<>> => entries'[1] \in ToSet(entries')
      BY <3>3 DEF ToSet
    <3> QED BY <3>2, <3>4
  <2> QED BY <1>2, <1>3, <2>1 DEF Degraded, Trade
<1>14. History'
  <2>1. \A i \in ToSet(traffic.stored) : i \in Owned
    BY <1>1, StoredIsOwned
  <2>2. \A i \in Owned : Has(manifest.items, i) => Has(manifest'.items, i) \/ i \in evicted'
    BY <1>3, <1>4, <1>6, <1>7
  <2>3. \A i \in Owned : Has(manifest'.items, i) \/ Has(entries', i) =>
                            Has(manifest.items, i) \/ Has(entries, i)
    BY <1>4, <1>5, <1>6
  <2> QED BY <1>2, <1>3, <1>5, <2>1, <2>2, <2>3 DEF History, Has
<1>15. Course'
  <2>1. Closing'
    BY <1>1, <1>3 DEF Trade, Course, Closing
  <2> QED BY <2>1 DEF Course
<1>16. Pins'
  BY <1>1, <1>3, PinsStay
<1>17. Readers'
  <2>1. Known \subseteq Known'
    <3>1. \A p \in Paths : registering[p] = "done" => registering'[p] = "done"
      BY DEF Trade
    <3> QED BY <1>3, <3>1, KnownGrows
  <2>2. \A l \in Leases : Reading(l) /\ wanted[l] \in Owned => Has(entries', wanted[l])
    <3>1. \A l \in Leases : Reading(l) => wanted[l] \notin ousted
      BY DEF Trade
    <3> QED BY <1>1, <1>6, <3>1 DEF Readers
  <2>3. \A l \in Leases : ToRun("lease", l)' => ToRun("lease", l)
    BY DEF Trade
  <2> QED BY <1>1, <1>3, <2>1, <2>2, <2>3, ReadersStay
<1>18. Down'
  BY DEF Goes, Down
<1> QED BY <1>8, <1>9, <1>10, <1>11, <1>12, <1>13, <1>14, <1>15, <1>16, <1>17, <1>18
        DEF ArtifactIInv, Shelf

\* The entries that would go are nobody's.
LEMMA PrefixIsFree ==
  ASSUME ArtifactTypeOK, Readers, Pins, Lists, ~registryClosed, NEW n \in 0..Len(Unpinned)
  PROVE  /\ Prefix(n) \subseteq ToSet(entries) \ receipts
         /\ Prefix(n) \subseteq Items
         /\ \A l \in Leases : Reading(l) => wanted[l] \notin Prefix(n)
         /\ n = 0 => Prefix(n) = {}
<1>1. /\ Unpinned \in Seq(Items) /\ ToSet(Unpinned) \subseteq ToSet(entries)
      /\ ToSet(Unpinned) \cap receipts = {}
      /\ \A l \in Leases : Reading(l) => wanted[l] \notin ToSet(Unpinned)
  BY UnpinnedFacts
<1>2. /\ Prefix(n) \subseteq ToSet(Unpinned)
      /\ n = 0 => Prefix(n) = {}
  BY <1>1, PrefixFacts DEF Prefix
<1>3. ToSet(Unpinned) \subseteq Items
  BY <1>1 DEF ToSet
<1> QED BY <1>1, <1>2, <1>3

\* The victims of a chunk more are enough.
LEMMA ForChunkFacts ==
  ASSUME NEW total \in Nat, ForChunk(total) # -1
  PROVE  /\ ForChunk(total) \in 0..Len(Unpinned)
         /\ total + 1 - Cardinality(Prefix(ForChunk(total)) \cap Owned) <= MaxBytes
<1> DEFINE ns == {n \in 0..Len(Unpinned) : total + 1 - Cardinality(Prefix(n) \cap Owned) <= MaxBytes}
<1>1. ns \in SUBSET Nat
  OBVIOUS
<1>2. ForChunk(total) = Least(ns)
  BY DEF ForChunk
<1>3. ns = {} => Least(ns) = -1
  BY <1>1, LeastFacts
<1>4. ns # {} => Least(ns) \in ns
  BY <1>1, LeastFacts
<1> QED BY <1>2, <1>3, <1>4

\* An entry more needs one victim at most.
LEMMA ForEntryFacts ==
  ASSUME ArtifactTypeOK, Lists, Unpinned \in Seq(Items), ForEntry # -1
  PROVE  ForEntry \in 0..Len(Unpinned) /\ Len(entries) - ForEntry < MaxEntries /\ ForEntry <= 1
<1> DEFINE ns == {n \in 0..Len(Unpinned) : Len(entries) - n < MaxEntries}
<1>1. ns \in SUBSET Nat
  OBVIOUS
<1>2. ForEntry = Least(ns)
  BY DEF ForEntry
<1>3. ns = {} => Least(ns) = -1
  BY <1>1, LeastFacts
<1>4. ns # {} => Least(ns) \in ns /\ \A m \in ns : Least(ns) <= m
  BY <1>1, LeastFacts
<1>5. ForEntry \in 0..Len(Unpinned) /\ Len(entries) - ForEntry < MaxEntries
  BY <1>2, <1>3, <1>4
<1>6. Len(entries) \in Nat /\ Len(entries) <= MaxEntries /\ Len(Unpinned) \in Nat /\ MaxEntries \in Nat
  BY Parameters DEF ArtifactTypeOK, Lists
<1>7. ASSUME ~(ForEntry <= 1) PROVE FALSE
  <2>1. 1 \in ns
    BY <1>5, <1>6, <1>7
  <2>2. ForEntry <= 1
    BY <1>2, <1>4, <2>1
  <2> QED BY <1>7, <2>2
<1> QED BY <1>5, <1>7

\* Nothing that a receipt may bring back is reaped.
LEMMA GoneFacts ==
  ASSUME ArtifactTypeOK, Guards, NEW ps \in SUBSET Owned, NEW unlinks
  PROVE  /\ Reaped(ps, guards, unlinks) \subseteq ps
         /\ \A i \in Reaped(ps, guards, unlinks) : \A u \in receipts : ~Has(victims[u], i)
<1>1. receipts \in SUBSET Uploads /\ \A i \in Owned : guards[i] = Cardinality({x \in receipts : Has(victims[x], i)})
  BY DEF ArtifactTypeOK, Guards, Protectors
<1>2. /\ Reaped(ps, guards, unlinks) \subseteq ps
      /\ \A u \in receipts : \A i \in Reaped(ps, guards, unlinks) \cap Owned : ~Has(victims[u], i)
  BY <1>1, ReapedFacts
<1> QED BY <1>2

\* What the end of a write does to the files and the threads.
LEMMA WrittenFacts ==
  ASSUME ArtifactTypeOK, NEW u \in Uploads, NEW f \in [Owned -> Contents], NEW wrote \in BOOLEAN,
         Written(u, f, wrote)
  PROVE  /\ file' \in [Owned -> Contents] /\ \A i \in Owned \ {u} : file'[i] = f[i]
         /\ file'[u] = "none" \/ (file'[u] = "temp" /\ wrote)
         /\ Physical(file') \in Nat /\ Physical(f) \in Nat
         /\ ~wrote => Physical(file') <= Physical(f)
         /\ Physical(file') <= Physical(f) + 1
         /\ request' \in [Uploads -> {"new", "write", "publish", "closing", "ack", "rollback",
                                     "abandon", "done", "over"}]
         /\ cancelled' \subseteq Uploads
         /\ threads' \subseteq Ops \X (Uploads \cup Paths \cup Leases \cup {NoItem})
         /\ request[u] # "done" => \A x \in Uploads : request'[x] = "done" <=> request[x] = "done"
         /\ \A o, x : x # u => (ToRun(o, x)' <=> ToRun(o, x))
<1> DEFINE goes == wrote /\ request[u] = "write" /\ u \notin cancelled
<1>1. /\ file' = [f EXCEPT ![u] = IF goes THEN "temp" ELSE "none"]
      /\ request' = [request EXCEPT ![u] = IF goes THEN "publish" ELSE "over"]
      /\ threads' = Ended("write", u) \cup (IF goes THEN {<<"publish", u>>} ELSE {})
      /\ cancelled' = cancelled \ {u}
  BY DEF Written
<1>2. goes => wrote
  OBVIOUS
<1>3. u \in Owned
  BY DEF Owned
<1> HIDE DEF goes
<1>4. /\ file' \in [Owned -> Contents] /\ \A i \in Owned \ {u} : file'[i] = f[i]
      /\ file'[u] = "none" \/ (file'[u] = "temp" /\ wrote)
  BY <1>1, <1>2, <1>3 DEF Contents
<1>5. \A i \in Owned \ {u} : OnDisk(file', i) => OnDisk(f, i)
  BY <1>4 DEF OnDisk
<1>6. ~wrote => \A i \in Owned : OnDisk(file', i) => OnDisk(f, i)
  BY <1>4, <1>5 DEF OnDisk
<1>7. /\ Physical(file') \in Nat /\ Physical(f) \in Nat
      /\ ~wrote => Physical(file') <= Physical(f)
      /\ Physical(file') <= Physical(f) + 1
  BY <1>3, <1>5, <1>6, PhysicalFacts
<1>8. /\ request' \in [Uploads -> {"new", "write", "publish", "closing", "ack", "rollback",
                                  "abandon", "done", "over"}]
      /\ cancelled' \subseteq Uploads
      /\ request[u] # "done" => \A x \in Uploads : request'[x] = "done" <=> request[x] = "done"
  BY <1>1 DEF ArtifactTypeOK
<1>9. threads' \subseteq Ops \X (Uploads \cup Paths \cup Leases \cup {NoItem})
  <2>1. "publish" \in Ops
    BY DEF Ops
  <2> QED BY <1>1, <2>1 DEF ArtifactTypeOK, Ended
<1>10. \A o, x : x # u => (ToRun(o, x)' <=> ToRun(o, x))
  BY <1>1 DEF ToRun, Ended
<1> QED BY <1>4, <1>7, <1>8, <1>9, <1>10

\* What a write does to the registry: the entries in `ousted` go, and `f` are the
\* files before the own one changes.
Evicts(f, ousted) ==
  /\ f \in [Owned -> Contents]
  /\ \A i \in Owned : f[i] # file[i] =>
       /\ f[i] = "none" /\ ~degraded /\ i \in pending \cup ousted
       /\ \A x \in receipts : ~Has(victims[x], i)
  /\ Physical(f) <= MaxBytes
  /\ ousted \subseteq ToSet(entries) \ receipts
  /\ \A l \in Leases : Reading(l) => wanted[l] \notin ousted
  /\ pending' \subseteq pending \cup (ousted \cap Owned)

\* Reaping alone is such a write.
LEMMA ReapingEvicts ==
  ASSUME ArtifactIInv, ~degraded, NEW unlinks, NEW gone, NEW remains,
         gone = Reaped(pending, guards, unlinks), remains = Erase(file, gone), pending' = pending \ gone
  PROVE  /\ Evicts(remains, {}) /\ gone \subseteq pending /\ pending' \subseteq Owned
<1>1. ArtifactTypeOK /\ Guards /\ Files
  BY DEF ArtifactIInv, Shelf
<1>2. file \in [Owned -> Contents] /\ pending \in SUBSET Owned
  BY <1>1 DEF ArtifactTypeOK, Contents
<1>3. gone \subseteq pending /\ \A i \in gone : \A x \in receipts : ~Has(victims[x], i)
  BY <1>1, <1>2, GoneFacts
<1>4. /\ remains \in [Owned -> Contents] /\ Physical(remains) <= Physical(file)
      /\ \A i \in Owned : (i \in gone => remains[i] = "none") /\ (i \notin gone => remains[i] = file[i])
  BY <1>2, EraseFacts
<1>5. Physical(remains) <= MaxBytes
  <2>1. Physical(remains) \in Nat /\ Physical(file) \in Nat /\ Physical(file) <= MaxBytes
    BY <1>1, PhysicalFacts DEF Files
  <2> QED BY <1>4, <2>1, Parameters
<1> QED BY <1>2, <1>3, <1>4, <1>5 DEF Evicts

\* A thread writes: it reaps, evicts for the chunk and reaps again.
LEMMA WriteEvicts ==
  ASSUME ArtifactIInv, NEW u \in Uploads, NEW fault, WriteRuns(u, fault)
  PROVE  \E f \in [Owned -> Contents], wrote \in BOOLEAN, ousted \in SUBSET Items :
           /\ Written(u, f, wrote) /\ Evicts(f, ousted)
           /\ wrote => Physical(f) + 1 <= MaxBytes
           /\ entries' \in Seq(Items) /\ Distinct(entries') /\ Len(entries') <= MaxEntries
           /\ ToSet(entries') = ToSet(entries) \ ousted
           /\ pending' \subseteq Owned /\ evicted' = evicted \cup ousted
           /\ \/ ousted = {} /\ manifest' = manifest
              \/ /\ ~degraded /\ manifest'.items = entries'
                 /\ manifest'.pending \subseteq pending \cup (ousted \cap Owned)
                 /\ manifest' \in [items : Seq(Items), pending : SUBSET Owned]
<1> DEFINE unlinks == fault # "unlink"
           gone == Reaped(pending, guards, unlinks)
           remains == Erase(file, gone)
           total == Physical(remains)
           n == ForChunk(total)
           ousted == Prefix(n)
           given == Without(entries, ousted)
           due == (pending \ gone) \cup (ousted \cap Owned)
           freed == Reaped(due, guards, unlinks)
           after == Erase(remains, freed)
<1>1. ArtifactTypeOK /\ Guards /\ Files /\ Lists /\ Readers /\ Pins
  BY DEF ArtifactIInv, Shelf
<1>2. \/ /\ ~Writable
         /\ Written(u, file, FALSE)
         /\ UNCHANGED <<entries, pending, manifest, evicted>>
      \/ /\ Writable
         /\ pending' = pending \ gone
         /\ Written(u, remains, FALSE)
         /\ UNCHANGED <<entries, manifest, evicted>>
      \/ /\ Writable /\ total <= MaxBytes /\ n = 0
         /\ pending' = pending \ gone
         /\ Written(u, remains, TRUE)
         /\ UNCHANGED <<entries, manifest, evicted>>
      \/ /\ Writable /\ total <= MaxBytes /\ n > 0
         /\ entries' = given
         /\ manifest' = Disk(given, due)
         /\ pending' = due \ freed
         /\ evicted' = evicted \cup ousted
         /\ Written(u, after, Physical(after) + 1 <= MaxBytes)
  BY DEF WriteRuns
<1>3. file \in [Owned -> Contents] /\ pending \in SUBSET Owned /\ entries \in Seq(Items) /\ Distinct(entries)
      /\ Physical(file) <= MaxBytes /\ Len(entries) <= MaxEntries /\ Len(entries) \in Nat
  BY <1>1 DEF ArtifactTypeOK, Contents, Lists, Files
<1>4. total \in Nat
  BY PhysicalFacts
<1>5. ASSUME UNCHANGED entries
      PROVE  entries' \in Seq(Items) /\ Distinct(entries') /\ Len(entries') <= MaxEntries /\ ToSet(entries') = ToSet(entries)
  BY <1>3, <1>5 DEF Distinct
<1> HIDE DEF unlinks, gone, remains, total, n, ousted, given, due, freed, after
<1>6. CASE ~Writable /\ Written(u, file, FALSE) /\ UNCHANGED <<entries, pending, manifest, evicted>>
  <2>1. Evicts(file, {})
    BY <1>3, <1>6 DEF Evicts
  <2>2. /\ Written(u, file, FALSE) /\ Evicts(file, {}) /\ file \in [Owned -> Contents]
        /\ entries' \in Seq(Items) /\ Distinct(entries') /\ Len(entries') <= MaxEntries
        /\ ToSet(entries') = ToSet(entries) \ {}
        /\ pending' \subseteq Owned /\ evicted' = evicted \cup {} /\ manifest' = manifest
    BY <1>3, <1>5, <1>6, <2>1
  <2> QED BY <2>2
<1>7. ASSUME Writable, pending' = pending \ gone, UNCHANGED <<entries, manifest, evicted>>
      PROVE  /\ Evicts(remains, {}) /\ remains \in [Owned -> Contents]
             /\ entries' \in Seq(Items) /\ Distinct(entries') /\ Len(entries') <= MaxEntries
             /\ ToSet(entries') = ToSet(entries) \ {}
             /\ pending' \subseteq Owned /\ evicted' = evicted \cup {} /\ manifest' = manifest
  <2>1. ~degraded
    BY <1>7 DEF Writable
  <2>2. gone = Reaped(pending, guards, unlinks) /\ remains = Erase(file, gone)
    BY DEF gone, remains
  <2>3. Evicts(remains, {}) /\ pending' \subseteq Owned
    BY <1>7, <2>1, <2>2, ReapingEvicts
  <2>4. remains \in [Owned -> Contents]
    BY <2>3 DEF Evicts
  <2> QED BY <1>5, <1>7, <2>3, <2>4
<1>8. CASE Writable /\ pending' = pending \ gone /\ Written(u, remains, FALSE)
           /\ UNCHANGED <<entries, manifest, evicted>>
  BY <1>7, <1>8
<1>9. CASE Writable /\ total <= MaxBytes /\ n = 0 /\ pending' = pending \ gone
           /\ Written(u, remains, TRUE) /\ UNCHANGED <<entries, manifest, evicted>>
  <2>1. ~registryClosed /\ ForChunk(total) # -1 /\ ForChunk(total) = 0
    BY <1>9 DEF Writable, n
  <2>2. /\ 0 \in 0..Len(Unpinned)
        /\ total + 1 - Cardinality(Prefix(0) \cap Owned) <= MaxBytes
    BY <1>4, <2>1, ForChunkFacts
  <2>3. Prefix(0) \cap Owned = {}
    BY <1>1, <2>1, <2>2, PrefixIsFree
  <2>4. total + 1 <= MaxBytes
    <3>1. Cardinality(Prefix(0) \cap Owned) = 0
      BY <2>3, FS_EmptySet
    <3> QED BY <1>4, <2>2, <3>1, Parameters
  <2>5. Physical(remains) + 1 <= MaxBytes
    BY <2>4 DEF total
  <2> QED BY <1>7, <1>9, <2>5
<1>10. CASE /\ Writable /\ total <= MaxBytes /\ n > 0
            /\ entries' = given
            /\ manifest' = Disk(given, due)
            /\ pending' = due \ freed
            /\ evicted' = evicted \cup ousted
            /\ Written(u, after, Physical(after) + 1 <= MaxBytes)
  <2>1. ~registryClosed /\ ~degraded
    BY <1>10 DEF Writable
  <2>2. ForChunk(total) # -1
    <3>1. n > 0 /\ ~(-1 > 0)
      BY <1>10
    <3> QED BY <3>1 DEF n
  <2>3. n \in 0..Len(Unpinned)
    BY <1>4, <2>2, ForChunkFacts DEF n
  <2>4. /\ ousted \subseteq ToSet(entries) \ receipts /\ ousted \subseteq Items
        /\ \A l \in Leases : Reading(l) => wanted[l] \notin ousted
    BY <1>1, <2>1, <2>3, PrefixIsFree DEF ousted
  <2>5. gone \subseteq pending /\ \A i \in gone : \A x \in receipts : ~Has(victims[x], i)
    BY <1>1, <1>3, GoneFacts DEF gone
  <2>6. due \in SUBSET Owned
    BY <1>3 DEF due
  <2>7. freed \subseteq due /\ \A i \in freed : \A x \in receipts : ~Has(victims[x], i)
    BY <1>1, <2>6, GoneFacts DEF freed
  <2>8. /\ remains \in [Owned -> Contents]
        /\ \A i \in Owned : (i \in gone => remains[i] = "none") /\ (i \notin gone => remains[i] = file[i])
    BY <1>3, EraseFacts DEF remains
  <2>9. /\ after \in [Owned -> Contents] /\ Physical(after) <= Physical(remains)
        /\ \A i \in Owned : (i \in freed => after[i] = "none") /\ (i \notin freed => after[i] = remains[i])
    BY <2>8, EraseFacts DEF after
  <2>10. Physical(after) <= MaxBytes
    <3>1. Physical(after) \in Nat /\ Physical(remains) = total
      BY PhysicalFacts DEF total
    <3> QED BY <1>4, <1>10, <2>9, <3>1, Parameters
  <2>11. pending' \subseteq pending \cup (ousted \cap Owned) /\ pending' \subseteq Owned
         /\ due \subseteq pending \cup (ousted \cap Owned)
    BY <1>10, <2>6 DEF due
  <2>12. \A i \in Owned : after[i] # file[i] =>
            /\ after[i] = "none" /\ i \in pending \cup ousted
            /\ \A x \in receipts : ~Has(victims[x], i)
    BY <2>5, <2>7, <2>8, <2>9, <2>11
  <2>13. Evicts(after, ousted)
    BY <2>1, <2>4, <2>9, <2>10, <2>11, <2>12 DEF Evicts
  <2>14. /\ entries' \in Seq(Items) /\ Distinct(entries') /\ Len(entries') <= MaxEntries
         /\ ToSet(entries') = ToSet(entries) \ ousted
    <3>1. /\ given \in Seq(Items) /\ Len(given) \in Nat /\ Len(given) <= Len(entries)
          /\ ToSet(given) = ToSet(entries) \ ousted /\ Distinct(given)
      BY <1>3, DropFacts DEF given
    <3> QED BY <1>3, <1>10, <3>1, Parameters
  <2>15. manifest'.items = entries' /\ manifest'.pending = due
         /\ manifest' \in [items : Seq(Items), pending : SUBSET Owned]
    BY <1>10, <2>6, <2>14 DEF Disk
  <2>16. (Physical(after) + 1 <= MaxBytes) \in BOOLEAN
    OBVIOUS
  <2> DEFINE wrote == Physical(after) + 1 <= MaxBytes
  <2>17. /\ after \in [Owned -> Contents] /\ wrote \in BOOLEAN /\ ousted \in SUBSET Items
         /\ Written(u, after, wrote) /\ Evicts(after, ousted)
         /\ wrote => Physical(after) + 1 <= MaxBytes
    BY <1>10, <2>4, <2>9, <2>13, <2>16
  <2>18. pending' \subseteq Owned /\ evicted' = evicted \cup ousted
    BY <1>10, <2>11
  <2>19. /\ ~degraded /\ manifest'.items = entries'
         /\ manifest'.pending \subseteq pending \cup (ousted \cap Owned)
         /\ manifest' \in [items : Seq(Items), pending : SUBSET Owned]
    BY <2>1, <2>11, <2>15
  <2> HIDE DEF wrote
  <2> QED BY <2>14, <2>17, <2>18, <2>19
<1> QED BY <1>2, <1>6, <1>8, <1>9, <1>10

\* The thread that writes a chunk.
LEMMA WriteRunsKeeps ==
  ASSUME ArtifactIInv, Goes, NEW u \in Uploads, NEW fault, WriteRuns(u, fault)
  PROVE  ArtifactIInv'
<1>1. ArtifactTypeOK /\ Phases /\ Receipts /\ Movement /\ NewComers /\ Files /\ Degraded
  BY DEF ArtifactIInv, Course, Shelf
<1>2. /\ UNCHANGED <<present, pins, guards, receipts, victims, leases, degraded, registryClosed,
                     reader, wanted, registering, moving, traffic, kept>>
      /\ ToRun("write", u) /\ moving = NoItem
  BY DEF WriteRuns, Run, ToRun
<1>3. PICK f \in [Owned -> Contents], wrote \in BOOLEAN, ousted \in SUBSET Items :
           /\ Written(u, f, wrote) /\ Evicts(f, ousted)
           /\ wrote => Physical(f) + 1 <= MaxBytes
           /\ entries' \in Seq(Items) /\ Distinct(entries') /\ Len(entries') <= MaxEntries
           /\ ToSet(entries') = ToSet(entries) \ ousted
           /\ pending' \subseteq Owned /\ evicted' = evicted \cup ousted
           /\ \/ ousted = {} /\ manifest' = manifest
              \/ /\ ~degraded /\ manifest'.items = entries'
                 /\ manifest'.pending \subseteq pending \cup (ousted \cap Owned)
                 /\ manifest' \in [items : Seq(Items), pending : SUBSET Owned]
  BY WriteEvicts
<1>4. /\ f \in [Owned -> Contents] /\ Physical(f) <= MaxBytes
      /\ \A i \in Owned : f[i] # file[i] =>
            /\ f[i] = "none" /\ ~degraded /\ i \in pending \cup ousted
            /\ \A x \in receipts : ~Has(victims[x], i)
      /\ ousted \subseteq ToSet(entries) \ receipts
      /\ \A l \in Leases : Reading(l) => wanted[l] \notin ousted
      /\ pending' \subseteq pending \cup (ousted \cap Owned)
  BY <1>3 DEF Evicts
<1>5. u \notin receipts /\ file[u] # "bin" /\ request[u] # "done" /\ u \in Owned /\ moving # u
  <2>1. u \notin receipts /\ file[u] # "bin" /\ moving # u
    BY <1>1, <1>2, NoUpload DEF NewComers, Unpublished
  <2>2. request[u] # "done"
    BY <1>1, <1>2 DEF Phases, PhaseOf
  <2> QED BY <2>1, <2>2 DEF Owned
<1>6. Phases' /\ Receipts' /\ NobodyReturns
  BY <1>1, <1>2, <1>3, <1>5, WrittenMoves
<1>7. /\ file' \in [Owned -> Contents] /\ \A i \in Owned \ {u} : file'[i] = f[i]
      /\ file'[u] = "none" \/ (file'[u] = "temp" /\ wrote)
      /\ Physical(file') \in Nat /\ Physical(f) \in Nat
      /\ ~wrote => Physical(file') <= Physical(f)
      /\ Physical(file') <= Physical(f) + 1
      /\ request' \in [Uploads -> {"new", "write", "publish", "closing", "ack", "rollback",
                                  "abandon", "done", "over"}]
      /\ cancelled' \subseteq Uploads
      /\ threads' \subseteq Ops \X (Uploads \cup Paths \cup Leases \cup {NoItem})
      /\ request[u] # "done" => \A x \in Uploads : request'[x] = "done" <=> request[x] = "done"
      /\ \A o, x : x # u => (ToRun(o, x)' <=> ToRun(o, x))
  BY <1>1, <1>3, WrittenFacts
<1>8. /\ \A p \in Paths : ToRun("register", p)' <=> ToRun("register", p)
      /\ \A l \in Leases : ToRun("lease", l)' <=> ToRun("lease", l)
      /\ ToRun("close", NoItem)' <=> ToRun("close", NoItem)
  BY <1>7, NoUpload, OthersWait
<1>9. Physical(file') <= MaxBytes
  BY <1>3, <1>4, <1>7, Parameters
<1>10. ArtifactTypeOK'
  <2>1. faults' \in 0..traffic'.faults
    BY <1>1, <1>2, MeetsFacts DEF WriteRuns
  <2>2. evicted' \subseteq Items
    BY <1>1, <1>3 DEF ArtifactTypeOK
  <2>3. manifest' \in [items : Seq(Items), pending : SUBSET Owned]
    BY <1>1, <1>3 DEF ArtifactTypeOK
  <2> QED BY <1>1, <1>2, <1>3, <1>7, <2>1, <2>2, <2>3 DEF ArtifactTypeOK, Contents
<1>11. Trade(ousted, {})
  <2>1. \A i \in Owned : file[i] = "bin" /\ file'[i] # "bin" =>
          /\ ~degraded /\ (i \in pending \cup ousted \/ Foreign(i))
          /\ \A x \in receipts : ~Has(victims[x], i)
    <3>1. \A i \in Owned : file[i] = "bin" /\ file'[i] # "bin" => f[i] # file[i]
      BY <1>5, <1>7
    <3> QED BY <1>4, <3>1
  <2>2. \A x \in Uploads : file'[x] = "bin" /\ moving' # x => file[x] = "bin" /\ moving # x
    <3>1. \A x \in Uploads : file'[x] = "bin" => x # u /\ x \in Owned
      BY <1>7 DEF Owned
    <3>2. \A x \in Uploads : file'[x] = "bin" => file[x] = "bin"
      BY <1>4, <1>7, <3>1
    <3> QED BY <1>2, <3>2
  <2>3. PathsStay
    BY <1>2, <1>8 DEF PathsStay, Unregistered
  <2>4. degraded => moving' = NoItem
    BY <1>2
  <2>5. \A x \in Uploads : request'[x] = "done" <=> request[x] = "done"
    BY <1>5, <1>7
  <2>6. /\ Distinct(entries') /\ Len(entries') <= MaxEntries
        /\ ToSet(entries') = (ToSet(entries) \ ousted) \cup {}
        /\ evicted' = evicted \cup ousted
        /\ \/ ousted = {} /\ {} = {} /\ manifest' = manifest
           \/ /\ ~degraded /\ manifest'.items = entries'
              /\ manifest'.pending \subseteq pending \cup (ousted \cap Owned)
    BY <1>3
  <2> QED BY <1>2, <1>4, <1>8, <1>9, <2>1, <2>2, <2>3, <2>4, <2>5, <2>6 DEF Trade
<1>12. Movement' /\ Plan'
  BY <1>2 DEF Movement, Plan
<1> QED BY <1>6, <1>10, <1>11, <1>12, TradeKeeps

\* The plan is made: what it names is free, and enough.
LEMMA PublishMovesKeeps ==
  ASSUME ArtifactIInv, Goes, NEW u \in Uploads, NEW fault, PublishMoves(u, fault)
  PROVE  ArtifactIInv'
<1> DEFINE gone == IF Writable THEN Reaped(pending, guards, fault # "unlink") ELSE {}
           remains == Erase(file, gone)
           moves == /\ Writable /\ Physical(remains) <= MaxBytes /\ ForEntry # -1
                    /\ file[u] = "temp" /\ fault # "move"
<1>1. ArtifactTypeOK /\ Phases /\ Receipts /\ Movement /\ NewComers /\ Lists /\ Files /\ Guards /\ Degraded
      /\ Readers /\ Pins
  BY DEF ArtifactIInv, Course, Shelf
<1>2. /\ UNCHANGED <<present, manifest, entries, pins, guards, receipts, leases, degraded,
                     registryClosed, reader, wanted, registering, traffic, evicted, kept>>
      /\ ToRun("publish", u) /\ moving = NoItem /\ pending' = pending \ gone
  BY DEF PublishMoves, Run, ToRun
<1>3. \/ /\ moves /\ moving' = u
         /\ file' = [remains EXCEPT ![u] = "bin"]
         /\ victims' = [victims EXCEPT ![u] = SubSeq(Unpinned, 1, ForEntry)]
         /\ UNCHANGED <<request, cancelled, threads>>
      \/ /\ ~moves
         /\ file' = [remains EXCEPT ![u] = "none"]
         /\ NotPublished(u)
         /\ UNCHANGED <<moving, victims>>
  BY DEF PublishMoves
<1>4. u \notin receipts /\ file[u] # "bin" /\ request[u] # "done" /\ u \in Owned /\ u # NoItem
  <2>1. u \notin receipts /\ file[u] # "bin"
    BY <1>1, <1>2, NoUpload DEF NewComers, Unpublished
  <2>2. request[u] # "done"
    BY <1>1, <1>2 DEF Phases, PhaseOf
  <2> QED BY <2>1, <2>2, NoUpload DEF Owned
<1>5. file \in [Owned -> Contents] /\ pending \in SUBSET Owned
  BY <1>1 DEF ArtifactTypeOK, Contents
<1>6. /\ gone \subseteq pending /\ (gone # {} => ~degraded)
      /\ \A i \in gone : \A x \in receipts : ~Has(victims[x], i)
  BY <1>1, <1>5, GoneFacts DEF Writable
<1>7. moves => Writable /\ file[u] = "temp" /\ ForEntry # -1
  OBVIOUS
<1> HIDE DEF gone, moves
<1>8. /\ remains \in [Owned -> Contents] /\ Physical(remains) <= Physical(file)
      /\ \A i \in Owned : (i \in gone => remains[i] = "none") /\ (i \notin gone => remains[i] = file[i])
  BY <1>5, EraseFacts
<1> HIDE DEF remains
<1>9. /\ file' \in [Owned -> Contents] /\ \A i \in Owned \ {u} : file'[i] = remains[i]
      /\ file'[u] \in {"bin", "none"}
      /\ moving' # u => file'[u] = "none"
      /\ file'[u] = "bin" => file[u] = "temp"
  BY <1>2, <1>3, <1>4, <1>7, <1>8 DEF Contents
<1>10. Physical(file') <= MaxBytes
  <2>1. \A i \in Owned : OnDisk(file', i) => OnDisk(file, i)
    BY <1>3, <1>4, <1>7, <1>8, <1>9 DEF OnDisk
  <2>2. Physical(file') <= Physical(file) /\ Physical(file) \in Nat /\ Physical(file') \in Nat
    BY <2>1, PhysicalFacts
  <2>3. Physical(file) <= MaxBytes
    BY <1>1 DEF Files
  <2> QED BY <2>2, <2>3, Parameters
<1>11. /\ Phases' /\ Receipts' /\ NobodyReturns
       /\ request' \in [Uploads -> {"new", "write", "publish", "closing", "ack", "rollback",
                                   "abandon", "done", "over"}]
       /\ cancelled' \subseteq Uploads
       /\ threads' \subseteq Ops \X (Uploads \cup Paths \cup Leases \cup {NoItem})
       /\ \A x \in Uploads : request'[x] = "done" <=> request[x] = "done"
       /\ \A o, x : ToRun(o, x)' => ToRun(o, x)
  <2>1. CASE UNCHANGED <<request, cancelled, threads>>
    <3>1. \A o, x : ToRun(o, x)' <=> ToRun(o, x)
      BY <2>1 DEF ToRun
    <3>2. Phases' /\ Receipts' /\ NobodyReturns
      BY <1>1, <1>2, <2>1, <3>1, NoUploadMoves
    <3> QED BY <1>1, <2>1, <3>1, <3>2 DEF ArtifactTypeOK
  <2>2. CASE NotPublished(u)
    <3>1. Phases' /\ Receipts' /\ NobodyReturns
      BY <1>1, <1>2, <1>4, <2>2, NotPublishedMoves
    <3>2. /\ request' \in [Uploads -> {"new", "write", "publish", "closing", "ack", "rollback",
                                      "abandon", "done", "over"}]
          /\ cancelled' \subseteq Uploads
          /\ threads' \subseteq Ops \X (Uploads \cup Paths \cup Leases \cup {NoItem})
          /\ \A x \in Uploads : request'[x] = "done" <=> request[x] = "done"
          /\ \A o, x : ToRun(o, x)' => ToRun(o, x)
      BY <1>1, <1>4, <2>2 DEF ArtifactTypeOK, NotPublished, Ended, ToRun
    <3> QED BY <3>1, <3>2
  <2> QED BY <1>3, <2>1, <2>2
<1>12. ASSUME moves
       PROVE  LET ousted == SubSeq(Unpinned, 1, ForEntry)
              IN  /\ ousted \in Seq(Items) /\ Len(ousted) <= 1 /\ Len(entries) - Len(ousted) < MaxEntries
                  /\ ToSet(ousted) \subseteq ToSet(entries) \ receipts
                  /\ \A l \in Leases : Reading(l) => wanted[l] \notin ToSet(ousted)
  <2>1. ~registryClosed /\ ForEntry # -1
    BY <1>7, <1>12 DEF Writable
  <2>2. Unpinned \in Seq(Items)
    BY <1>1, UnpinnedFacts
  <2>3. ForEntry \in 0..Len(Unpinned) /\ Len(entries) - ForEntry < MaxEntries /\ ForEntry <= 1
    BY <1>1, <2>1, <2>2, ForEntryFacts
  <2>4. SubSeq(Unpinned, 1, ForEntry) \in Seq(Items) /\ Len(SubSeq(Unpinned, 1, ForEntry)) = ForEntry
    BY <2>2, <2>3, PrefixFacts
  <2>5. /\ Prefix(ForEntry) \subseteq ToSet(entries) \ receipts
        /\ \A l \in Leases : Reading(l) => wanted[l] \notin Prefix(ForEntry)
    BY <1>1, <2>1, <2>3, PrefixIsFree
  <2>6. Prefix(ForEntry) = ToSet(SubSeq(Unpinned, 1, ForEntry))
    BY DEF Prefix
  <2> QED BY <2>3, <2>4, <2>5, <2>6
<1>13. /\ victims' \in [Uploads -> Seq(Items)]
       /\ \A x \in receipts : victims'[x] = victims[x]
       /\ moves => victims'[u] = SubSeq(Unpinned, 1, ForEntry) /\ moving' = u /\ file'[u] = "bin"
       /\ ~moves => moving' = NoItem
  <2>0. victims \in [Uploads -> Seq(Items)] /\ receipts \subseteq Uploads
    BY <1>1 DEF ArtifactTypeOK
  <2>1. CASE moves
    <3> DEFINE ousted == SubSeq(Unpinned, 1, ForEntry)
    <3>1. ousted \in Seq(Items)
      BY <1>12, <2>1
    <3>2. /\ moving' = u /\ file' = [remains EXCEPT ![u] = "bin"]
          /\ victims' = [victims EXCEPT ![u] = ousted]
      BY <1>3, <2>1
    <3> HIDE DEF ousted
    <3>3. /\ victims' \in [Uploads -> Seq(Items)] /\ victims'[u] = ousted
          /\ \A x \in receipts : victims'[x] = victims[x]
      BY <1>4, <2>0, <3>1, <3>2
    <3>4. file'[u] = "bin"
      BY <1>4, <1>8, <3>2
    <3> QED BY <2>1, <3>2, <3>3, <3>4 DEF ousted
  <2>2. CASE ~moves
    <3>1. victims' = victims /\ moving' = NoItem
      BY <1>2, <1>3, <2>2
    <3> QED BY <2>0, <2>2, <3>1
  <2> QED BY <2>1, <2>2
<1>14. ArtifactTypeOK'
  <2>1. faults' \in 0..traffic'.faults
    BY <1>1, <1>2, MeetsFacts DEF PublishMoves
  <2> QED BY <1>1, <1>2, <1>9, <1>11, <1>13, <2>1 DEF ArtifactTypeOK, Contents
<1>15. Movement'
  <2>1. CASE moves
    <3>1. threads' = threads /\ moving' = u
      BY <1>3, <1>4, <2>1, <1>13
    <3> QED BY <1>2, <3>1 DEF Movement, ToRun
  <2>2. CASE ~moves
    BY <1>13, <2>2 DEF Movement
  <2> QED BY <2>1, <2>2
<1>16. Plan'
  <2>1. CASE moves
    <3> DEFINE ousted == SubSeq(Unpinned, 1, ForEntry)
    <3>1. /\ Len(ousted) <= 1 /\ Len(entries) - Len(ousted) < MaxEntries
          /\ ToSet(ousted) \subseteq ToSet(entries) \ receipts
          /\ \A l \in Leases : Reading(l) => wanted[l] \notin ToSet(ousted)
      BY <1>12, <2>1
    <3>2. moving' = u /\ victims'[u] = ousted /\ file'[u] = "bin"
      BY <1>13, <2>1
    <3> HIDE DEF ousted
    <3>3. victims'[moving'] = ousted /\ file'[moving'] = "bin"
      BY <3>2
    <3>4. \A l \in Leases : Reading(l)' <=> Reading(l)
      BY <1>2 DEF Reading
    <3> QED BY <1>2, <3>1, <3>3, <3>4 DEF Plan
  <2>2. CASE ~moves
    BY <1>13, <2>2 DEF Plan
  <2> QED BY <2>1, <2>2
<1>17. Trade({}, {})
  <2>1. \A i \in Owned : file[i] = "bin" /\ file'[i] # "bin" =>
          /\ ~degraded /\ (i \in pending \cup {} \/ Foreign(i))
          /\ \A x \in receipts : ~Has(victims[x], i)
    BY <1>4, <1>6, <1>8, <1>9
  <2>2. \A x \in Uploads : file'[x] = "bin" /\ moving' # x => file[x] = "bin" /\ moving # x
    <3>1. \A x \in Uploads : file'[x] = "bin" /\ moving' # x => x # u /\ x \in Owned
      BY <1>9 DEF Owned
    <3>2. \A x \in Uploads : file'[x] = "bin" /\ moving' # x => file[x] = "bin"
      BY <1>8, <1>9, <3>1
    <3> QED BY <1>2, <3>2, NoUpload
  <2>3. PathsStay
    BY <1>2, <1>11 DEF PathsStay, Unregistered
  <2>4. degraded => moving' = NoItem
    BY <1>7, <1>13 DEF Writable
  <2>5. /\ Distinct(entries') /\ Len(entries') <= MaxEntries
        /\ ToSet(entries') = (ToSet(entries) \ {}) \cup {}
    BY <1>1, <1>2 DEF Lists, Distinct
  <2> QED BY <1>2, <1>10, <1>11, <1>13, <2>1, <2>2, <2>3, <2>4, <2>5 DEF Trade
<1> QED BY <1>11, <1>14, <1>15, <1>16, <1>17, TradeKeeps

\* The manifest cannot be written: the file that was moved goes.
LEMMA PublishFailsKeeps ==
  ASSUME ArtifactIInv, Goes, NEW u \in Uploads, PublishFails(u)
  PROVE  ArtifactIInv'
<1>1. ArtifactTypeOK /\ Phases /\ Receipts /\ Movement /\ NewComers /\ Lists /\ Files /\ Degraded
  BY DEF ArtifactIInv, Course, Shelf
<1>2. /\ UNCHANGED <<present, manifest, entries, pending, pins, guards, receipts, leases, degraded,
                     registryClosed, reader, wanted, registering, traffic, evicted, kept>>
      /\ moving = u /\ moving' = NoItem /\ NotPublished(u)
      /\ file' = [file EXCEPT ![u] = "none"] /\ victims' = [victims EXCEPT ![u] = <<>>]
  BY DEF PublishFails
<1>3. /\ ToRun("publish", u) /\ u \notin receipts /\ request[u] # "done" /\ u \in Owned /\ u # NoItem
      /\ Foreign(u) /\ ~degraded
  <2>1. ToRun("publish", u) /\ u # NoItem /\ ~degraded
    BY <1>1, <1>2, NoUpload DEF Movement, Degraded
  <2>2. u \notin receipts /\ Foreign(u)
    BY <1>1, <2>1 DEF NewComers, Unpublished
  <2>3. request[u] # "done"
    BY <1>1, <2>1 DEF Phases, PhaseOf
  <2> QED BY <2>1, <2>2, <2>3 DEF Owned
<1>4. Phases' /\ Receipts' /\ NobodyReturns
  BY <1>1, <1>2, <1>3, NotPublishedMoves
<1>5. /\ request' \in [Uploads -> {"new", "write", "publish", "closing", "ack", "rollback",
                                  "abandon", "done", "over"}]
      /\ cancelled' \subseteq Uploads
      /\ threads' \subseteq Ops \X (Uploads \cup Paths \cup Leases \cup {NoItem})
      /\ \A x \in Uploads : request'[x] = "done" <=> request[x] = "done"
      /\ \A o, x : ToRun(o, x)' => ToRun(o, x)
  BY <1>1, <1>2, <1>3 DEF ArtifactTypeOK, NotPublished, Ended, ToRun
<1>6. /\ file' \in [Owned -> Contents] /\ \A i \in Owned \ {u} : file'[i] = file[i]
      /\ file'[u] = "none"
  BY <1>1, <1>2, <1>3 DEF ArtifactTypeOK, Contents
<1>7. /\ victims' \in [Uploads -> Seq(Items)]
      /\ \A x \in receipts : victims'[x] = victims[x]
  BY <1>1, <1>2, <1>3 DEF ArtifactTypeOK
<1>8. Physical(file') <= MaxBytes
  <2>1. \A i \in Owned : OnDisk(file', i) => OnDisk(file, i)
    BY <1>6 DEF OnDisk
  <2>2. Physical(file') <= Physical(file) /\ Physical(file) \in Nat /\ Physical(file') \in Nat
    BY <2>1, PhysicalFacts
  <2> QED BY <1>1, <2>2, Parameters DEF Files
<1>9. ArtifactTypeOK'
  <2>1. faults' \in 0..traffic'.faults
    BY <1>1, <1>2, MeetsFacts DEF PublishFails
  <2> QED BY <1>1, <1>2, <1>5, <1>6, <1>7, <2>1 DEF ArtifactTypeOK, Contents
<1>10. Trade({}, {})
  <2>1. \A i \in Owned : file[i] = "bin" /\ file'[i] # "bin" =>
          /\ ~degraded /\ (i \in pending \cup {} \/ Foreign(i))
          /\ \A x \in receipts : ~Has(victims[x], i)
    <3>1. \A x \in receipts : ~Has(victims[x], u)
      BY <1>3 DEF Foreign
    <3> QED BY <1>3, <1>6, <3>1
  <2>2. \A x \in Uploads : file'[x] = "bin" /\ moving' # x => file[x] = "bin" /\ moving # x
    <3>1. \A x \in Uploads : file'[x] = "bin" => x # u /\ x \in Owned
      BY <1>6 DEF Owned
    <3> QED BY <1>2, <1>6, <3>1
  <2>3. PathsStay
    BY <1>2, <1>5 DEF PathsStay, Unregistered
  <2>5. /\ Distinct(entries') /\ Len(entries') <= MaxEntries
        /\ ToSet(entries') = (ToSet(entries) \ {}) \cup {}
    BY <1>1, <1>2 DEF Lists, Distinct
  <2> QED BY <1>2, <1>5, <1>7, <1>8, <2>1, <2>2, <2>3, <2>5 DEF Trade
<1>11. Movement' /\ Plan'
  BY <1>2 DEF Movement, Plan
<1> QED BY <1>4, <1>9, <1>10, <1>11, TradeKeeps

\* A file of the runtime enters, in place of an entry if there is no other way.
LEMMA RegisterRunsKeeps ==
  ASSUME ArtifactIInv, Goes, NEW p \in Paths, NEW fault, RegisterRuns(p, fault)
  PROVE  ArtifactIInv'
<1> DEFINE unlinks == fault # "unlink"
           gone == IF Writable /\ p \in present THEN Reaped(pending, guards, unlinks) ELSE {}
           remains == Erase(file, gone)
           n == ForEntry
           ousted == Prefix(n)
           due == (pending \ gone) \cup (ousted \cap Owned)
           freed == Reaped(due, guards, unlinks)
           enters == /\ p \in present /\ Writable /\ Physical(remains) <= MaxBytes /\ n # -1
                     /\ fault # "save"
           given == Without(entries, ousted)
           after == Erase(remains, freed)
           more == IF registering[p] = "dropped" THEN {<<"discard", p>>} ELSE {}
<1>1. ArtifactTypeOK /\ Phases /\ Receipts /\ Movement /\ NewComers /\ Lists /\ Files /\ Guards
      /\ Readers /\ Pins
  BY DEF ArtifactIInv, Course, Shelf
<1>2. /\ UNCHANGED <<present, pins, guards, receipts, victims, leases, degraded, registryClosed,
                     request, cancelled, reader, wanted, moving, traffic, kept>>
      /\ ToRun("register", p) /\ moving = NoItem
      /\ registering' = [registering EXCEPT ![p] = "done"]
  BY DEF RegisterRuns, Run, ToRun
<1>3. \/ /\ enters
         /\ entries' = Append(given, p)
         /\ pending' = due \ freed
         /\ file' = after
         /\ manifest' = Disk(entries', IF fault = "resave" THEN due ELSE due \ freed)
         /\ evicted' = evicted \cup ousted
         /\ threads' = Ended("register", p) \cup more
      \/ /\ ~enters
         /\ pending' = pending \ gone
         /\ file' = remains
         /\ threads' = Ended("register", p)
         /\ UNCHANGED <<entries, manifest, evicted>>
  BY DEF RegisterRuns
<1>4. /\ file \in [Owned -> Contents] /\ pending \in SUBSET Owned /\ entries \in Seq(Items)
      /\ Distinct(entries) /\ Physical(file) <= MaxBytes /\ Len(entries) <= MaxEntries
      /\ Len(entries) \in Nat
  BY <1>1 DEF ArtifactTypeOK, Contents, Lists, Files
<1>5. Foreign(p) /\ p \in Items /\ p \notin Owned
  BY <1>1, <1>2, NoUpload DEF NewComers, Unregistered, Items
<1>6. /\ gone \subseteq pending /\ (gone # {} => ~degraded)
      /\ \A i \in gone : \A x \in receipts : ~Has(victims[x], i)
  BY <1>1, <1>4, GoneFacts DEF Writable
<1>7. enters => Writable /\ n # -1
  OBVIOUS
<1> HIDE DEF gone, enters
<1>8. /\ remains \in [Owned -> Contents] /\ Physical(remains) <= Physical(file)
      /\ \A i \in Owned : (i \in gone => remains[i] = "none") /\ (i \notin gone => remains[i] = file[i])
  BY <1>4, EraseFacts
<1> HIDE DEF unlinks, remains, n, ousted, given, due, freed, after, more
<1>9. /\ threads' = Ended("register", p) \cup more \/ threads' = Ended("register", p)
      /\ \A o, x : ToRun(o, x)' => ToRun(o, x) \/ (o = "discard" /\ x = p)
      /\ ~ToRun("register", p)'
      /\ \A u \in Uploads : \A op \in Ops : ToRun(op, u)' <=> ToRun(op, u)
      /\ threads' \subseteq Ops \X (Uploads \cup Paths \cup Leases \cup {NoItem})
  <2>1. threads' = Ended("register", p) \cup more \/ threads' = Ended("register", p)
    BY <1>3
  <2>2. more \subseteq {<<"discard", p>>} /\ "discard" \in Ops
    BY DEF more, Ops
  <2>3. /\ \A o, x : ToRun(o, x)' => ToRun(o, x) \/ (o = "discard" /\ x = p)
        /\ ~ToRun("register", p)'
        /\ \A o, x : x # p => (ToRun(o, x)' <=> ToRun(o, x))
    BY <2>1, <2>2 DEF ToRun, Ended
  <2>4. \A u \in Uploads : u # p
    BY NoUpload
  <2>5. threads' \subseteq Ops \X (Uploads \cup Paths \cup Leases \cup {NoItem})
    BY <1>1, <2>1, <2>2 DEF ArtifactTypeOK, Ended
  <2> QED BY <2>1, <2>3, <2>4, <2>5
<1>10. Phases' /\ Receipts' /\ NobodyReturns
  BY <1>1, <1>2, <1>9, NoUploadMoves
<1>11. /\ registering' \in [Paths -> {"no", "asked", "dropped", "done"}]
       /\ registering'[p] = "done" /\ \A q \in Paths \ {p} : registering'[q] = registering[q]
  BY <1>1, <1>2 DEF ArtifactTypeOK
<1>12. PathsStay /\ ~Unregistered(p)'
  BY <1>9, <1>11 DEF PathsStay, Unregistered
<1>13. faults' \in 0..traffic'.faults
  BY <1>1, <1>2, MeetsFacts DEF RegisterRuns
<1>14. Movement' /\ Plan'
  BY <1>2 DEF Movement, Plan
<1>15. Physical(remains) <= MaxBytes /\ Physical(remains) \in Nat
  <2>1. Physical(remains) \in Nat /\ Physical(file) \in Nat
    BY PhysicalFacts
  <2> QED BY <1>4, <1>8, <2>1, Parameters
<1>16. CASE ~enters
  <2>1. pending' = pending \ gone /\ file' = remains /\ UNCHANGED <<entries, manifest, evicted>>
    BY <1>3, <1>16
  <2>2. Trade({}, {})
    <3>1. \A i \in Owned : file[i] = "bin" /\ file'[i] # "bin" =>
            /\ ~degraded /\ (i \in pending \cup {} \/ Foreign(i))
            /\ \A x \in receipts : ~Has(victims[x], i)
      BY <1>6, <1>8, <2>1
    <3>2. \A x \in Uploads : file'[x] = "bin" /\ moving' # x => file[x] = "bin" /\ moving # x
      BY <1>2, <1>8, <2>1, NoUpload DEF Owned
    <3>3. /\ Distinct(entries') /\ Len(entries') <= MaxEntries
          /\ ToSet(entries') = (ToSet(entries) \ {}) \cup {}
      BY <1>4, <2>1 DEF Distinct
    <3>4. \A q \in Paths : registering[q] = "done" => registering'[q] = "done"
      BY <1>11
    <3>5. /\ \A l \in Leases : ToRun("lease", l)' => ToRun("lease", l)
          /\ ToRun("close", NoItem)' => ToRun("close", NoItem)
      BY <1>9
    <3> QED BY <1>2, <1>12, <1>15, <2>1, <3>1, <3>2, <3>3, <3>4, <3>5 DEF Trade
  <2>3. ArtifactTypeOK'
    BY <1>1, <1>2, <1>8, <1>9, <1>11, <1>13, <2>1 DEF ArtifactTypeOK, Contents
  <2> QED BY <1>10, <1>14, <2>2, <2>3, TradeKeeps
<1>17. CASE enters
  <2>1. ~registryClosed /\ ~degraded /\ ForEntry # -1
    BY <1>7, <1>17 DEF Writable, n
  <2>2. /\ entries' = Append(given, p)
        /\ pending' = due \ freed
        /\ file' = after
        /\ manifest' = Disk(entries', IF fault = "resave" THEN due ELSE due \ freed)
        /\ evicted' = evicted \cup ousted
    BY <1>3, <1>17
  <2>3. n \in 0..Len(Unpinned) /\ Len(entries) - n < MaxEntries /\ n <= 1
    <3>1. Unpinned \in Seq(Items)
      BY <1>1, UnpinnedFacts
    <3> QED BY <1>1, <2>1, <3>1, ForEntryFacts DEF n
  <2>4. /\ ousted \subseteq ToSet(entries) \ receipts /\ ousted \subseteq Items
        /\ \A l \in Leases : Reading(l) => wanted[l] \notin ousted
        /\ n > 0 => ousted # {}
    <3>1. /\ ousted \subseteq ToSet(entries) \ receipts /\ ousted \subseteq Items
          /\ \A l \in Leases : Reading(l) => wanted[l] \notin ousted
      BY <1>1, <2>1, <2>3, PrefixIsFree DEF ousted
    <3>2. n > 0 => ousted # {}
      <4>1. Unpinned \in Seq(Items)
        BY <1>1, UnpinnedFacts
      <4> QED BY <2>3, <4>1, PrefixFacts DEF ousted, Prefix
    <3> QED BY <3>1, <3>2
  <2>5. /\ given \in Seq(Items) /\ Len(given) \in Nat /\ Len(given) <= Len(entries)
        /\ ToSet(given) = ToSet(entries) \ ousted /\ Distinct(given)
        /\ ToSet(entries) \cap ousted # {} => Len(given) < Len(entries)
    BY <1>4, DropFacts DEF given
  <2>6. p \notin ToSet(entries)
    BY <1>5 DEF Foreign, Has
  <2>7. /\ Append(given, p) \in Seq(Items) /\ Len(Append(given, p)) = Len(given) + 1
        /\ ToSet(Append(given, p)) = ToSet(given) \cup {p}
        /\ Distinct(Append(given, p))
    BY <1>5, <2>5, <2>6, AddedFacts
  <2>8. Len(given) < MaxEntries
    <3>1. n = 0 \/ n > 0
      BY <2>3
    <3>2. CASE n = 0
      BY <1>4, <2>3, <2>5, <3>2, Parameters
    <3>3. CASE n > 0
      <4>1. ToSet(entries) \cap ousted # {}
        BY <2>4, <3>3
      <4> QED BY <1>4, <2>5, <4>1, Parameters
    <3> QED BY <3>1, <3>2, <3>3
  <2>9. due \in SUBSET Owned /\ due \subseteq pending \cup (ousted \cap Owned)
    BY <1>4 DEF due
  <2>10. freed \subseteq due /\ \A i \in freed : \A x \in receipts : ~Has(victims[x], i)
    BY <1>1, <2>9, GoneFacts DEF freed
  <2>11. /\ after \in [Owned -> Contents] /\ Physical(after) <= Physical(remains)
         /\ \A i \in Owned : (i \in freed => after[i] = "none") /\ (i \notin freed => after[i] = remains[i])
    BY <1>8, EraseFacts DEF after
  <2>12. Physical(file') <= MaxBytes
    <3>1. Physical(after) \in Nat
      BY PhysicalFacts
    <3> QED BY <1>15, <2>2, <2>11, <3>1, Parameters
  <2>13. /\ manifest'.items = entries' /\ manifest'.pending \subseteq due
         /\ manifest' \in [items : Seq(Items), pending : SUBSET Owned]
    BY <2>2, <2>7, <2>9 DEF Disk
  <2>14. Trade(ousted, {p})
    <3>1. \A i \in Owned : file[i] = "bin" /\ file'[i] # "bin" =>
            /\ ~degraded /\ (i \in pending \cup ousted \/ Foreign(i))
            /\ \A x \in receipts : ~Has(victims[x], i)
      BY <1>6, <1>8, <2>1, <2>2, <2>9, <2>10, <2>11
    <3>2. \A x \in Uploads : file'[x] = "bin" /\ moving' # x => file[x] = "bin" /\ moving # x
      BY <1>2, <1>8, <2>2, <2>11, NoUpload DEF Owned
    <3>3. /\ Distinct(entries') /\ Len(entries') <= MaxEntries
          /\ ToSet(entries') = (ToSet(entries) \ ousted) \cup {p}
      <4>1. Len(Append(given, p)) <= MaxEntries
        BY <2>5, <2>7, <2>8, Parameters
      <4> QED BY <2>2, <2>5, <2>7, <4>1
    <3>4. \A q \in Paths : registering[q] = "done" => registering'[q] = "done"
      BY <1>11
    <3>5. /\ \A l \in Leases : ToRun("lease", l)' => ToRun("lease", l)
          /\ ToRun("close", NoItem)' => ToRun("close", NoItem)
      BY <1>9
    <3>6. \A q \in {p} : q \in Paths /\ ~Unregistered(q)' /\ \A x \in receipts : ~Has(victims[x], q)
      BY <1>5, <1>12 DEF Foreign
    <3>7. /\ pending' \subseteq pending \cup (ousted \cap Owned)
          /\ manifest'.pending \subseteq pending \cup (ousted \cap Owned)
      BY <2>2, <2>9, <2>13
    <3> HIDE DEF Trade
    <3> QED BY <1>2, <1>12, <2>1, <2>2, <2>4, <2>12, <2>13, <3>1, <3>2, <3>3, <3>4, <3>5, <3>6, <3>7
            DEF Trade
  <2>15. ArtifactTypeOK'
    <3>1. evicted' \subseteq Items /\ pending' \subseteq Owned
      BY <1>1, <2>2, <2>4, <2>9 DEF ArtifactTypeOK
    <3>2. entries' \in Seq(Items) /\ file' \in [Owned -> Contents]
      BY <2>2, <2>7, <2>11
    <3> QED BY <1>1, <1>2, <1>9, <1>11, <1>13, <2>13, <3>1, <3>2 DEF ArtifactTypeOK, Contents
  <2> QED BY <1>10, <1>14, <2>14, <2>15, TradeKeeps
<1> QED BY <1>16, <1>17

\* A thread ends a publication: what it leaves alone, and what becomes of the
\* upload it works for.
EndsFor(u) ==
  /\ UNCHANGED <<present, leases, degraded, registryClosed, cancelled, reader, wanted, registering,
                 moving, traffic>>
  /\ moving = NoItem
  /\ \A o, x : x # u => (ToRun(o, x)' <=> ToRun(o, x))
  /\ \A x \in Uploads : request'[x] = "done" => request[x] = "done" \/ x = u
  /\ \A x \in Uploads : request[x] = "done" => request'[x] = "done"
  /\ request' \in [Uploads -> {"new", "write", "publish", "closing", "ack", "rollback",
                              "abandon", "done", "over"}]
  /\ threads' \subseteq Ops \X (Uploads \cup Paths \cup Leases \cup {NoItem})
  /\ faults' \in 0..traffic'.faults

\* What follows for the others.
LEMMA EndsForFacts ==
  ASSUME ArtifactIInv, NEW u \in Uploads, EndsFor(u)
  PROVE  /\ PathsStay /\ Movement' /\ Plan' /\ Closing' /\ Known \subseteq Known'
         /\ \A l \in Leases : ToRun("lease", l)' => ToRun("lease", l)
<1>1. moving' = NoItem /\ Closing
  BY DEF EndsFor, ArtifactIInv, Course
<1>2. /\ \A p \in Paths : ToRun("register", p)' <=> ToRun("register", p)
      /\ \A l \in Leases : ToRun("lease", l)' <=> ToRun("lease", l)
      /\ ToRun("close", NoItem)' <=> ToRun("close", NoItem)
  BY NoUpload, OthersWait DEF EndsFor
<1>3. UNCHANGED <<registering, registryClosed>>
  BY DEF EndsFor
<1>4. PathsStay
  BY <1>2, <1>3 DEF PathsStay, Unregistered
<1>5. Known \subseteq Known'
  BY <1>3, KnownGrows DEF EndsFor
<1> QED BY <1>1, <1>2, <1>3, <1>4, <1>5 DEF Movement, Plan, Closing

\* Nor is anything reaped that somebody protects once the counts are taken back.
LEMMA GoneAfterwards ==
  ASSUME receipts' \in SUBSET Uploads, Guards', NEW ps \in SUBSET Owned, NEW unlinks,
         \A x \in receipts' : victims'[x] = victims[x]
  PROVE  /\ Reaped(ps, guards', unlinks) \subseteq ps
         /\ \A i \in Reaped(ps, guards', unlinks) : \A x \in receipts' : ~Has(victims[x], i)
<1>1. \A i \in Reaped(ps, guards', unlinks) : i \in ps /\ guards'[i] <= 0
  BY DEF Reaped
<1>2. ASSUME NEW x \in receipts', NEW i \in Owned, Has(victims'[x], i)
      PROVE  ~(guards'[i] <= 0)
  <2>1. Cardinality({y \in receipts' : Has(victims'[y], i)}) \in Nat \ {0}
    BY <1>2, SomebodyProtects
  <2>2. guards'[i] = Cardinality({y \in receipts' : Has(victims'[y], i)})
    BY DEF Guards, Protectors, Has
  <2> QED BY <2>1, <2>2
<1> QED BY <1>1, <1>2

\* Acknowledged or abandoned, a publication stays; its victims are reclaimed.
LEMMA ConcludesKeeps ==
  ASSUME ArtifactIInv, Goes, NEW u \in receipts, NEW fault, Concludes(u, fault), EndsFor(u),
         UNCHANGED <<entries, evicted>>, Phases', Receipts', NobodyReturns
  PROVE  ArtifactIInv'
<1> DEFINE unlinks == fault # "unlink"
           gone == Reaped(pending, guards', unlinks)
<1>1. ArtifactTypeOK /\ Shelf /\ Pins /\ Readers
  BY DEF ArtifactIInv
<1>2. NewComers /\ Lists /\ Files /\ Guards /\ Agreement /\ Degraded /\ History
  BY <1>1 DEF Shelf
<1>3. /\ UNCHANGED <<present, leases, degraded, registryClosed, cancelled, reader, wanted, registering,
                     moving, traffic, entries, evicted>>
      /\ moving = NoItem
      /\ \A x \in Uploads : request'[x] = "done" => request[x] = "done" \/ x = u
  BY DEF EndsFor
<1>4. /\ PathsStay /\ Movement' /\ Plan' /\ Closing' /\ Known \subseteq Known'
      /\ \A l \in Leases : ToRun("lease", l)' => ToRun("lease", l)
      /\ u \in Uploads
  BY <1>1, EndsForFacts DEF ArtifactTypeOK
<1>5. /\ ReleaseGuards(u) /\ pending' = pending \ gone /\ file' = Erase(file, gone)
      /\ manifest' = manifest \/ manifest' = Disk(entries, pending')
      /\ kept' = kept \cup {u}
  BY <1>3 DEF Concludes
<1>6. /\ Guards' /\ Pins'
      /\ receipts' = receipts \ {u} /\ guards' \in [Owned -> Int] /\ pins' \in [Items -> Int]
      /\ victims' \in [Uploads -> Seq(Items)]
      /\ \A x \in receipts' : victims'[x] = victims[x]
  BY <1>1, <1>2, <1>3, <1>5, ReleaseKeepsCounts
<1>7. file \in [Owned -> Contents] /\ pending \in SUBSET Owned /\ receipts \in SUBSET Uploads
  BY <1>1 DEF ArtifactTypeOK, Contents
<1>8. /\ gone \subseteq pending
      /\ \A i \in gone : \A x \in receipts' : ~Has(victims[x], i)
  BY <1>6, <1>7, GoneAfterwards
<1> HIDE DEF gone
<1>9. /\ file' \in [Owned -> Contents] /\ Physical(file') <= Physical(file)
      /\ \A i \in Owned : (i \in gone => file'[i] = "none") /\ (i \notin gone => file'[i] = file[i])
  BY <1>5, <1>7, EraseFacts
<1>10. ~degraded /\ ~degraded'
  BY <1>2, <1>3 DEF Degraded
<1>11. \A i \in Owned : Has(manifest.items, i) <=> Has(entries, i)
  BY <1>2, <1>10 DEF Agreement, Goes
<1>12. manifest' = manifest \/ (manifest'.items = entries /\ manifest'.pending = pending')
  BY <1>5 DEF Disk
<1>13. \A i \in Owned : Has(manifest'.items, i) <=> Has(entries, i)
  BY <1>11, <1>12
<1>14. Course'
  BY <1>4 DEF Course
<1>15. NewComers'
  <2>1. \A i \in Items : ~Foreign(i)' => ~Foreign(i)
    BY <1>3, <1>6, <1>12 DEF Foreign
  <2>2. \A i \in Uploads : i \in pending' \cup manifest'.pending => i \in pending \cup manifest.pending
    BY <1>5, <1>12
  <2>3. \A x \in Uploads : file'[x] = "bin" /\ moving' # x => file[x] = "bin" /\ moving # x
    BY <1>3, <1>9, NoUpload DEF Owned
  <2> QED BY <1>2, <1>4, <1>6, <2>1, <2>2, <2>3, NoNewComers
<1>16. Lists'
  <2>1. Distinct(entries)' /\ Distinct(manifest.items)' /\ Len(manifest'.items) <= MaxEntries
        /\ Len(entries') <= MaxEntries
    BY <1>2, <1>3, <1>12 DEF Lists, Distinct
  <2>2. ASSUME NEW w \in receipts'
        PROVE  /\ Has(entries, w)' /\ Len(victims'[w]) <= 1
               /\ \A i \in ToSet(victims'[w]) : ~Has(entries, i)'
               /\ \A x \in receipts' \ {w} : ToSet(victims'[w]) \cap ToSet(victims'[x]) = {}
    <3>1. /\ Has(entries, w) /\ Len(victims[w]) <= 1
          /\ \A i \in ToSet(victims[w]) : ~Has(entries, i)
          /\ \A x \in receipts \ {w} : ToSet(victims[w]) \cap ToSet(victims[x]) = {}
      BY <1>2, <1>6, <2>2 DEF Lists
    <3> QED BY <1>3, <1>6, <2>2, <3>1 DEF Has
  <2> QED BY <2>1, <2>2 DEF Lists
<1>17. Files'
  <2>1. ASSUME NEW i \in Owned
        PROVE  /\ Has(manifest'.items, i) => file'[i] = "bin" /\ i \notin manifest'.pending
               /\ Has(entries, i) => file'[i] = "bin" /\ i \notin pending'
               /\ \A x \in receipts' : Has(victims'[x], i) => file'[i] = "bin"
    <3>1. /\ Has(manifest.items, i) => file[i] = "bin" /\ i \notin manifest.pending
          /\ Has(entries, i) => file[i] = "bin" /\ i \notin pending
          /\ \A x \in receipts : Has(victims[x], i) => file[i] = "bin"
      BY <1>2 DEF Files
    <3>2. Has(entries, i) => file'[i] = "bin" /\ i \notin pending'
      BY <1>5, <1>8, <1>9, <3>1
    <3>3. Has(manifest'.items, i) => i \notin manifest'.pending
      BY <1>11, <1>12, <1>13, <3>1, <3>2
    <3>4. \A x \in receipts' : Has(victims'[x], i) => file'[i] = "bin"
      BY <1>6, <1>8, <1>9, <3>1
    <3> QED BY <1>13, <3>2, <3>3, <3>4
  <2>2. Physical(file)' <= MaxBytes
    <3>1. Physical(file') \in Nat /\ Physical(file) \in Nat /\ Physical(file) <= MaxBytes
      BY <1>2, PhysicalFacts DEF Files
    <3>2. Physical(file') <= MaxBytes
      BY <1>9, <3>1, Parameters
    <3> QED BY <3>2 DEF Physical
  <2> QED BY <1>3, <2>1, <2>2 DEF Files, Has
<1>18. Agreement' /\ Degraded'
  BY <1>3, <1>10, <1>13 DEF Agreement, Degraded, Has
<1>19. History'
  <2>1. \A i \in ToSet(traffic.stored) : i \in Owned
    BY <1>1, StoredIsOwned
  <2>2. \A x \in Uploads : x \in Owned
    BY DEF Owned
  <2>3. Has(manifest'.items, u)
    BY <1>2, <1>4, <1>13, <2>2 DEF Lists
  <2>4. \A i \in Owned : Has(manifest'.items, i) <=> Has(manifest.items, i)
    BY <1>11, <1>13
  <2>5. \A i \in ToSet(traffic.stored) : Has(manifest'.items, i) \/ i \in evicted
    BY <1>2, <2>1, <2>4 DEF History
  <2>6. \A x \in Uploads : request'[x] = "done" => Has(manifest'.items, x) \/ x \in evicted
    BY <1>2, <1>3, <2>2, <2>3, <2>4 DEF History
  <2>7. \A x \in Uploads : Has(manifest'.items, x) \/ Has(entries, x) => x \in receipts' \cup kept'
    BY <1>2, <1>5, <1>6, <2>2, <2>4 DEF History
  <2>8. \A x \in receipts' : ToSet(victims'[x]) \cap Uploads \subseteq kept'
    BY <1>2, <1>5, <1>6 DEF History
  <2> QED BY <1>3, <2>5, <2>6, <2>7, <2>8 DEF History, Has
<1>20. Readers'
  <2>1. \A l \in Leases : Reading(l) /\ wanted[l] \in Owned => Has(entries', wanted[l])
    BY <1>1, <1>3 DEF Readers
  <2> QED BY <1>1, <1>3, <1>4, <2>1, ReadersStay
<1>21. Down'
  BY DEF Goes, Down
<1>22. ArtifactTypeOK'
  <2>1. manifest' \in [items : Seq(Items), pending : SUBSET Owned]
    BY <1>1, <1>5, <1>7 DEF ArtifactTypeOK, Disk
  <2>2. pending' \subseteq Owned /\ receipts' \subseteq Uploads /\ kept' \subseteq Uploads
    BY <1>1, <1>4, <1>5, <1>6, <1>7 DEF ArtifactTypeOK
  <2> QED BY <1>1, <1>3, <1>6, <1>9, <2>1, <2>2 DEF ArtifactTypeOK, EndsFor, Contents
<1> QED BY <1>4, <1>6, <1>14, <1>15, <1>16, <1>17, <1>18, <1>19, <1>20, <1>21, <1>22
        DEF ArtifactIInv, Shelf

\* Nothing is left to end.
LEMMA NothingToEndKeeps ==
  ASSUME ArtifactIInv, Goes, NEW u \in Uploads, NothingToEnd, EndsFor(u), UNCHANGED <<entries, evicted>>,
         request'[u] = "done" => request[u] = "done", Phases', Receipts', NobodyReturns
  PROVE  ArtifactIInv'
<1>1. /\ UNCHANGED <<file, manifest, pending, receipts, victims, pins, guards, kept, present, leases,
                     degraded, registryClosed, cancelled, reader, wanted, registering, moving, traffic,
                     entries, evicted>>
      /\ moving = NoItem
  BY DEF NothingToEnd, EndsFor
<1>2. Quiet(u)
  <2>1. FilesStay
    BY <1>1 DEF FilesStay
  <2> QED BY <1>1, <2>1 DEF Quiet, EndsFor, registry
<1>3. ArtifactTypeOK'
  BY <1>1 DEF EndsFor, ArtifactIInv, ArtifactTypeOK
<1> QED BY <1>2, <1>3, QuietUpload

\* The acknowledgement, the abandonment and the roll-back.
LEMMA AckRunsKeeps ==
  ASSUME ArtifactIInv, Goes, NEW u \in Uploads, NEW fault, AckRuns(u, fault)
  PROVE  ArtifactIInv'
<1>1. ArtifactTypeOK /\ Phases /\ Receipts
  BY DEF ArtifactIInv, Course
<1>2. /\ UNCHANGED <<present, entries, leases, degraded, registryClosed, cancelled, reader,
                     wanted, registering, moving, traffic, evicted>>
      /\ moving = NoItem /\ ToRun("ack", u)
      /\ IF u \in receipts THEN Concludes(u, fault) ELSE NothingToEnd
  BY DEF AckRuns, Run, ToRun
<1>3. \/ request' = [request EXCEPT ![u] = "done"] /\ threads' = Ended("ack", u) /\ request[u] = "ack"
      \/ /\ request' = [request EXCEPT ![u] = "rollback"] /\ request[u] = "ack"
         /\ threads' = Ended("ack", u) \cup {<<"rollback", u>>}
      \/ request' = request /\ threads' = Ended("ack", u)
  BY DEF AckRuns
<1>4. receipts' = receipts \ {u}
  BY <1>2 DEF Concludes, ReleaseGuards, NothingToEnd
<1>5. /\ Phases' /\ Receipts' /\ NobodyReturns
      /\ request'[u] = "done" => u \in receipts \/ request[u] = "done"
  BY <1>1, <1>4, AckMoves
<1>6. EndsFor(u)
  <2>1. faults' \in 0..traffic'.faults
    BY <1>1, <1>2, MeetsFacts DEF AckRuns
  <2>2. "rollback" \in Ops
    BY DEF Ops
  <2>3. threads' \subseteq Ops \X (Uploads \cup Paths \cup Leases \cup {NoItem})
    BY <1>1, <1>3, <2>2 DEF ArtifactTypeOK, Ended
  <2>4. \A o, x : x # u => (ToRun(o, x)' <=> ToRun(o, x))
    BY <1>3 DEF ToRun, Ended
  <2>5. /\ request' \in [Uploads -> {"new", "write", "publish", "closing", "ack", "rollback",
                                    "abandon", "done", "over"}]
        /\ \A x \in Uploads : request'[x] = "done" => request[x] = "done" \/ x = u
        /\ \A x \in Uploads : request[x] = "done" => request'[x] = "done"
    BY <1>1, <1>3 DEF ArtifactTypeOK
  <2> QED BY <1>2, <2>1, <2>3, <2>4, <2>5 DEF EndsFor
<1>7. CASE u \in receipts
  BY <1>2, <1>5, <1>6, <1>7, ConcludesKeeps
<1>8. CASE u \notin receipts
  BY <1>2, <1>5, <1>6, <1>8, NothingToEndKeeps
<1> QED BY <1>7, <1>8

LEMMA AbandonRunsKeeps ==
  ASSUME ArtifactIInv, Goes, NEW u \in Uploads, NEW fault, AbandonRuns(u, fault)
  PROVE  ArtifactIInv'
<1>1. ArtifactTypeOK /\ Phases /\ Receipts
  BY DEF ArtifactIInv, Course
<1>2. /\ UNCHANGED <<present, entries, leases, degraded, registryClosed, cancelled, reader,
                     wanted, registering, moving, traffic, evicted>>
      /\ moving = NoItem
      /\ IF u \in receipts THEN Concludes(u, fault) ELSE NothingToEnd
      /\ request' = [request EXCEPT ![u] = IF @ = "abandon" THEN "over" ELSE @]
      /\ threads' = Ended("abandon", u)
  BY DEF AbandonRuns, Run
<1>4. receipts' = receipts \ {u}
  BY <1>2 DEF Concludes, ReleaseGuards, NothingToEnd
<1>5. Phases' /\ Receipts' /\ NobodyReturns
  BY <1>1, <1>4, AbandonMoves
<1>6. EndsFor(u) /\ (request'[u] = "done" => request[u] = "done")
  <2>1. faults' \in 0..traffic'.faults
    BY <1>1, <1>2, MeetsFacts DEF AbandonRuns
  <2>3. threads' \subseteq Ops \X (Uploads \cup Paths \cup Leases \cup {NoItem})
    BY <1>1, <1>2 DEF ArtifactTypeOK, Ended
  <2>4. \A o, x : x # u => (ToRun(o, x)' <=> ToRun(o, x))
    BY <1>2 DEF ToRun, Ended
  <2>5. /\ request' \in [Uploads -> {"new", "write", "publish", "closing", "ack", "rollback",
                                    "abandon", "done", "over"}]
        /\ \A x \in Uploads : request'[x] = "done" <=> request[x] = "done"
    BY <1>1, <1>2 DEF ArtifactTypeOK
  <2> QED BY <1>2, <2>1, <2>3, <2>4, <2>5 DEF EndsFor
<1>7. CASE u \in receipts
  BY <1>2, <1>5, <1>6, <1>7, ConcludesKeeps
<1>8. CASE u \notin receipts
  BY <1>2, <1>5, <1>6, <1>8, NothingToEndKeeps
<1> QED BY <1>7, <1>8

\* The entry is committed with its receipt.
LEMMA PublishSavesKeeps ==
  ASSUME ArtifactIInv, Goes, NEW u \in Uploads, PublishSaves(u)
  PROVE  ArtifactIInv'
<1> DEFINE ousted == ToSet(victims[u])
           given == Without(entries, ousted)
<1>1. ArtifactTypeOK /\ Course /\ Shelf /\ Plan /\ Pins /\ Readers
  BY DEF ArtifactIInv
<1>2. NewComers /\ Lists /\ Files /\ Guards /\ Agreement /\ Degraded /\ History
  BY <1>1 DEF Shelf
<1>3. /\ moving = u /\ moving' = NoItem
      /\ entries' = Append(given, u)
      /\ pending' = pending \cup (ousted \cap Owned)
      /\ guards' = [i \in Owned |-> guards[i] + (IF i \in ousted THEN 1 ELSE 0)]
      /\ evicted' = evicted \cup ousted
      /\ manifest' = Disk(entries', pending')
      /\ receipts' = receipts \cup {u}
      /\ pins' = [pins EXCEPT ![u] = @ + 1]
      /\ cancelled' = cancelled \ {u}
      /\ threads' = Ended("publish", u) \cup Follows(u)
      /\ request' = [request EXCEPT ![u] = IF @ = "over" THEN @
                                       ELSE IF u \in cancelled THEN "rollback" ELSE "closing"]
      /\ UNCHANGED <<file, present, victims, leases, degraded, registryClosed, reader, wanted,
                     registering, traffic, faults, kept>>
  BY DEF PublishSaves, rest
<1>4. /\ ToRun("publish", u) /\ u \notin receipts /\ request[u] # "done" /\ u \in Owned /\ u # NoItem
      /\ u \in Items /\ Foreign(u) /\ ~degraded /\ u \notin pending
  <2>1. ToRun("publish", u) /\ u # NoItem /\ ~degraded
    BY <1>1, <1>2, <1>3, NoUpload DEF Course, Movement, Degraded
  <2>2. u \notin receipts /\ Foreign(u) /\ u \notin pending
    BY <1>2, <2>1 DEF NewComers, Unpublished
  <2>3. request[u] # "done"
    BY <1>1, <2>1 DEF Course, Phases, PhaseOf
  <2> QED BY <2>1, <2>2, <2>3 DEF Owned, Items
<1>5. /\ Len(victims[u]) <= 1 /\ Len(entries) - Len(victims[u]) < MaxEntries
      /\ ousted \subseteq ToSet(entries) \ receipts
      /\ \A l \in Leases : Reading(l) => wanted[l] \notin ousted
      /\ file[u] = "bin" /\ victims[u] \in Seq(Items) /\ ousted \subseteq Items
  <2>1. /\ Len(victims[u]) <= 1 /\ Len(entries) - Len(victims[u]) < MaxEntries
        /\ ousted \subseteq ToSet(entries) \ receipts
        /\ \A l \in Leases : Reading(l) => wanted[l] \notin ousted
        /\ file[u] = "bin"
    BY <1>1, <1>3, <1>4 DEF Plan
  <2>2. victims[u] \in Seq(Items)
    BY <1>1 DEF ArtifactTypeOK
  <2>3. ousted \subseteq Items
    BY <2>2 DEF ToSet
  <2> QED BY <2>1, <2>2, <2>3
<1>6. /\ entries \in Seq(Items) /\ Distinct(entries) /\ Len(entries) \in Nat /\ Len(entries) <= MaxEntries
      /\ u \notin ToSet(entries)
  BY <1>1, <1>2, <1>4 DEF ArtifactTypeOK, Lists, Foreign, Has
<1>7. /\ given \in Seq(Items) /\ Len(given) \in Nat /\ Len(given) <= Len(entries)
      /\ ToSet(given) = ToSet(entries) \ ousted /\ Distinct(given)
      /\ ToSet(entries) \cap ousted # {} => Len(given) < Len(entries)
  BY <1>6, DropFacts
<1>8. Len(given) < MaxEntries
  <2>1. Len(victims[u]) \in Nat
    BY <1>5
  <2>2. CASE Len(victims[u]) = 0
    BY <1>5, <1>6, <1>7, <2>2, Parameters
  <2>3. CASE Len(victims[u]) # 0
    <3>1. victims[u][1] \in ousted
      BY <1>5, <2>1, <2>3 DEF ToSet
    <3>2. ToSet(entries) \cap ousted # {}
      BY <1>5, <3>1
    <3> QED BY <1>6, <1>7, <3>2, Parameters
  <2> QED BY <2>2, <2>3
<1> HIDE DEF given, ousted
<1>9. /\ entries' \in Seq(Items) /\ Len(entries') <= MaxEntries /\ Distinct(entries')
      /\ ToSet(entries') = (ToSet(entries) \ ousted) \cup {u}
  <2>1. /\ Append(given, u) \in Seq(Items) /\ Len(Append(given, u)) = Len(given) + 1
        /\ ToSet(Append(given, u)) = ToSet(given) \cup {u}
        /\ Distinct(Append(given, u))
    BY <1>4, <1>6, <1>7, AddedFacts
  <2>2. Len(Append(given, u)) <= MaxEntries
    BY <1>7, <1>8, <2>1, Parameters
  <2> QED BY <1>3, <1>7, <2>1, <2>2
<1>10. Phases' /\ Receipts' /\ NobodyReturns /\ ~Unpublished(u)'
  BY <1>1, <1>4, PublishSavesMoves DEF Course
<1>11. /\ \A i : Has(entries', i) <=> (Has(entries, i) /\ i \notin ousted) \/ i = u
       /\ \A i \in ousted : Has(entries, i) /\ i \notin receipts /\ i # u
       /\ \A i : Has(victims[u], i) <=> i \in ousted
  BY <1>5, <1>6, <1>9 DEF Has, ousted
<1>12. manifest'.items = entries' /\ manifest'.pending = pending'
  BY <1>3 DEF Disk
<1>13. \A i \in Owned : Has(manifest.items, i) <=> Has(entries, i)
  BY <1>2, <1>4 DEF Agreement, Goes
<1>14. /\ \A o, x : x # u => (ToRun(o, x)' <=> ToRun(o, x))
       /\ threads' \subseteq Ops \X (Uploads \cup Paths \cup Leases \cup {NoItem})
  <2>1. Follows(u) \subseteq {"settle", "rollback"} \X {u} /\ {"settle", "rollback"} \subseteq Ops
    BY DEF Follows, Ops
  <2>2. \A o, x : x # u => (ToRun(o, x)' <=> ToRun(o, x))
    BY <1>3, <2>1 DEF ToRun, Ended
  <2>3. \A t \in Follows(u) : t \in Ops \X (Uploads \cup Paths \cup Leases \cup {NoItem})
    BY DEF Follows, Ops
  <2>4. threads \subseteq Ops \X (Uploads \cup Paths \cup Leases \cup {NoItem})
    BY <1>1 DEF ArtifactTypeOK
  <2>5. threads' \subseteq Ops \X (Uploads \cup Paths \cup Leases \cup {NoItem})
    BY <1>3, <2>3, <2>4 DEF Ended
  <2> QED BY <2>2, <2>5
<1>15. /\ \A p \in Paths : ToRun("register", p)' <=> ToRun("register", p)
       /\ \A l \in Leases : ToRun("lease", l)' <=> ToRun("lease", l)
       /\ ToRun("close", NoItem)' <=> ToRun("close", NoItem)
  BY <1>14, NoUpload, OthersWait
<1>16. PathsStay
  BY <1>3, <1>15 DEF PathsStay, Unregistered
<1>17. \A x \in Uploads : request'[x] = "done" <=> request[x] = "done"
  BY <1>1, <1>3, <1>4 DEF ArtifactTypeOK
<1>18. Course'
  <2>1. Movement' /\ Closing'
    BY <1>1, <1>3, <1>15 DEF Course, Movement, Closing
  <2> QED BY <1>10, <2>1 DEF Course
<1>19. NewComers'
  <2>1. ASSUME NEW x \in Uploads, Unpublished(x)'
        PROVE  /\ Foreign(x)' /\ x \notin pending' \cup manifest'.pending \cup receipts'
               /\ moving' # x => file'[x] # "bin"
    <3>1. x # u /\ Unpublished(x)
      BY <1>10, <2>1 DEF NobodyReturns
    <3>2. /\ Foreign(x) /\ x \notin pending \cup manifest.pending \cup receipts
          /\ moving # x => file[x] # "bin"
      BY <1>2, <3>1 DEF NewComers
    <3>3. x \notin ousted
      BY <1>11, <3>2 DEF Foreign
    <3>4. ~Has(entries', x) /\ ~Has(manifest'.items, x)
      BY <1>11, <1>12, <3>1, <3>2 DEF Foreign
    <3>5. \A w \in receipts' : ~Has(victims'[w], x)
      BY <1>3, <1>11, <3>2, <3>3 DEF Foreign
    <3> QED BY <1>3, <1>12, <3>1, <3>2, <3>3, <3>4, <3>5 DEF Foreign, Has
  <2>2. ASSUME NEW p \in Paths, Unregistered(p)' PROVE Foreign(p)'
    <3>1. Foreign(p) /\ p # u
      BY <1>2, <1>16, <2>2, NoUpload DEF PathsStay, NewComers
    <3>2. ~Has(entries', p) /\ ~Has(manifest'.items, p)
      BY <1>11, <1>12, <3>1 DEF Foreign
    <3>3. \A w \in receipts' : ~Has(victims'[w], p)
      BY <1>3, <1>11, <3>1 DEF Foreign
    <3> QED BY <3>2, <3>3 DEF Foreign, Has
  <2> QED BY <2>1, <2>2 DEF NewComers
<1>20. Lists'
  <2>1. Distinct(entries)' /\ Distinct(manifest.items)' /\ Len(manifest'.items) <= MaxEntries
        /\ Len(entries') <= MaxEntries
    BY <1>9, <1>12 DEF Distinct
  <2>2. ASSUME NEW w \in receipts'
        PROVE  /\ Has(entries, w)' /\ Len(victims'[w]) <= 1
               /\ \A i \in ToSet(victims'[w]) : ~Has(entries, i)'
               /\ \A x \in receipts' \ {w} : ToSet(victims'[w]) \cap ToSet(victims'[x]) = {}
    <3>0. \A x \in receipts :
            /\ Has(entries, x) /\ Len(victims[x]) <= 1
            /\ \A i \in ToSet(victims[x]) : ~Has(entries, i) /\ i # u
            /\ \A y \in receipts \ {x} : ToSet(victims[x]) \cap ToSet(victims[y]) = {}
      BY <1>2, <1>4 DEF Lists, Foreign, Has
    <3>1. \A x \in receipts : ToSet(victims[x]) \cap ousted = {}
      BY <1>11, <3>0
    <3>2. CASE w = u
      <4>1. \A i \in ToSet(victims[u]) : ~Has(entries', i)
        BY <1>11 DEF Has
      <4>2. ToSet(victims[u]) = ousted
        BY DEF ousted
      <4> QED BY <1>3, <1>5, <1>11, <3>1, <3>2, <4>1, <4>2 DEF Has
    <3>3. CASE w # u
      <4>1. w \in receipts
        BY <1>3, <3>3
      <4>2. Has(entries', w)
        BY <1>11, <3>0, <4>1
      <4>3. \A i \in ToSet(victims[w]) : ~Has(entries', i)
        BY <1>11, <3>0, <4>1
      <4>4. \A x \in receipts' \ {w} : ToSet(victims[w]) \cap ToSet(victims[x]) = {}
        BY <1>3, <3>0, <3>1, <4>1 DEF ousted
      <4> QED BY <1>3, <3>0, <4>1, <4>2, <4>3, <4>4 DEF Has
    <3> QED BY <3>2, <3>3
  <2> QED BY <2>1, <2>2 DEF Lists
<1>21. Files'
  <2>1. ASSUME NEW i \in Owned
        PROVE  /\ Has(entries', i) => file[i] = "bin" /\ i \notin pending'
               /\ \A x \in receipts' : Has(victims[x], i) => file[i] = "bin"
    <3>1. /\ Has(entries, i) => file[i] = "bin" /\ i \notin pending
          /\ \A x \in receipts : Has(victims[x], i) => file[i] = "bin"
      BY <1>2 DEF Files
    <3>2. Has(entries', i) => file[i] = "bin" /\ i \notin pending'
      BY <1>3, <1>4, <1>5, <1>11, <3>1
    <3>3. Has(victims[u], i) => file[i] = "bin"
      BY <1>11, <3>1
    <3> QED BY <1>3, <3>1, <3>2, <3>3
  <2> QED BY <1>2, <1>3, <1>12, <2>1 DEF Files, Has, Physical
<1>22. Guards'
  <2>1. ASSUME NEW i \in Owned PROVE guards'[i] = Cardinality(Protectors(i)')
    <3>1. guards[i] = Cardinality(Protectors(i)) /\ guards'[i] = guards[i] + (IF i \in ousted THEN 1 ELSE 0)
      BY <1>2, <1>3 DEF Guards
    <3>2. IsFiniteSet(Protectors(i))
      <4>1. Protectors(i) \in SUBSET Uploads
        BY <1>1 DEF Protectors, ArtifactTypeOK
      <4> QED BY <4>1, Parameters, FS_Subset
    <3>3. CASE i \in ousted
      <4>1. Protectors(i)' = Protectors(i) \cup {u} /\ u \notin Protectors(i)
        BY <1>3, <1>4, <1>11, <3>3 DEF Protectors, Has
      <4>2. Cardinality(Protectors(i) \cup {u}) = Cardinality(Protectors(i)) + 1
        BY <3>2, <4>1, FS_AddElement
      <4> QED BY <3>1, <3>3, <4>1, <4>2
    <3>4. CASE i \notin ousted
      <4>1. Protectors(i)' = Protectors(i)
        BY <1>3, <1>11, <3>4 DEF Protectors, Has
      <4>2. guards[i] \in Int
        BY <1>1 DEF ArtifactTypeOK
      <4> QED BY <3>1, <3>4, <4>1, <4>2
    <3> QED BY <3>3, <3>4
  <2> QED BY <2>1 DEF Guards
<1>23. Pins'
  <2>1. ASSUME ~registryClosed', NEW i \in Items
        PROVE  pins'[i] = Cardinality(Holders(i)') + (IF i \in receipts' THEN 1 ELSE 0)
    <3>1. pins[i] = Cardinality(Holders(i)) + (IF i \in receipts THEN 1 ELSE 0)
      BY <1>1, <1>3, <2>1 DEF Pins
    <3>2. Holders(i)' = Holders(i) /\ Cardinality(Holders(i)) \in Nat
      BY <1>1, <1>3, HoldersFacts DEF Holders
    <3>3. pins \in [Items -> Int]
      BY <1>1 DEF ArtifactTypeOK
    <3>4. CASE i = u
      <4>1. pins'[i] = pins[i] + 1 /\ i \in receipts' /\ i \notin receipts
        BY <1>3, <1>4, <3>3, <3>4
      <4> QED BY <3>1, <3>2, <4>1
    <3>5. CASE i # u
      <4>1. pins'[i] = pins[i] /\ (i \in receipts' <=> i \in receipts)
        BY <1>3, <1>4, <3>3, <3>5
      <4> QED BY <3>1, <3>2, <4>1
    <3> QED BY <3>4, <3>5
  <2> QED BY <2>1 DEF Pins
<1>24. Agreement' /\ Degraded'
  BY <1>3, <1>4, <1>12 DEF Agreement, Degraded
<1>25. History'
  <2>1. \A i \in ToSet(traffic.stored) : i \in Owned
    BY <1>1, StoredIsOwned
  <2>2. \A x \in Uploads : x \in Owned
    BY DEF Owned
  <2>3. \A i \in Owned : Has(manifest.items, i) => Has(manifest'.items, i) \/ i \in evicted'
    BY <1>3, <1>11, <1>12, <1>13
  <2>4. \A i \in ToSet(traffic.stored) : Has(manifest'.items, i) \/ i \in evicted'
    BY <1>2, <1>3, <2>1, <2>3 DEF History
  <2>5. \A x \in Uploads : request'[x] = "done" => Has(manifest'.items, x) \/ x \in evicted'
    BY <1>2, <1>3, <1>17, <2>2, <2>3 DEF History
  <2>6. \A x \in Uploads : Has(manifest'.items, x) \/ Has(entries', x) => x \in receipts' \cup kept'
    BY <1>2, <1>3, <1>11, <1>12 DEF History
  <2>7. ousted \cap Uploads \subseteq kept
    BY <1>2, <1>11 DEF History
  <2>8. \A x \in receipts' : ToSet(victims'[x]) \cap Uploads \subseteq kept'
    BY <1>2, <1>3, <2>7 DEF History, ousted
  <2> QED BY <1>3, <2>4, <2>5, <2>6, <2>8 DEF History, Has
<1>26. Readers'
  <2>1. Known \subseteq Known'
    BY <1>3, <1>17, KnownGrows
  <2>2. \A l \in Leases : Reading(l) /\ wanted[l] \in Owned => Has(entries', wanted[l])
    BY <1>1, <1>5, <1>11 DEF Readers
  <2> QED BY <1>1, <1>3, <1>15, <2>1, <2>2, ReadersStay
<1>27. Plan' /\ Down'
  BY <1>3 DEF Plan, Goes, Down
<1>28. ArtifactTypeOK'
  <2>1. pending' \subseteq Owned /\ receipts' \subseteq Uploads /\ evicted' \subseteq Items
    BY <1>1, <1>3, <1>5 DEF ArtifactTypeOK
  <2>2. manifest' \in [items : Seq(Items), pending : SUBSET Owned]
    BY <1>3, <1>9, <2>1 DEF Disk
  <2>3. guards' \in [Owned -> Int] /\ pins' \in [Items -> Int]
    <3>1. guards \in [Owned -> Int] /\ pins \in [Items -> Int]
      BY <1>1 DEF ArtifactTypeOK
    <3>2. \A i \in Owned : guards[i] + (IF i \in ousted THEN 1 ELSE 0) \in Int
      BY <3>1
    <3>3. guards' \in [Owned -> Int]
      BY <1>3, <3>2
    <3>4. pins[u] + 1 \in Int
      BY <1>4, <3>1
    <3>5. pins' \in [Items -> Int]
      BY <1>3, <3>1, <3>4
    <3> QED BY <3>3, <3>5
  <2>4. /\ request' \in [Uploads -> {"new", "write", "publish", "closing", "ack", "rollback",
                                    "abandon", "done", "over"}]
        /\ cancelled' \subseteq Uploads
    BY <1>1, <1>3 DEF ArtifactTypeOK
  <2>5. moving' \in Uploads \cup {NoItem}
    BY <1>3
  <2> QED BY <1>1, <1>3, <1>9, <1>14, <2>1, <2>2, <2>3, <2>4, <2>5 DEF ArtifactTypeOK
<1> QED BY <1>18, <1>19, <1>20, <1>21, <1>22, <1>23, <1>24, <1>25, <1>26, <1>27, <1>28
        DEF ArtifactIInv, Shelf

\* Withdrawn, a publication gives way to its victims.
LEMMA WithdrawsKeeps ==
  ASSUME ArtifactIInv, Goes, NEW u \in receipts, NEW fault, Withdraws(u, fault), EndsFor(u),
         \A x \in Uploads : request'[x] = "done" => request[x] = "done",
         Phases', Receipts', NobodyReturns
  PROVE  ArtifactIInv'
<1> DEFINE unlinks == fault # "unlink"
           V == ToSet(victims[u])
           given == Without(entries, {u} \cup V)
           due == (pending \ V) \cup {u}
           gone == Reaped(due, guards', unlinks)
<1>1. ArtifactTypeOK /\ Course /\ Shelf /\ Pins /\ Readers
  BY DEF ArtifactIInv
<1>2. NewComers /\ Lists /\ Files /\ Guards /\ Agreement /\ Degraded /\ History
  BY <1>1 DEF Shelf
<1>3. /\ UNCHANGED <<present, leases, degraded, registryClosed, cancelled, reader, wanted, registering,
                     moving, traffic>>
      /\ moving = NoItem
  BY DEF EndsFor
<1>4. /\ PathsStay /\ Movement' /\ Plan' /\ Closing' /\ Known \subseteq Known'
      /\ \A l \in Leases : ToRun("lease", l)' => ToRun("lease", l)
      /\ u \in Uploads /\ u \in Owned /\ u \in Items
  BY <1>1, EndsForFacts DEF ArtifactTypeOK, Owned, Items
<1>5. /\ entries' = victims[u] \o given
      /\ ReleaseGuards(u) /\ pending' = due \ gone /\ file' = Erase(file, gone)
      /\ manifest' = Disk(entries', due) \/ manifest' = Disk(entries', due \ gone)
      /\ evicted' = evicted \ V /\ kept' = kept
  BY DEF Withdraws
<1>6. /\ Guards' /\ Pins'
      /\ receipts' = receipts \ {u} /\ guards' \in [Owned -> Int] /\ pins' \in [Items -> Int]
      /\ victims' \in [Uploads -> Seq(Items)]
      /\ \A x \in receipts' : victims'[x] = victims[x]
  BY <1>1, <1>2, <1>3, <1>5, ReleaseKeepsCounts
<1>7. /\ file \in [Owned -> Contents] /\ pending \in SUBSET Owned /\ receipts \in SUBSET Uploads
      /\ victims[u] \in Seq(Items)
  BY <1>1, <1>4 DEF ArtifactTypeOK, Contents
<1>8. due \in SUBSET Owned
  BY <1>4, <1>7
<1>9. /\ \A x \in receipts :
           /\ Has(entries, x) /\ Len(victims[x]) <= 1
           /\ \A i \in ToSet(victims[x]) : ~Has(entries, i)
           /\ \A y \in receipts \ {x} : ToSet(victims[x]) \cap ToSet(victims[y]) = {}
      /\ entries \in Seq(Items) /\ Distinct(entries) /\ Len(entries) <= MaxEntries /\ Len(entries) \in Nat
  <2>1. entries \in Seq(Items) /\ Len(entries) \in Nat
    BY <1>1 DEF ArtifactTypeOK
  <2>2. Distinct(entries) /\ Len(entries) <= MaxEntries
    BY <1>2 DEF Lists
  <2>3. \A x \in receipts :
           /\ Has(entries, x) /\ Len(victims[x]) <= 1
           /\ \A i \in ToSet(victims[x]) : ~Has(entries, i)
           /\ \A y \in receipts \ {x} : ToSet(victims[x]) \cap ToSet(victims[y]) = {}
    BY <1>2 DEF Lists
  <2> QED BY <2>1, <2>2, <2>3
<1>10. /\ V \subseteq Items /\ V \cap ToSet(entries) = {} /\ u \in ToSet(entries) /\ u \notin V
       /\ Len(victims[u]) \in Nat /\ Len(victims[u]) <= 1
       /\ \A x \in receipts \ {u} : V \cap ToSet(victims[x]) = {}
  <2>1. V \subseteq Items /\ Len(victims[u]) \in Nat
    BY <1>7 DEF ToSet
  <2> QED BY <1>9, <2>1 DEF Has
<1>11. Distinct(victims[u])
  <2>1. DOMAIN victims[u] = 1..Len(victims[u])
    BY <1>7
  <2>2. \A i, j \in DOMAIN victims[u] : i = j
    BY <1>10, <2>1
  <2> QED BY <2>2 DEF Distinct
<1>12. /\ given \in Seq(Items) /\ Len(given) \in Nat /\ Len(given) < Len(entries)
       /\ ToSet(given) = ToSet(entries) \ ({u} \cup V) /\ Distinct(given)
  BY <1>9, <1>10, DropFacts
<1>v. \A i : Has(victims[u], i) <=> i \in V
  BY DEF Has
<1> HIDE DEF V, given, due, gone
<1>13. /\ entries' \in Seq(Items) /\ Len(entries') <= MaxEntries /\ Distinct(entries')
       /\ ToSet(entries') = V \cup (ToSet(entries) \ {u})
  <2>1. /\ victims[u] \o given \in Seq(Items)
        /\ Len(victims[u] \o given) = Len(victims[u]) + Len(given)
        /\ ToSet(victims[u] \o given) = ToSet(victims[u]) \cup ToSet(given)
        /\ ToSet(victims[u]) \cap ToSet(given) = {} => Distinct(victims[u] \o given)
    BY <1>7, <1>11, <1>12, LongerFacts
  <2>2. ToSet(victims[u]) = V
    BY DEF V
  <2>3. Len(victims[u]) + Len(given) <= MaxEntries
    BY <1>9, <1>10, <1>12, Parameters
  <2> QED BY <1>5, <1>10, <1>12, <2>1, <2>2, <2>3
<1>14. /\ gone \subseteq due
       /\ \A i \in gone : \A x \in receipts' : ~Has(victims[x], i)
  <2>1. receipts' \in SUBSET Uploads
    BY <1>6, <1>7
  <2> QED BY <1>6, <1>8, <2>1, GoneAfterwards DEF gone
<1>15. /\ file' \in [Owned -> Contents] /\ Physical(file') <= Physical(file)
       /\ \A i \in Owned : (i \in gone => file'[i] = "none") /\ (i \notin gone => file'[i] = file[i])
  BY <1>5, <1>7, EraseFacts
<1>16. ~degraded /\ ~degraded'
  BY <1>2, <1>3 DEF Degraded
<1>17. \A i \in Owned : Has(manifest.items, i) <=> Has(entries, i)
  BY <1>2, <1>16 DEF Agreement, Goes
<1>18. /\ manifest'.items = entries' /\ manifest'.pending \subseteq due
       /\ manifest' \in [items : Seq(Items), pending : SUBSET Owned]
  <2>1. \E ps \in SUBSET Owned : ps \subseteq due /\ manifest' = Disk(entries', ps)
    <3>1. due \ gone \in SUBSET Owned
      BY <1>8
    <3> QED BY <1>5, <1>8, <3>1
  <2>2. PICK ps \in SUBSET Owned : ps \subseteq due /\ manifest' = Disk(entries', ps)
    BY <2>1
  <2> QED BY <1>13, <2>2 DEF Disk
<1>19. \A i : Has(entries', i) <=> i \in V \/ (Has(entries, i) /\ i # u)
  BY <1>10, <1>13 DEF Has
<1>20. \A i : i \in due <=> (i \in pending /\ i \notin V) \/ i = u
  BY DEF due
<1>21. Course'
  BY <1>4 DEF Course
<1>22. NewComers'
  <2>1. \A i \in Items : ~Foreign(i)' => ~Foreign(i)
    <3>1. \A i \in Items : ~Foreign(i)' =>
            Has(entries', i) \/ Has(manifest'.items, i) \/ \E x \in receipts' : Has(victims'[x], i)
      BY DEF Foreign, Has
    <3>2. \A i \in Items : Has(entries', i) \/ Has(manifest'.items, i) =>
            Has(victims[u], i) \/ Has(entries, i)
      BY <1>18, <1>19, <1>v
    <3> QED BY <1>6, <3>1, <3>2 DEF Foreign
  <2>2. \A i \in Uploads : i \in pending' \cup manifest'.pending =>
            i \in pending \cup manifest.pending \/ ~Foreign(i)
    <3>1. ~Foreign(u)
      BY <1>10 DEF Foreign, Has
    <3> QED BY <1>5, <1>18, <1>20, <3>1
  <2>3. \A x \in Uploads : file'[x] = "bin" /\ moving' # x => file[x] = "bin" /\ moving # x
    BY <1>3, <1>15, NoUpload DEF Owned
  <2> QED BY <1>2, <1>4, <1>6, <2>1, <2>2, <2>3, NoNewComers
<1>23. Lists'
  <2>1. Distinct(entries)' /\ Distinct(manifest.items)' /\ Len(manifest'.items) <= MaxEntries
        /\ Len(entries') <= MaxEntries
    BY <1>13, <1>18 DEF Distinct
  <2>2. ASSUME NEW w \in receipts'
        PROVE  /\ Has(entries, w)' /\ Len(victims'[w]) <= 1
               /\ \A i \in ToSet(victims'[w]) : ~Has(entries, i)'
               /\ \A x \in receipts' \ {w} : ToSet(victims'[w]) \cap ToSet(victims'[x]) = {}
    <3>1. w \in receipts /\ w # u /\ victims'[w] = victims[w]
      BY <1>6, <2>2
    <3>2. Has(entries', w)
      BY <1>9, <1>19, <3>1
    <3>3. \A i \in ToSet(victims[w]) : ~Has(entries', i)
      BY <1>9, <1>10, <1>19, <3>1
    <3>4. \A x \in receipts' \ {w} : ToSet(victims[w]) \cap ToSet(victims'[x]) = {}
      BY <1>6, <1>9, <3>1
    <3> QED BY <1>9, <3>1, <3>2, <3>3, <3>4 DEF Has
  <2> QED BY <2>1, <2>2 DEF Lists
<1>24. Files'
  <2>1. ASSUME NEW i \in Owned
        PROVE  /\ Has(entries', i) => file'[i] = "bin" /\ i \notin due
               /\ \A x \in receipts' : Has(victims'[x], i) => file'[i] = "bin"
    <3>1. /\ Has(entries, i) => file[i] = "bin" /\ i \notin pending
          /\ \A x \in receipts : Has(victims[x], i) => file[i] = "bin"
      BY <1>2 DEF Files
    <3>2. Has(entries', i) => i \notin due
      BY <1>10, <1>19, <1>20, <3>1
    <3>3. Has(entries', i) => file[i] = "bin"
      BY <1>19, <1>v, <3>1
    <3>4. \A x \in receipts' : Has(victims'[x], i) => file'[i] = "bin"
      BY <1>6, <1>14, <1>15, <3>1
    <3> QED BY <1>14, <1>15, <3>2, <3>3, <3>4
  <2>2. Physical(file)' <= MaxBytes
    <3>1. Physical(file') \in Nat /\ Physical(file) \in Nat /\ Physical(file) <= MaxBytes
      BY <1>2, PhysicalFacts DEF Files
    <3>2. Physical(file') <= MaxBytes
      BY <1>15, <3>1, Parameters
    <3> QED BY <3>2 DEF Physical
  <2>3. pending' \subseteq due
    BY <1>5
  <2> QED BY <1>18, <2>1, <2>2, <2>3 DEF Files, Has
<1>25. Agreement' /\ Degraded'
  BY <1>3, <1>16, <1>18 DEF Agreement, Degraded
<1>26. History'
  <2>1. \A i \in ToSet(traffic.stored) : i \in Owned /\ i # u
    <3>1. Stored \cap Uploads = {}
      BY Parameters
    <3> QED BY <1>1, <1>4, <3>1, StoredIsOwned
  <2>2. \A x \in Uploads : x \in Owned
    BY DEF Owned
  <2>3. \A i \in Owned \ {u} : Has(manifest.items, i) \/ i \in evicted =>
            Has(manifest'.items, i) \/ i \in evicted'
    BY <1>5, <1>17, <1>18, <1>19
  <2>4. \A i \in ToSet(traffic.stored) : Has(manifest'.items, i) \/ i \in evicted'
    BY <1>2, <2>1, <2>3 DEF History
  <2>5. request[u] # "done"
    BY <1>1, <1>4 DEF Course, Receipts, ReceiptOf
  <2>6. \A x \in Uploads : request'[x] = "done" => Has(manifest'.items, x) \/ x \in evicted'
    BY <1>2, <2>2, <2>3, <2>5 DEF History
  <2>7. V \cap Uploads \subseteq kept
    BY <1>2 DEF History, V
  <2>8. \A x \in Uploads : Has(manifest'.items, x) \/ Has(entries', x) => x \in receipts' \cup kept'
    BY <1>2, <1>5, <1>6, <1>18, <1>19, <2>7 DEF History
  <2>9. \A x \in receipts' : ToSet(victims'[x]) \cap Uploads \subseteq kept'
    BY <1>2, <1>5, <1>6 DEF History
  <2> QED BY <1>3, <2>4, <2>6, <2>8, <2>9 DEF History, Has
<1>27. Readers'
  <2>1. ASSUME NEW l \in Leases, Reading(l), wanted[l] \in Owned PROVE Has(entries', wanted[l])
    <3>1. Has(entries, wanted[l]) /\ wanted[l] \in Known
      BY <1>1, <2>1 DEF Readers
    <3>2. u \notin Known
      <4>1. request[u] # "done"
        BY <1>1, <1>4 DEF Course, Receipts, ReceiptOf
      <4> QED BY <1>4, <4>1, Parameters DEF Known
    <3> QED BY <1>19, <3>1, <3>2
  <2> QED BY <1>1, <1>3, <1>4, <2>1, ReadersStay
<1>28. Down'
  BY DEF Goes, Down
<1>29. ArtifactTypeOK'
  <2>1. pending' \subseteq Owned /\ receipts' \subseteq Uploads /\ kept' \subseteq Uploads
        /\ evicted' \subseteq Items
    BY <1>1, <1>5, <1>6, <1>7, <1>8 DEF ArtifactTypeOK
  <2> QED BY <1>1, <1>3, <1>6, <1>13, <1>15, <1>18, <2>1 DEF ArtifactTypeOK, EndsFor, Contents
<1> QED BY <1>4, <1>6, <1>21, <1>22, <1>23, <1>24, <1>25, <1>26, <1>27, <1>28, <1>29
        DEF ArtifactIInv, Shelf

LEMMA RollbackRunsKeeps ==
  ASSUME ArtifactIInv, Goes, NEW u \in Uploads, NEW op \in {"rollback", "settle"}, NEW fault,
         RollbackRuns(op, u, fault)
  PROVE  ArtifactIInv'
<1> DEFINE fails == u \in receipts /\ fault = "save"
           waits == op = "rollback" /\ request[u] = "rollback"
           more == IF fails /\ (waits \/ op = "settle") THEN {<<"abandon", u>>} ELSE {}
<1>1. ArtifactTypeOK /\ Phases /\ Receipts
  BY DEF ArtifactIInv, Course
<1>2. /\ UNCHANGED <<present, leases, degraded, registryClosed, cancelled, reader, wanted,
                     registering, moving, traffic>>
      /\ moving = NoItem
      /\ IF u \in receipts /\ fault # "save" THEN Withdraws(u, fault)
         ELSE NothingToEnd /\ UNCHANGED <<entries, evicted>>
      /\ threads' = Ended(op, u) \cup more
      /\ request' = [request EXCEPT ![u] = IF ~waits THEN @ ELSE IF fails THEN "abandon" ELSE "over"]
  BY DEF RollbackRuns, Run
<1>3. receipts' = IF u \in receipts /\ fault # "save" THEN receipts \ {u} ELSE receipts
  BY <1>2 DEF Withdraws, ReleaseGuards, NothingToEnd
<1>4. Phases' /\ Receipts' /\ NobodyReturns
  BY <1>1, <1>3, RollbackMoves
<1>5. more \subseteq {<<"abandon", u>>} /\ (waits => request[u] # "done")
  OBVIOUS
<1> HIDE DEF more, fails, waits
<1>6. EndsFor(u) /\ \A x \in Uploads : request'[x] = "done" => request[x] = "done"
  <2>1. faults' \in 0..traffic'.faults
    BY <1>1, <1>2, MeetsFacts DEF RollbackRuns
  <2>2. "abandon" \in Ops
    BY DEF Ops
  <2>3. threads' \subseteq Ops \X (Uploads \cup Paths \cup Leases \cup {NoItem})
    BY <1>1, <1>2, <1>5, <2>2 DEF ArtifactTypeOK, Ended
  <2>4. \A o, x : x # u => (ToRun(o, x)' <=> ToRun(o, x))
    BY <1>2, <1>5 DEF ToRun, Ended
  <2>5. /\ request' \in [Uploads -> {"new", "write", "publish", "closing", "ack", "rollback",
                                    "abandon", "done", "over"}]
        /\ \A x \in Uploads : request'[x] = "done" <=> request[x] = "done"
    BY <1>1, <1>2, <1>5 DEF ArtifactTypeOK
  <2> QED BY <1>2, <2>1, <2>3, <2>4, <2>5 DEF EndsFor
<1>7. CASE u \in receipts /\ fault # "save"
  BY <1>2, <1>4, <1>6, <1>7, WithdrawsKeeps
<1>8. CASE ~(u \in receipts /\ fault # "save")
  BY <1>2, <1>4, <1>6, <1>8, NothingToEndKeeps
<1> QED BY <1>7, <1>8


-----------------------------------------------------------------------------
(* The exit of the process and its next start. *)

\* The empty list.
LEMMA NothingHeld ==
  /\ \A i : ~Has(<<>>, i)
  /\ Distinct(<<>>) /\ Len(<<>>) = 0
<1>1. ToSet(<<>>) = {}
  BY DEF ToSet
<1>2. Len(<<>>) = 0
  OBVIOUS
<1> QED BY <1>1, <1>2 DEF Has, Distinct

\* An exit: the types, and the invariant.
LEMMA ExitTypes ==
  ASSUME ArtifactTypeOK, ArtifactExit
  PROVE  ArtifactTypeOK'
<1>1. /\ file' \in [Owned -> {"none", "empty", "temp", "bin"}] /\ present' \subseteq Paths
      /\ manifest' \in [items : Seq(Items), pending : SUBSET Owned]
      /\ traffic' \in Traffic /\ faults' \in 0..traffic'.faults /\ evicted' \subseteq Items
  BY DEF ArtifactTypeOK, ArtifactExit, disk, rest
<1>2. /\ entries' \in Seq(Items) /\ pending' \subseteq Owned
      /\ pins' \in [Items -> Int] /\ guards' \in [Owned -> Int]
      /\ receipts' \subseteq Uploads
  BY DEF ArtifactExit
<1>3. victims' \in [Uploads -> Seq(Items)]
  <2>1. <<>> \in Seq(Items)
    OBVIOUS
  <2> QED BY <2>1 DEF ArtifactExit
<1>4. /\ leases' \in [Leases -> Items \cup {NoItem}] /\ wanted' \in [Leases -> Items \cup {NoItem}]
      /\ degraded' \in BOOLEAN /\ registryClosed' \in BOOLEAN
      /\ cancelled' \subseteq Uploads /\ moving' \in Uploads \cup {NoItem}
      /\ threads' \subseteq Ops \X (Uploads \cup Paths \cup Leases \cup {NoItem})
  BY DEF ArtifactExit
<1>5. /\ request' \in [Uploads -> {"new", "write", "publish", "closing", "ack", "rollback",
                                  "abandon", "done", "over"}]
      /\ reader' \in [Leases -> {"idle", "asked", "held", "dropped", "detached"}]
      /\ registering' \in [Paths -> {"no", "asked", "dropped", "done"}]
  BY DEF ArtifactExit
<1>6. kept' \subseteq Uploads
  BY DEF ArtifactTypeOK, ArtifactExit
<1> QED BY <1>1, <1>2, <1>3, <1>4, <1>5, <1>6 DEF ArtifactTypeOK

LEMMA ExitKeeps ==
  ASSUME ArtifactIInv, Crash, ArtifactExit
  PROVE  ArtifactIInv'
<1>1. /\ ArtifactTypeOK /\ Phases /\ Receipts /\ Movement /\ NewComers /\ Lists /\ Files
      /\ History
  BY DEF ArtifactIInv, Course, Shelf
<1>2. /\ entries' = <<>> /\ pending' = {} /\ receipts' = {} /\ threads' = {} /\ moving' = NoItem
      /\ pins' = [i \in Items |-> 0] /\ guards' = [i \in Owned |-> 0]
      /\ leases' = [l \in Leases |-> NoItem] /\ reader' = [l \in Leases |-> "idle"]
      /\ degraded' = FALSE /\ cancelled' = {} /\ kept' = kept \cup receipts
      /\ UNCHANGED <<file, manifest, traffic, evicted>>
  BY DEF ArtifactExit, disk, rest
<1>3. /\ \A u \in Uploads : request'[u] = IF request[u] \in {"new", "done"} THEN request[u] ELSE "over"
      /\ \A p \in Paths : registering'[p] = IF registering[p] = "no" THEN "no" ELSE "done"
  BY DEF ArtifactExit
<1>4. server' = "down"
  BY DEF Crash
<1>5. ArtifactTypeOK'
  BY <1>1, ExitTypes
<1>6. \A o, x : ~ToRun(o, x)'
  BY <1>2 DEF ToRun
<1>7. Course'
  <2>1. ASSUME NEW u \in Uploads PROVE PhaseOf(u)' /\ ReceiptOf(u)'
    <3>1. request'[u] \in {"new", "done", "over"} /\ u \notin cancelled' /\ u \notin receipts'
      BY <1>2, <1>3
    <3> QED BY <3>1, <1>6 DEF PhaseOf, ReceiptOf, Ops
  <2>2. Movement' /\ Closing'
    BY <1>2, <1>6 DEF Movement, Closing
  <2> QED BY <2>1, <2>2 DEF Course, Phases, Receipts
<1>8. NewComers'
  <2>1. ASSUME NEW u \in Uploads, Unpublished(u)'
        PROVE  /\ Foreign(u)' /\ u \notin pending' \cup manifest'.pending \cup receipts'
               /\ moving' # u => file'[u] # "bin"
    <3>1. request[u] = "new"
      BY <2>1, <1>3, <1>6 DEF Unpublished
    <3>2. ~ToRun("publish", u)
      BY <1>1, <3>1 DEF Phases, PhaseOf, Ops
    <3>3. moving # u
      BY <1>1, <3>2, Parameters DEF Movement, Items, Owned
    <3>4. ~Has(manifest.items, u) /\ u \notin manifest.pending /\ file[u] # "bin"
      BY <1>1, <3>1, <3>3 DEF NewComers, Unpublished, Foreign
    <3>5. Foreign(u)'
      BY <1>2, <3>4, NothingHeld DEF Foreign
    <3> QED BY <1>2, <3>4, <3>5
  <2>2. ASSUME NEW p \in Paths, Unregistered(p)' PROVE Foreign(p)'
    <3>1. registering[p] = "no"
      BY <2>2, <1>3, <1>6 DEF Unregistered
    <3>2. ~Has(manifest.items, p)
      BY <1>1, <3>1 DEF NewComers, Unregistered, Foreign
    <3> QED BY <1>2, <3>2, NothingHeld DEF Foreign
  <2> QED BY <2>1, <2>2 DEF NewComers
<1>9. Lists'
  <2>1. Distinct(entries') /\ Len(entries') <= MaxEntries
    BY <1>2, NothingHeld, Parameters
  <2>2. Distinct(manifest'.items) /\ Len(manifest'.items) <= MaxEntries
    BY <1>1, <1>2 DEF Lists
  <2> QED BY <1>2, <2>1, <2>2 DEF Lists, Distinct
<1>10. Files'
  <2>1. Physical(file') <= MaxBytes
    BY <1>1, <1>2 DEF Files
  <2>2. \A i \in Owned : Has(manifest'.items, i) => file'[i] = "bin" /\ i \notin manifest'.pending
    BY <1>1, <1>2 DEF Files
  <2>3. \A i \in Owned : ~Has(entries', i)
    BY <1>2, NothingHeld
  <2>4. Physical(file)' <= MaxBytes
    BY <2>1 DEF Physical
  <2> QED BY <1>2, <2>2, <2>3, <2>4 DEF Files
<1>11. Guards'
  <2>1. \A i \in Owned : Protectors(i)' = {}
    BY <1>2 DEF Protectors
  <2>2. \A i \in Owned : guards'[i] = 0
    BY <1>2
  <2> QED BY <2>1, <2>2, FS_EmptySet DEF Guards
<1>12. Pins'
  <2>1. ASSUME NEW i \in Items PROVE Cardinality(Holders(i)') = 0 /\ pins'[i] = 0 /\ i \notin receipts'
    <3>1. i # NoItem
      BY Parameters
    <3>2. Holders(i)' = {}
      BY <1>2, <3>1 DEF Holders
    <3> QED BY <1>2, <3>2, FS_EmptySet
  <2> QED BY <2>1 DEF Pins
<1>13. Readers'
  <2>1. {l \in Leases : leases'[l] # NoItem} = {}
    BY <1>2
  <2>2. IsFiniteSet({l \in Leases : leases[l] # NoItem}')
    BY <2>1, FS_EmptySet
  <2>3. \A l \in Leases : ~Reading(l)' /\ ~ToRun("lease", l)' /\ leases'[l] = NoItem
    BY <1>2, <1>6 DEF Reading
  <2> QED BY <2>2, <2>3 DEF Readers
<1>14. Agreement' /\ Degraded' /\ Plan' /\ Down'
  BY <1>2, <1>4 DEF Agreement, Degraded, Plan, Down
<1>15. History'
  <2>1. \A i \in ToSet(traffic'.stored) : Has(manifest'.items, i) \/ i \in evicted'
    BY <1>1, <1>2 DEF History
  <2>2. \A u \in Uploads : request'[u] = "done" => Has(manifest'.items, u) \/ u \in evicted'
    BY <1>1, <1>2, <1>3 DEF History
  <2>3. \A u \in Uploads : Has(manifest'.items, u) \/ Has(entries', u) => u \in receipts' \cup kept'
    BY <1>1, <1>2, NothingHeld DEF History
  <2> QED BY <1>2, <2>1, <2>2, <2>3 DEF History
<1> QED BY <1>5, <1>7, <1>8, <1>9, <1>10, <1>11, <1>12, <1>13, <1>14, <1>15
     DEF ArtifactIInv, Shelf

\* _load(): what it cleans up, and what it takes over.
LEMMA StartFacts ==
  ASSUME ArtifactTypeOK, Down, Files, server = "down", NEW fault, ArtifactStart(fault)
  PROVE  /\ entries = <<>> /\ receipts = {} /\ threads = {} /\ moving = NoItem /\ ~degraded
         /\ \/ degraded' /\ entries' = <<>> /\ pending' = {}
            \/ ~degraded' /\ entries' = manifest.items
         /\ pending' \in SUBSET Owned
         /\ file' \in [Owned -> Contents] /\ Physical(file') <= Physical(file)
         /\ manifest' \in [items : Seq(Items), pending : SUBSET Owned]
         /\ manifest'.items = manifest.items
         /\ \A i \in Owned : file'[i] = "bin" => file[i] = "bin"
         /\ \A i \in Owned : Has(manifest.items, i) =>
              file'[i] = "bin" /\ i \notin pending' \cup manifest'.pending
         /\ \A i \in Owned : i \in pending' \cup manifest'.pending =>
              i \in manifest.pending \/ file[i] = "bin"
<1> DEFINE clean == [i \in Owned |-> IF file[i] = "bin" THEN "bin" ELSE "none"]
           items == manifest.items
           due == manifest.pending \cup {i \in Owned : clean[i] = "bin" /\ ~Has(items, i)}
           gone == Reaped(due, guards, fault # "unlink")
<1>1. /\ entries = <<>> /\ pending = {} /\ receipts = {} /\ threads = {} /\ moving = NoItem
      /\ degraded = FALSE
  BY DEF Down, ArtifactTypeOK
<1>2. \/ /\ entries' = items
         /\ pending' = due \ gone
         /\ file' = Erase(clean, gone)
         /\ manifest' = manifest \/ manifest' = Disk(items, due \ gone)
         /\ degraded' = degraded
      \/ /\ degraded' = TRUE /\ file' = clean
         /\ entries' = entries /\ pending' = pending /\ manifest' = manifest
  BY DEF ArtifactStart
<1>3. manifest \in [items : Seq(Items), pending : SUBSET Owned]
  BY DEF ArtifactTypeOK
<1>4. due \in SUBSET Owned /\ gone \in SUBSET due
  BY <1>3 DEF Reaped
<1>5. clean \in [Owned -> Contents] /\ \A i \in Owned : clean[i] = IF file[i] = "bin" THEN "bin" ELSE "none"
  BY DEF Contents
<1>6. \A i \in Owned : i \in due => i \in manifest.pending \/ (file[i] = "bin" /\ ~Has(items, i))
  BY <1>5
<1>7. \A i \in Owned : Has(items, i) => file[i] = "bin" /\ i \notin manifest.pending /\ i \notin due
  BY <1>6 DEF Files
<1>8. /\ Erase(clean, gone) \in [Owned -> Contents]
      /\ \A i \in Owned : /\ i \in gone => Erase(clean, gone)[i] = "none"
                          /\ i \notin gone => Erase(clean, gone)[i] = clean[i]
      /\ Physical(Erase(clean, gone)) <= Physical(clean)
  <2> HIDE DEF clean, gone
  <2> QED BY <1>5, EraseFacts
<1>9. Physical(clean) <= Physical(file) /\ Physical(clean) \in Nat /\ Physical(file) \in Nat
  <2> HIDE DEF clean
  <2>1. \A i \in Owned : OnDisk(clean, i) => OnDisk(file, i)
    BY <1>5 DEF OnDisk
  <2> QED BY <2>1, PhysicalFacts
<1>10. Physical(Erase(clean, gone)) \in Nat
  BY PhysicalFacts
<1>i. items = manifest.items /\ items \in Seq(Items)
  BY <1>3
<1> HIDE DEF clean, due, gone, items
<1>11. CASE /\ entries' = items
            /\ pending' = due \ gone
            /\ file' = Erase(clean, gone)
            /\ manifest' = manifest \/ manifest' = Disk(items, due \ gone)
            /\ degraded' = degraded
  <2>1. manifest' \in [items : Seq(Items), pending : SUBSET Owned] /\ manifest'.items = items
        /\ (manifest'.pending = manifest.pending \/ manifest'.pending = due \ gone)
    BY <1>3, <1>4, <1>11, <1>i DEF Disk
  <2>2. file' \in [Owned -> Contents] /\ Physical(file') <= Physical(file)
    BY <1>8, <1>9, <1>10, <1>11
  <2>3. \A i \in Owned : file'[i] = "bin" => file[i] = "bin"
    BY <1>5, <1>8, <1>11
  <2>4. \A i \in Owned : Has(items, i) =>
              file'[i] = "bin" /\ i \notin pending' \cup manifest'.pending
    BY <1>4, <1>5, <1>7, <1>8, <1>11, <2>1
  <2>5. \A i \in Owned : i \in pending' \cup manifest'.pending =>
              i \in manifest.pending \/ file[i] = "bin"
    BY <1>6, <1>11, <2>1
  <2>6. pending' \in SUBSET Owned
    BY <1>4, <1>11
  <2> QED BY <1>1, <1>11, <1>i, <2>1, <2>2, <2>3, <2>4, <2>5, <2>6
<1>12. CASE /\ degraded' = TRUE /\ file' = clean
            /\ entries' = entries /\ pending' = pending /\ manifest' = manifest
  <2>1. \A i \in Owned : Has(items, i) =>
              file'[i] = "bin" /\ i \notin pending' \cup manifest'.pending
    BY <1>1, <1>5, <1>7, <1>12
  <2>2. \A i \in Owned : file'[i] = "bin" => file[i] = "bin"
    BY <1>5, <1>12
  <2> QED BY <1>1, <1>3, <1>5, <1>9, <1>12, <1>i, <2>1, <2>2
<1> QED BY <1>2, <1>11, <1>12

\* A start, whether the manifest fits the files or not.
LEMMA StartKeeps ==
  ASSUME ArtifactIInv, Restart, NEW fault, ArtifactStart(fault)
  PROVE  ArtifactIInv'
<1>1. /\ ArtifactTypeOK /\ Phases /\ Receipts /\ Movement /\ Closing /\ NewComers /\ Lists
      /\ Files /\ Guards /\ History /\ Pins /\ Readers /\ Down
  BY DEF ArtifactIInv, Course, Shelf
<1>2. server = "down" /\ server' = "up"
  BY DEF Restart
<1>3. /\ UNCHANGED <<present, pins, guards, receipts, victims, leases, registryClosed, threads,
                     moving, traffic, evicted, kept>>
      /\ UNCHANGED <<request, cancelled, reader, wanted, registering>>
      /\ Meets(fault)
  BY DEF ArtifactStart, clients
<1>4. /\ entries = <<>> /\ receipts = {} /\ threads = {} /\ moving = NoItem /\ ~degraded
      /\ \/ degraded' /\ entries' = <<>> /\ pending' = {}
         \/ ~degraded' /\ entries' = manifest.items
      /\ pending' \in SUBSET Owned
      /\ file' \in [Owned -> Contents] /\ Physical(file') <= Physical(file)
      /\ manifest' \in [items : Seq(Items), pending : SUBSET Owned]
      /\ manifest'.items = manifest.items
      /\ \A i \in Owned : file'[i] = "bin" => file[i] = "bin"
      /\ \A i \in Owned : Has(manifest.items, i) =>
           file'[i] = "bin" /\ i \notin pending' \cup manifest'.pending
      /\ \A i \in Owned : i \in pending' \cup manifest'.pending =>
           i \in manifest.pending \/ file[i] = "bin"
  BY <1>1, <1>2, StartFacts
<1>5. entries' = <<>> \/ entries' = manifest.items
  BY <1>4
<1>6. \A i : Has(entries', i) => Has(manifest.items, i)
  BY <1>5, NothingHeld
<1>7. \A o, x : ToRun(o, x)' <=> ToRun(o, x)
  BY <1>3 DEF ToRun
<1>8. ArtifactTypeOK'
  <2>1. entries' \in Seq(Items)
    <3>1. manifest.items \in Seq(Items) /\ <<>> \in Seq(Items)
      BY <1>1 DEF ArtifactTypeOK
    <3> QED BY <3>1, <1>5
  <2>2. faults' \in 0..traffic'.faults
    BY <1>1, <1>3, MeetsFacts
  <2>3. degraded' \in BOOLEAN
    BY <1>1 DEF ArtifactStart, ArtifactTypeOK
  <2>4. /\ present' \subseteq Paths /\ receipts' \subseteq Uploads
        /\ pins' \in [Items -> Int] /\ guards' \in [Owned -> Int]
        /\ victims' \in [Uploads -> Seq(Items)] /\ leases' \in [Leases -> Items \cup {NoItem}]
        /\ registryClosed' \in BOOLEAN /\ cancelled' \subseteq Uploads
        /\ wanted' \in [Leases -> Items \cup {NoItem}]
        /\ moving' \in Uploads \cup {NoItem} /\ traffic' \in Traffic
        /\ evicted' \subseteq Items /\ kept' \subseteq Uploads
    BY <1>1, <1>3 DEF ArtifactTypeOK
  <2>5. /\ request' \in [Uploads -> {"new", "write", "publish", "closing", "ack", "rollback",
                                  "abandon", "done", "over"}]
        /\ reader' \in [Leases -> {"idle", "asked", "held", "dropped", "detached"}]
        /\ registering' \in [Paths -> {"no", "asked", "dropped", "done"}]
        /\ threads' \subseteq Ops \X (Uploads \cup Paths \cup Leases \cup {NoItem})
    BY <1>1, <1>3 DEF ArtifactTypeOK
  <2> QED BY <1>4, <2>1, <2>2, <2>3, <2>4, <2>5 DEF ArtifactTypeOK, Contents
<1>9. Phases' /\ Receipts' /\ NobodyReturns
  BY <1>1, <1>3, <1>7, NoUploadMoves
<1>10. Movement' /\ Closing' /\ Plan' /\ Down'
  BY <1>1, <1>2, <1>3, <1>4, <1>7 DEF Movement, Closing, Plan, Down
<1>11. NewComers'
  <2>1. ASSUME NEW u \in Uploads, Unpublished(u)'
        PROVE  /\ Foreign(u)' /\ u \notin pending' \cup manifest'.pending \cup receipts'
               /\ moving' # u => file'[u] # "bin"
    <3>1. Unpublished(u) /\ u \in Owned /\ moving # u
      BY <2>1, <1>4, <1>9, Parameters DEF NobodyReturns, Owned, Items
    <3>2. ~Has(manifest.items, u) /\ u \notin manifest.pending /\ file[u] # "bin"
      BY <1>1, <3>1 DEF NewComers, Foreign
    <3>3. Foreign(u)'
      BY <1>3, <1>4, <1>6, <3>2 DEF Foreign
    <3>4. u \notin pending' \cup manifest'.pending /\ file'[u] # "bin"
      BY <1>4, <3>1, <3>2
    <3> QED BY <1>3, <1>4, <3>3, <3>4
  <2>2. ASSUME NEW p \in Paths, Unregistered(p)' PROVE Foreign(p)'
    <3>1. Unregistered(p)
      BY <2>2, <1>3, <1>7 DEF Unregistered
    <3>2. ~Has(manifest.items, p)
      BY <1>1, <3>1 DEF NewComers, Foreign
    <3> QED BY <1>3, <1>4, <1>6, <3>2 DEF Foreign
  <2> QED BY <2>1, <2>2 DEF NewComers
<1>12. Lists'
  <2>1. Distinct(manifest.items) /\ Len(manifest.items) <= MaxEntries
    BY <1>1 DEF Lists
  <2>2. Distinct(entries') /\ Len(entries') <= MaxEntries
    BY <1>5, <2>1, NothingHeld, Parameters
  <2>3. Distinct(manifest'.items) /\ Len(manifest'.items) <= MaxEntries /\ receipts' = {}
    BY <1>3, <1>4, <2>1
  <2> QED BY <2>2, <2>3 DEF Lists, Distinct
<1>13. Files'
  <2>1. Physical(file) \in Nat /\ Physical(file') \in Nat
    BY PhysicalFacts
  <2>2. Physical(file') <= MaxBytes
    BY <1>1, <1>4, <2>1, Parameters DEF Files
  <2>3. Physical(file)' <= MaxBytes
    BY <2>2 DEF Physical
  <2>4. \A i \in Owned : Has(manifest'.items, i) => file'[i] = "bin" /\ i \notin manifest'.pending
    BY <1>4
  <2>5. \A i \in Owned : Has(entries', i) => file'[i] = "bin" /\ i \notin pending'
    BY <1>4, <1>6
  <2>6. receipts' = {}
    BY <1>3, <1>4
  <2> QED BY <2>3, <2>4, <2>5, <2>6 DEF Files
<1>14. Guards'
  BY <1>1, <1>3 DEF Guards, Protectors
<1>15. Pins'
  BY <1>1, <1>3, PinsStay
<1>16. Readers'
  <2>1. \A l \in Leases : Reading(l) => wanted[l] \notin Owned
    BY <1>1, <1>4, NothingHeld DEF Readers
  <2>2. \A l \in Leases : Reading(l)' <=> Reading(l)
    BY <1>3 DEF Reading
  <2>3. Known' = Known
    BY <1>3 DEF Known
  <2>4. IsFiniteSet({l \in Leases : leases'[l] # NoItem})
    BY <1>1, <1>3 DEF Readers
  <2> QED BY <1>1, <1>3, <1>7, <2>1, <2>2, <2>3, <2>4 DEF Readers
<1>17. Agreement' /\ Degraded'
  <2>1. ~degraded' => entries' = manifest'.items
    BY <1>4
  <2>2. degraded' => entries' = <<>>
    BY <1>4, NothingHeld
  <2> QED BY <1>3, <1>4, <2>1, <2>2 DEF Agreement, Degraded
<1>18. History'
  <2>1. \A i \in ToSet(traffic'.stored) : Has(manifest'.items, i) \/ i \in evicted'
    BY <1>1, <1>3, <1>4 DEF History
  <2>2. \A u \in Uploads : request'[u] = "done" => Has(manifest'.items, u) \/ u \in evicted'
    BY <1>1, <1>3, <1>4 DEF History
  <2>3. \A u \in Uploads : Has(manifest'.items, u) \/ Has(entries', u) => u \in receipts' \cup kept'
    BY <1>1, <1>3, <1>4, <1>6 DEF History
  <2>4. receipts' = {}
    BY <1>3, <1>4
  <2> QED BY <2>1, <2>2, <2>3, <2>4 DEF History
<1> QED BY <1>8, <1>9, <1>10, <1>11, <1>12, <1>13, <1>14, <1>15, <1>16, <1>17, <1>18
     DEF ArtifactIInv, Course, Shelf

-----------------------------------------------------------------------------
(* The server around the registry. *)

\* Steps of the event stream, and the moments in which nothing happens.
LEMMA OutsideKeeps ==
  ASSUME ArtifactIInv, UNCHANGED artifactVars, server' = "down" <=> server = "down"
  PROVE  ArtifactIInv'
<1>1. ArtifactTypeOK /\ Course /\ Shelf /\ Plan /\ Pins /\ Readers /\ Down
  BY DEF ArtifactIInv
<1>2. /\ UNCHANGED <<file, present, manifest, entries, pending, pins, guards, receipts, victims,
                     leases, degraded, registryClosed>>
      /\ UNCHANGED <<request, cancelled, reader, wanted, registering, threads, moving, traffic,
                     faults, evicted, kept>>
  BY DEF artifactVars, disk, registry, clients, rest
<1>3. ArtifactTypeOK'
  <2>1. /\ file' \in [Owned -> {"none", "empty", "temp", "bin"}] /\ present' \subseteq Paths
        /\ manifest' \in [items : Seq(Items), pending : SUBSET Owned]
        /\ entries' \in Seq(Items) /\ pending' \subseteq Owned
        /\ pins' \in [Items -> Int] /\ guards' \in [Owned -> Int]
        /\ receipts' \subseteq Uploads /\ victims' \in [Uploads -> Seq(Items)]
        /\ leases' \in [Leases -> Items \cup {NoItem}]
        /\ degraded' \in BOOLEAN /\ registryClosed' \in BOOLEAN
    BY <1>1, <1>2 DEF ArtifactTypeOK
  <2>2. /\ request' \in [Uploads -> {"new", "write", "publish", "closing", "ack", "rollback",
                                  "abandon", "done", "over"}]
        /\ cancelled' \subseteq Uploads
        /\ reader' \in [Leases -> {"idle", "asked", "held", "dropped", "detached"}]
        /\ wanted' \in [Leases -> Items \cup {NoItem}]
        /\ registering' \in [Paths -> {"no", "asked", "dropped", "done"}]
        /\ threads' \subseteq Ops \X (Uploads \cup Paths \cup Leases \cup {NoItem})
        /\ moving' \in Uploads \cup {NoItem}
        /\ traffic' \in Traffic /\ faults' \in 0..traffic'.faults
        /\ evicted' \subseteq Items /\ kept' \subseteq Uploads
    BY <1>1, <1>2 DEF ArtifactTypeOK
  <2> QED BY <2>1, <2>2 DEF ArtifactTypeOK
<1>4. \A o, x : ToRun(o, x)' <=> ToRun(o, x)
  BY <1>2 DEF ToRun
<1>5. Phases' /\ Receipts' /\ NobodyReturns
  BY <1>1, <1>2, <1>4, NoUploadMoves DEF Course
<1>6. Movement' /\ Closing'
  BY <1>1, <1>2, <1>4 DEF Course, Movement, Closing
<1>7. NewComers'
  <2>1. \A i \in Items : ~Foreign(i)' => ~Foreign(i)
    BY <1>2 DEF Foreign
  <2>2. PathsStay
    BY <1>2, <1>4 DEF PathsStay, Unregistered
  <2> QED BY <1>1, <1>2, <1>5, <2>1, <2>2, NoNewComers DEF Shelf
<1>8. Lists'
  BY <1>1, <1>2 DEF Shelf, Lists, Distinct, Has
<1>9. Files'
  <2>1. Physical(file)' <= MaxBytes
    BY <1>1, <1>2 DEF Shelf, Files, Physical
  <2> QED BY <1>1, <1>2, <2>1 DEF Shelf, Files
<1>10. Guards' /\ Degraded' /\ History'
  <2>1. Guards'
    BY <1>1, <1>2 DEF Shelf, Guards, Protectors
  <2>2. Degraded'
    BY <1>1, <1>2 DEF Shelf, Degraded
  <2>3. History'
    BY <1>1, <1>2 DEF Shelf, History
  <2> QED BY <2>1, <2>2, <2>3
<1>11. Agreement' /\ Down'
  BY <1>1, <1>2 DEF Shelf, Agreement, Down
<1>12. Plan'
  BY <1>1, <1>2 DEF Plan, Reading
<1>13. Pins'
  BY <1>1, <1>2, PinsStay
<1>14. Readers'
  <2>1. Known' = Known
    BY <1>2 DEF Known
  <2>2. IsFiniteSet({l \in Leases : leases'[l] # NoItem})
    BY <1>1, <1>2 DEF Readers
  <2>3. \A l \in Leases : Reading(l)' <=> Reading(l)
    BY <1>2 DEF Reading
  <2> QED BY <1>1, <1>2, <1>4, <2>1, <2>2, <2>3 DEF Readers
<1> QED BY <1>3, <1>5, <1>6, <1>7, <1>8, <1>9, <1>10, <1>11, <1>12, <1>13, <1>14
     DEF ArtifactIInv, Course, Shelf

\* What an earlier run has left is a start.
LEMMA StoredFits ==
  ASSUME NEW s \in Seq(Stored), Len(s) <= MaxBytes,
         NEW f, f = [i \in Owned |-> IF Has(s, i) THEN "bin" ELSE "none"]
  PROVE  Physical(f) <= MaxBytes
<1> DEFINE F == {i \in Owned : f[i] \in {"temp", "bin"}}
           I == {s[k] : k \in 1..Len(s)}
<1>1. Len(s) \in Nat /\ IsFiniteSet(1..Len(s)) /\ Cardinality(1..Len(s)) = Len(s)
  <2>1. Len(s) \in Nat /\ 1 \in Int /\ Len(s) \in Int
    OBVIOUS
  <2>2. /\ IsFiniteSet(1..Len(s))
        /\ Cardinality(1..Len(s)) = IF 1 > Len(s) THEN 0 ELSE Len(s) - 1 + 1
    BY <2>1, FS_Interval
  <2> QED BY <2>1, <2>2
<1>2. I = ToSet(s)
  BY DEF ToSet
<1>3. IsFiniteSet(I) /\ Cardinality(I) <= Len(s)
  <2>1. s \in [1..Len(s) -> I] /\ \A x \in I : \E k \in 1..Len(s) : s[k] = x
    OBVIOUS
  <2>2. s \in Surjection(1..Len(s), I)
    BY <2>1 DEF Surjection
  <2> HIDE DEF I
  <2>3. IsFiniteSet(I) /\ Cardinality(I) <= Cardinality(1..Len(s))
    BY <1>1, <2>2, FS_Surjection
  <2> QED BY <1>1, <2>3
<1>4. F \subseteq I
  BY <1>2 DEF Has
<1>5. Physical(f) = Cardinality(F)
  BY DEF Physical
<1> HIDE DEF F, I
<1>6. /\ IsFiniteSet(F) /\ Cardinality(F) <= Cardinality(I)
      /\ Cardinality(F) \in Nat /\ Cardinality(I) \in Nat
  BY <1>3, <1>4, FS_Subset, FS_CardinalityType
<1> QED BY <1>1, <1>3, <1>5, <1>6, Parameters

\* The first start.
LEMMA InitKeeps ==
  ASSUME ApiInit
  PROVE  ArtifactIInv
<1>1. server = "up"
  BY DEF ApiInit, Init
<1>2. /\ traffic \in Traffic
      /\ file = [i \in Owned |-> IF Has(traffic.stored, i) THEN "bin" ELSE "none"]
      /\ present = traffic.paths
      /\ manifest = Disk(traffic.stored, {})
      /\ entries = traffic.stored
      /\ pending = {} /\ receipts = {} /\ threads = {} /\ moving = NoItem
      /\ pins = [i \in Items |-> 0] /\ guards = [i \in Owned |-> 0]
      /\ victims = [u \in Uploads |-> <<>>]
      /\ leases = [l \in Leases |-> NoItem]
      /\ degraded = FALSE /\ registryClosed = FALSE
  BY DEF ApiInit, ArtifactInit
<1>3. /\ request = [u \in Uploads |-> "new"] /\ cancelled = {}
      /\ reader = [l \in Leases |-> "idle"]
      /\ wanted = [l \in Leases |-> NoItem]
      /\ registering = [p \in Paths |-> "no"]
      /\ faults = 0 /\ evicted = {} /\ kept = {}
  BY DEF ApiInit, ArtifactInit
<1>4. /\ traffic.stored \in Seq(Stored) /\ traffic.paths \subseteq Paths /\ traffic.faults \in Nat
      /\ IsInjective(traffic.stored) /\ Len(traffic.stored) <= MaxEntries
      /\ Len(traffic.stored) <= MaxBytes
  BY <1>2, ArtifactAssumption DEF ArtifactAssumption
<1>5. Distinct(traffic.stored) /\ traffic.stored \in Seq(Items)
  <2>1. Distinct(traffic.stored)
    BY <1>4 DEF Distinct, IsInjective
  <2>2. Stored \subseteq Items
    BY DEF Items, Owned
  <2> QED BY <1>4, <2>1, <2>2
<1>6. \A i : Has(traffic.stored, i) => i \in Stored
  BY <1>4 DEF Has, ToSet
<1>7. manifest.items = traffic.stored /\ manifest.pending = {}
  BY <1>2 DEF Disk
<1>8. ArtifactTypeOK
  <2>1. file \in [Owned -> {"none", "empty", "temp", "bin"}] /\ present \subseteq Paths
    BY <1>2, <1>4
  <2>2. manifest \in [items : Seq(Items), pending : SUBSET Owned]
    BY <1>2, <1>5 DEF Disk
  <2>3. /\ pins \in [Items -> Int] /\ guards \in [Owned -> Int]
        /\ victims \in [Uploads -> Seq(Items)]
        /\ leases \in [Leases -> Items \cup {NoItem}]
    <3>1. <<>> \in Seq(Items)
      OBVIOUS
    <3> QED BY <1>2, <3>1
  <2>4. entries \in Seq(Items) /\ pending \subseteq Owned /\ receipts \subseteq Uploads
    BY <1>2, <1>5
  <2>5. faults \in 0..traffic.faults
    BY <1>3, <1>4
  <2>6. threads \subseteq Ops \X (Uploads \cup Paths \cup Leases \cup {NoItem})
    BY <1>2
  <2>7. /\ request \in [Uploads -> {"new", "write", "publish", "closing", "ack", "rollback",
                                  "abandon", "done", "over"}]
        /\ reader \in [Leases -> {"idle", "asked", "held", "dropped", "detached"}]
        /\ wanted \in [Leases -> Items \cup {NoItem}]
        /\ registering \in [Paths -> {"no", "asked", "dropped", "done"}]
        /\ cancelled \subseteq Uploads /\ evicted \subseteq Items /\ kept \subseteq Uploads
    BY <1>3
  <2> QED BY <1>2, <2>1, <2>2, <2>3, <2>4, <2>5, <2>6, <2>7 DEF ArtifactTypeOK
<1>9. \A o, x : ~ToRun(o, x)
  BY <1>2 DEF ToRun
<1>10. Course
  <2>1. \A u \in Uploads : request[u] = "new" /\ u \notin cancelled /\ u \notin receipts
    BY <1>2, <1>3
  <2>2. Phases /\ Receipts
    BY <1>9, <2>1 DEF Phases, PhaseOf, Receipts, ReceiptOf
  <2>3. Movement /\ Closing
    BY <1>2, <1>9 DEF Movement, Closing
  <2> QED BY <2>2, <2>3 DEF Course
<1>11. NewComers
  <2>1. \A i : i \notin Stored => Foreign(i)
    BY <1>2, <1>6, <1>7 DEF Foreign
  <2>2. \A u \in Uploads : u \notin Stored /\ u \in Owned
    BY Parameters DEF Owned
  <2>3. \A p \in Paths : p \notin Stored
    BY Parameters DEF Owned
  <2>4. \A u \in Uploads : file[u] # "bin"
    BY <1>2, <1>6, <2>2
  <2> QED BY <1>2, <1>7, <2>1, <2>2, <2>3, <2>4 DEF NewComers
<1>12. Lists
  BY <1>2, <1>4, <1>5, <1>7 DEF Lists
<1>13. Files
  <2>1. Physical(file) <= MaxBytes
    BY <1>2, <1>4, StoredFits
  <2>2. \A i \in Owned : Has(traffic.stored, i) => file[i] = "bin"
    BY <1>2
  <2> QED BY <1>2, <1>7, <2>1, <2>2 DEF Files
<1>14. Guards
  <2>1. \A i \in Owned : Protectors(i) = {} /\ guards[i] = 0
    BY <1>2 DEF Protectors
  <2> QED BY <2>1, FS_EmptySet DEF Guards
<1>15. Pins
  <2>1. ASSUME NEW i \in Items PROVE Cardinality(Holders(i)) = 0 /\ pins[i] = 0 /\ i \notin receipts
    <3>1. i # NoItem
      BY Parameters
    <3>2. Holders(i) = {}
      BY <1>2, <3>1 DEF Holders
    <3> QED BY <1>2, <3>2, FS_EmptySet
  <2> QED BY <2>1 DEF Pins
<1>16. Readers
  <2>1. {l \in Leases : leases[l] # NoItem} = {}
    BY <1>2
  <2>2. \A l \in Leases : ~Reading(l) /\ leases[l] = NoItem
    BY <1>2, <1>3 DEF Reading
  <2> QED BY <1>9, <2>1, <2>2, FS_EmptySet DEF Readers
<1>17. Agreement /\ Degraded /\ Plan /\ Down
  BY <1>1, <1>2, <1>7 DEF Agreement, Degraded, Plan, Down
<1>18. History
  <2>1. \A i \in ToSet(traffic.stored) : Has(manifest.items, i)
    BY <1>7 DEF Has
  <2>2. \A u \in Uploads : ~Has(manifest.items, u) /\ ~Has(entries, u)
    BY <1>2, <1>6, <1>7, Parameters
  <2>3. \A u \in Uploads : request[u] # "done"
    BY <1>3
  <2> QED BY <1>2, <2>1, <2>2, <2>3 DEF History
<1> QED BY <1>8, <1>10, <1>11, <1>12, <1>13, <1>14, <1>15, <1>16, <1>17, <1>18
     DEF ArtifactIInv, Shelf

\* Every step of the registry, and every one of the server, keeps the invariant.
LEMMA RegistryStepKeeps ==
  ASSUME ArtifactIInv, Goes, ArtifactStep
  PROVE  ArtifactIInv'
<1>1. ASSUME NEW u \in Uploads, UploadThread(u) PROVE ArtifactIInv'
  BY <1>1, WriteRunsKeeps, PublishMovesKeeps, PublishSavesKeeps, PublishFailsKeeps, AckRunsKeeps,
     AbandonRunsKeeps, RollbackRunsKeeps DEF UploadThread
<1>2. ASSUME NEW u \in Uploads, UploadRequest(u) PROVE ArtifactIInv'
  BY <1>2, BeginUploadKeeps, CloseFileKeeps, InterruptKeeps, DetachKeeps DEF UploadRequest
<1>3. ASSUME NEW p \in Paths, PathThread(p) PROVE ArtifactIInv'
  BY <1>3, RegisterRunsKeeps, DiscardRunsKeeps DEF PathThread
<1>4. ASSUME NEW p \in Paths, Owner(p) PROVE ArtifactIInv'
  BY <1>4, AskRegistrationKeeps, DropRegistrationKeeps, VanishKeeps DEF Owner
<1>5. ASSUME NEW l \in Leases, LeaseThread(l) PROVE ArtifactIInv'
  BY <1>5, LeaseRunsKeeps DEF LeaseThread
<1>6. ASSUME NEW l \in Leases, Reader(l) PROVE ArtifactIInv'
  BY <1>6, AskLeaseKeeps, DropLeaseKeeps, ReleaseLeaseKeeps DEF Reader
<1>7. ASSUME CloseThread PROVE ArtifactIInv'
  BY <1>7, CloseGivesUpKeeps, CloseRunsKeeps DEF CloseThread
<1> QED BY <1>1, <1>2, <1>3, <1>4, <1>5, <1>6, <1>7 DEF ArtifactStep

LEMMA ApiStepKeeps ==
  ASSUME ArtifactIInv, [ApiNext]_serverVars
  PROVE  ArtifactIInv'
<1>1. ASSUME Stream(Publish \/ Send) \/ Stream(Loop) \/ Stream(Recovery) \/ Stream(RecoveryTimer)
             \/ Stream(Suspend \/ Resume)
      PROVE  ArtifactIInv'
  <2>1. UNCHANGED artifactVars
    BY <1>1 DEF Stream
  <2>2. Publish \/ Send \/ Loop \/ Recovery \/ RecoveryTimer \/ Suspend \/ Resume
    BY <1>1 DEF Stream
  <2>3. CASE Publish \/ Send
    <3>1. server' = server
      BY <2>3 DEF Publish, Send, broker
    <3> QED BY <2>1, <3>1, OutsideKeeps
  <2>4. CASE Loop
    <3>1. server' = server
      BY <2>4 DEF Loop, Top, Connect, Refused, Receive, ReceiveReset, LoseConnection, Retry, Leave,
                  broker
    <3> QED BY <2>1, <3>1, OutsideKeeps
  <2>5. CASE Recovery \/ RecoveryTimer
    <3>1. server' = server
      BY <2>5 DEF Recovery, ReadState, Recovered, AttemptFails, RecoveryTimer, broker
    <3> QED BY <2>1, <3>1, OutsideKeeps
  <2>6. CASE Suspend \/ Resume
    <3>1. server' = server
      BY <2>6 DEF Suspend, Resume, broker
    <3> QED BY <2>1, <3>1, OutsideKeeps
  <2> QED BY <2>2, <2>3, <2>4, <2>5, <2>6
<1>2. ASSUME Artifacts(ArtifactStep) PROVE ArtifactIInv'
  <2>1. Goes /\ ArtifactStep
    BY <1>2 DEF Artifacts, Goes, vars, broker
  <2> QED BY <2>1, RegistryStepKeeps
<1>3. ASSUME StopServer PROVE ArtifactIInv'
  <2>1. CASE traffic.stops /\ CloseBroker /\ UNCHANGED artifactVars
    <3>1. server = "up" /\ server' = "closed" /\ UNCHANGED artifactVars
      BY <2>1 DEF CloseBroker
    <3> QED BY <3>1, OutsideKeeps
  <2>2. CASE server = "closed" /\ Artifacts(CloseRegistry)
    <3>1. Goes /\ CloseRegistry
      BY <2>2 DEF Artifacts, Goes, vars, broker
    <3> QED BY <3>1, CloseRegistryKeeps
  <2> QED BY <1>3, <2>1, <2>2 DEF StopServer
<1>4. ASSUME ExitServer PROVE ArtifactIInv'
  BY <1>4, ExitKeeps DEF ExitServer
<1>5. ASSUME StartServer PROVE ArtifactIInv'
  BY <1>5, StartKeeps DEF StartServer
<1>6. ASSUME UNCHANGED serverVars PROVE ArtifactIInv'
  <2>1. UNCHANGED artifactVars /\ server' = server
    BY <1>6 DEF serverVars, vars, broker
  <2> QED BY <2>1, OutsideKeeps
<1> QED BY <1>1, <1>2, <1>3, <1>4, <1>5, <1>6 DEF ApiNext

\* Every state of the server satisfies the inductive invariant of its registry.
LEMMA AlwaysArtifactIInv == ApiSpec => []ArtifactIInv
<1>1. ApiInit => ArtifactIInv
  BY InitKeeps
<1>2. ArtifactIInv /\ [ApiNext]_serverVars => ArtifactIInv'
  BY ApiStepKeeps
<1> QED BY <1>1, <1>2, PTL DEF ApiSpec

\* What the inductive invariant says of one state.
LEMMA RegistryIsSound ==
  ASSUME ArtifactIInv
  PROVE  ArtifactInv /\ UploadsAreHonest
<1>1. /\ ArtifactTypeOK /\ Phases /\ Receipts /\ Lists /\ Files /\ Guards /\ Pins /\ Readers
      /\ Agreement /\ History
  BY DEF ArtifactIInv, Course, Shelf
<1>2. CountsAreExact
  <2>1. \A i \in Items : Holders(i) = {l \in Leases : leases[l] = i}
    BY DEF Holders
  <2>2. \A i \in Owned : Protectors(i) = {u \in receipts : Has(victims[u], i)}
    BY DEF Protectors
  <2>3. ~registryClosed =>
          \A i \in Items : pins[i] = Cardinality(Holders(i)) + (IF i \in receipts THEN 1 ELSE 0)
    BY <1>1 DEF Pins
  <2>4. \A i \in Owned : guards[i] = Cardinality(Protectors(i))
    BY <1>1 DEF Guards
  <2>5. ASSUME ~registryClosed, NEW i \in Items
        PROVE  pins[i] = Cardinality({l \in Leases : leases[l] = i}) + (IF i \in receipts THEN 1 ELSE 0)
    <3>1. pins[i] = Cardinality(Holders(i)) + (IF i \in receipts THEN 1 ELSE 0)
      BY <2>3, <2>5
    <3>2. Holders(i) = {l \in Leases : leases[l] = i}
      BY <2>1
    <3> QED BY <3>1, <3>2
  <2>6. ASSUME NEW i \in Owned
        PROVE  guards[i] = Cardinality({u \in receipts : Has(victims[u], i)})
    <3>1. guards[i] = Cardinality(Protectors(i))
      BY <2>4
    <3>2. Protectors(i) = {u \in receipts : Has(victims[u], i)}
      BY <2>2
    <3> QED BY <3>1, <3>2
  <2> QED BY <2>5, <2>6 DEF CountsAreExact
<1>3. QuotaHolds
  BY <1>1 DEF Lists, Files, QuotaHolds
<1>4. ListedIsStored
  BY <1>1 DEF Files, ListedIsStored
<1>5. LeasedStays
  <2>1. ASSUME NEW l \in Leases, reader[l] = "held", wanted[l] \in Owned
        PROVE  file[wanted[l]] = "bin"
    <3>1. Reading(l)
      BY <2>1 DEF Reading
    <3>2. Has(entries, wanted[l])
      BY <1>1, <2>1, <3>1 DEF Readers
    <3> QED BY <1>1, <2>1, <3>2 DEF Files
  <2> QED BY <2>1 DEF LeasedStays
<1>6. SomebodyEnds
  <2>1. ASSUME NEW u \in receipts
        PROVE  \/ request[u] = "closing"
               \/ \E op \in {"ack", "rollback", "abandon", "settle"} : <<op, u>> \in threads
    <3>1. u \in Uploads
      BY <1>1 DEF ArtifactTypeOK
    <3>2. \/ request[u] \in {"closing", "ack"}
          \/ \E op \in {"rollback", "abandon", "settle"} : ToRun(op, u)
      BY <1>1, <2>1, <3>1 DEF Receipts, ReceiptOf
    <3>3. request[u] = "ack" => ToRun("ack", u)
      BY <1>1, <3>1 DEF Phases, PhaseOf
    <3> QED BY <3>2, <3>3 DEF ToRun
  <2>2. ASSUME NEW u \in Uploads, request[u] \in {"write", "publish", "ack", "rollback", "abandon"}
        PROVE  <<request[u], u>> \in threads
    BY <1>1, <2>2 DEF Phases, PhaseOf, ToRun
  <2> QED BY <2>1, <2>2 DEF SomebodyEnds
<1>7. UploadsAreHonest
  <2>1. ASSUME server = "up", ~degraded,
               NEW i \in ToSet(traffic.stored) \cup {u \in Uploads : request[u] = "done"}
        PROVE  Has(entries, i) \/ i \in evicted
    <3>1. Has(manifest.items, i) \/ i \in evicted
      BY <1>1, <2>1 DEF History
    <3>2. i \in Owned
      BY <1>1, <2>1, StoredIsOwned DEF Owned
    <3>3. Has(manifest.items, i) <=> Has(entries, i)
      BY <1>1, <2>1, <3>2 DEF Agreement
    <3> QED BY <3>1, <3>3
  <2>2. ASSUME NEW u \in Uploads \ kept, Settled(u)
        PROVE  ~Has(entries, u) /\ u \notin receipts
    <3>1. request[u] = "over" /\ \A op \in {"rollback", "abandon", "settle"} : ~ToRun(op, u)
      BY <2>2 DEF Settled, ToRun, Ops
    <3>2. u \notin receipts
      BY <1>1, <3>1 DEF Receipts, ReceiptOf
    <3>3. Has(entries, u) => u \in receipts \cup kept
      BY <1>1 DEF History
    <3> QED BY <3>2, <3>3
  <2> QED BY <2>1, <2>2 DEF UploadsAreHonest, AnsweredSurvives
<1> QED BY <1>1, <1>2, <1>3, <1>4, <1>5, <1>6, <1>7 DEF ArtifactInv

\* Whatever is uploaded, registered, read and cancelled, and however often the
\* server exits and starts, the registry's counts, quota, lists and files agree,
\* whoever reads a file finds it, and every publication has somebody who ends it
\* (api/artifacts.py).
THEOREM RegistryIsConsistent == ApiSpec => []ArtifactInv
<1>1. ArtifactIInv => ArtifactInv
  BY RegistryIsSound
<1> QED BY <1>1, AlwaysArtifactIInv, PTL

\* An upload that was answered with 201 stays until room was needed, and one that
\* was not leaves nothing behind, with the exceptions that `kept` names
\* (api/artifacts.py, api/app.py _upload).
THEOREM UploadsStayHonest == ApiSpec => []UploadsAreHonest
<1>1. ArtifactIInv => UploadsAreHonest
  BY RegistryIsSound
<1> QED BY <1>1, AlwaysArtifactIInv, PTL

-----------------------------------------------------------------------------
\* The server runs the event stream as it is specified, whatever its registry
\* does at the same time: what is proved of the stream holds of the server
\* (api/server.py).
THEOREM ServerRunsTheStream == ApiSpec => Spec
<1>1. ApiInit => Init
  BY DEF ApiInit
<1>2. ASSUME [ApiNext]_serverVars PROVE [Next]_vars
  <2>2. CASE Stream(Publish \/ Send) \/ Stream(Loop) \/ Stream(Recovery) \/ Stream(RecoveryTimer)
             \/ Stream(Suspend \/ Resume)
    BY <2>2 DEF Stream, Next
  <2>3. CASE Artifacts(ArtifactStep)
    BY <2>3 DEF Artifacts
  <2>4. CASE StopServer
    BY <2>4 DEF StopServer, Artifacts, Next
  <2>5. CASE ExitServer \/ StartServer
    BY <2>5 DEF ExitServer, StartServer, Next
  <2>6. CASE UNCHANGED serverVars
    BY <2>6 DEF serverVars
  <2> QED BY <1>2, <2>2, <2>3, <2>4, <2>5, <2>6 DEF ApiNext
<1> QED BY <1>1, <1>2, PTL DEF Spec, ApiSpec

=============================================================================
