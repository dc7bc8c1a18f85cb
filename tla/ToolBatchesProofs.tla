-------------------------- MODULE ToolBatchesProofs --------------------------
(***************************************************************************)
(* For any calls, batches, turns and conversations: a revocation stops every *)
(* batch that waits, a turn leaves no grant behind, a decision is final and   *)
(* counts, and the broker knows how many batches are being decided.           *)
(*                                                                         *)
(* RequestInv relates the requests of the broker to the batches that wait for  *)
(* them; ScopeInv is about the scopes, which the requests do not touch;        *)
(* MessagesInv is about the messages that the dispatcher holds back meanwhile. *)
(***************************************************************************)
EXTENDS ToolBatches, OrderingProofs, FiniteSetTheorems, SequenceTheorems, TLAPS

-----------------------------------------------------------------------------
(* The inductive invariant.                                                 *)

Asked(k) == stage[k] \in {"prompting", "waiting"}

RequestTypes ==
  /\ pending \in Seq(Calls)
  /\ stage \in [Calls -> {"new", "prompting", "waiting", "ended"}]
  /\ future \in [Calls -> R!Decisions \cup {"open"}]
  /\ step \in [Batches -> {"new", "running"} \cup Deciding \cup Ended]
  /\ revoked \subseteq Batches

\* The broker has the requests that somebody waits for, each once.
PendingIsAsked ==
  /\ \A i, j \in DOMAIN pending : pending[i] = pending[j] => i = j
  /\ ToSet(pending) = {k \in Calls : Asked(k)}

\* A batch asks for its first undecided call, unless the reviewer has approved it.
OneAtATime ==
  \A k \in Calls : Asked(k) =>
    /\ k \notin automatic
    /\ \E b \in Batches : step[b] \in Approving /\ k \in Current(b)

\* A turn that has ended has no batch under way.
LiveTurns == \A b \in Batches : Live(b) => BatchTurn[b] \notin over

\* A batch that was revoked is given up, or will be when its request ends.
GivenUp ==
  \A b \in revoked :
    \/ step[b] \in {"aborting", "aborted", "cancelling", "cancelled"}
    \/ /\ step[b] \in Approving
       /\ \E k \in AskedFor(b) : future[k] \notin R!Approvals \cup {"open"}

RequestInv ==
  /\ RequestTypes
  /\ PendingIsAsked
  /\ OneAtATime
  /\ LiveTurns
  /\ R!NoGrantAfterTurn
  /\ GivenUp

ScopeInv == scopes \in [Conversations -> Nat] /\ ScopesAreBatches

-----------------------------------------------------------------------------
(* The messages.                                                            *)

\* A list has each message once, and those of a conversation as they came.
InOrder(seq) ==
  \A i, j \in DOMAIN seq : i < j =>
    seq[i] # seq[j] /\ (DeferredIn[seq[i]] = DeferredIn[seq[j]] => seq[i] < seq[j])

\* The messages of S and T are different, and for each conversation S is older.
Ahead(S, T) ==
  \A m \in S, n \in T : m # n /\ (DeferredIn[m] = DeferredIn[n] => m < n)

ListTypes ==
  /\ scopes \in [Conversations -> Nat]
  /\ deferred \in [Calls -> Seq(Messages)]
  /\ hold \in [Conversations -> Seq(Messages)]
  /\ backlog \in Seq(Messages)

\* The oldest messages are in the backlog, then come those that are held back,
\* then those of the requests.
ListsInOrder ==
  /\ InOrder(backlog)
  /\ \A c \in Conversations : InOrder(hold[c]) /\ Ahead(ToSet(backlog), ToSet(hold[c]))
  /\ \A k \in Calls : InOrder(deferred[k]) /\ Ahead(ToSet(backlog), ToSet(deferred[k]))
  /\ \A c \in Conversations, k \in Calls : Ahead(ToSet(hold[c]), ToSet(deferred[k]))

\* A message waits in its conversation: for the open batch, or for the request
\* that is the first one there.
Homes ==
  /\ \A c \in Conversations : \A m \in ToSet(hold[c]) : DeferredIn[m] = c /\ scopes[c] > 0
  /\ \A k \in Calls : \A m \in ToSet(deferred[k]) : DeferredIn[m] = DeferredIn[k] /\ D!IsFirst(k)

ListInv == ListTypes /\ ListsInOrder /\ Homes

Waits ==
  {m \in Messages : \/ \E c \in Conversations : m \in ToSet(hold[c])
                    \/ \E k \in Calls : m \in ToSet(deferred[k])}
OnTheWay == ToSet(backlog) \cup Waits

\* What is on its way is kept, or is being acknowledged.
Tracked ==
  /\ \A m \in Messages : fate[m] = "kept" => m \in OnTheWay
  /\ \A m \in Waits : fate[m] = "kept"
  /\ \A m \in ToSet(backlog) : fate[m] = "kept" \/ operation[m] = "ok"

\* The worker has one call at a time, for the first message of the backlog
\* unless the call has failed.
OneCall ==
  \A m \in Messages : operation[m] # "none" =>
    /\ worker = "busy"
    /\ \A n \in Messages : operation[n] # "none" => n = m
    /\ operation[m] \in {"running", "ok"} => backlog # <<>> /\ m = backlog[1]
    /\ operation[m] = "running" => fate[m] = "kept"
    /\ operation[m] = "ok" => fate[m] \in {"sunk", "failed"}

\* Messages come in their order, and go to the sink in their order.
SeenInOrder ==
  \A m, n \in Messages : fate[m] = "unseen" /\ m < n => fate[n] \in {"unseen", "passed"}
SunkInOrder ==
  \A m, n \in Messages :
    fate[n] = "sunk" /\ m < n /\ DeferredIn[m] = DeferredIn[n] => fate[m] # "kept"

HasRoom == IsFiniteSet(OnTheWay) /\ Cardinality(OnTheWay) <= Capacity

MessageTypes ==
  /\ fate \in [Messages -> D!Fates]
  /\ operation \in [Messages -> {"none", "running", "ok", "error", "cancelled"}]

MessageInv ==
  /\ MessageTypes
  /\ Tracked
  /\ OneCall
  /\ SeenInOrder
  /\ SunkInOrder
  /\ HasRoom

\* The rest of the state.
GrantTypes ==
  /\ reviewed \subseteq Calls /\ late \subseteq Calls
  /\ turnGrants \subseteq Turns \X Capabilities /\ yolo \subseteq Conversations
  /\ closed \in BOOLEAN /\ over \subseteq Turns

\* An admission is given back once.
DeliveryTypes ==
  /\ phase \in [Messages -> {"queued", "sink", "failure"}]
  /\ force \subseteq Messages
  /\ released \in [Messages -> {0, 1}]
  /\ worker \in {"idle", "busy", "sleeping"}
  /\ claim \subseteq Messages

BatchTypes ==
  /\ covered \subseteq Calls /\ automatic \subseteq Calls
  /\ run \in [Calls -> {"no", "running", "ended"}]
  /\ user \in BOOLEAN /\ stricter \subseteq Calls

\* A call that is under way is that of the sink or of the failure handler.
Called == \A m \in Messages : operation[m] = "running" => phase[m] \in {"sink", "failure"}

MessagesInv == ListInv /\ MessageInv /\ GrantTypes /\ DeliveryTypes /\ BatchTypes /\ Called

IInv == RequestInv /\ ScopeInv /\ MessagesInv

-----------------------------------------------------------------------------
(* Sequences.                                                               *)

\* The elements of a sequence without the k-th, and where they come from.
LEMMA Shortened ==
  ASSUME NEW S, NEW s \in Seq(S), NEW k \in 1 .. Len(s)
  PROVE  LET t == SubSeq(s, 1, k - 1) \o SubSeq(s, k + 1, Len(s)) IN
         /\ t \in Seq(S) /\ Len(t) = Len(s) - 1
         /\ \A i \in 1 .. Len(t) : t[i] = IF i < k THEN s[i] ELSE s[i + 1]
<1>1. k \in Int /\ 1 <= k /\ k <= Len(s) /\ Len(s) \in Nat
  OBVIOUS
<1> DEFINE a == SubSeq(s, 1, k - 1)
           z == SubSeq(s, k + 1, Len(s))
<1>2. a \in Seq(S) /\ Len(a) = k - 1 /\ \A i \in 1 .. k - 1 : a[i] = s[i]
  BY <1>1
<1>3. z \in Seq(S) /\ Len(z) = Len(s) - k /\ \A i \in 1 .. Len(s) - k : z[i] = s[i + k]
  BY <1>1
<1> HIDE DEF a, z
<1> DEFINE t == a \o z
<1>4. /\ t \in Seq(S) /\ Len(t) = Len(a) + Len(z)
      /\ \A i \in 1 .. Len(a) + Len(z) : t[i] = IF i <= Len(a) THEN a[i] ELSE z[i - Len(a)]
  BY <1>2, <1>3, ConcatProperties
<1> HIDE DEF t
<1>5. Len(t) = Len(s) - 1
  BY <1>1, <1>2, <1>3, <1>4
<1>6. ASSUME NEW i \in 1 .. Len(t) PROVE t[i] = IF i < k THEN s[i] ELSE s[i + 1]
  <2>1. CASE i <= k - 1
    BY <1>1, <1>2, <1>3, <1>4, <2>1
  <2>2. CASE i > k - 1
    <3>1. i - (k - 1) \in 1 .. Len(s) - k /\ t[i] = z[i - (k - 1)]
      BY <1>1, <1>2, <1>3, <1>4, <1>5, <2>2
    <3>2. i - (k - 1) + k = i + 1
      BY <1>1
    <3> QED BY <1>1, <1>3, <2>2, <3>1, <3>2
  <2> QED BY <1>1, <2>1, <2>2
<1> QED BY <1>4, <1>5, <1>6 DEF t, a, z

\* The elements of a sequence in which each occurs once, without one of them.
LEMMA Removal ==
  ASSUME NEW S, NEW s \in Seq(S), NEW e \in ToSet(s),
         \A i, j \in DOMAIN s : s[i] = s[j] => i = j
  PROVE  LET t == RemoveAt(s, CHOOSE i \in DOMAIN s : s[i] = e) IN
         /\ t \in Seq(S)
         /\ \A i, j \in DOMAIN t : t[i] = t[j] => i = j
         /\ ToSet(t) = ToSet(s) \ {e}
<1> DEFINE k == CHOOSE i \in DOMAIN s : s[i] = e
           t == SubSeq(s, 1, k - 1) \o SubSeq(s, k + 1, Len(s))
<1>1. k \in DOMAIN s /\ s[k] = e
  BY DEF ToSet
<1> HIDE DEF k
<1>2. k \in 1 .. Len(s) /\ Len(s) \in Nat
  BY <1>1
<1>3. /\ t \in Seq(S) /\ Len(t) = Len(s) - 1
      /\ \A i \in 1 .. Len(t) : t[i] = IF i < k THEN s[i] ELSE s[i + 1]
  BY <1>2, Shortened
<1>4. t = RemoveAt(s, k)
  BY DEF RemoveAt
<1> HIDE DEF t
<1> DEFINE from(i) == IF i < k THEN i ELSE i + 1
<1>5. \A i \in DOMAIN t : from(i) \in DOMAIN s /\ from(i) # k /\ t[i] = s[from(i)]
  BY <1>2, <1>3
<1>6. \A i, j \in DOMAIN t : from(i) = from(j) => i = j
  BY <1>2, <1>3
<1> HIDE DEF from
<1>7. \A i, j \in DOMAIN t : t[i] = t[j] => i = j
  BY <1>5, <1>6
<1>8. ToSet(t) = ToSet(s) \ {e}
  <2>1. ASSUME NEW i \in DOMAIN t PROVE t[i] \in ToSet(s) \ {e}
    <3>1. from(i) \in DOMAIN s /\ from(i) # k /\ t[i] = s[from(i)]
      BY <1>5
    <3>2. s[from(i)] # s[k]
      BY <1>1, <3>1
    <3> QED BY <1>1, <3>1, <3>2 DEF ToSet
  <2>2. ASSUME NEW j \in DOMAIN s, s[j] # e PROVE s[j] \in ToSet(t)
    <3>1. CASE j < k
      <4>1. j \in DOMAIN t /\ t[j] = s[j]
        BY <1>2, <1>3, <3>1
      <4> QED BY <4>1 DEF ToSet
    <3>2. CASE j > k
      <4>1. j - 1 \in DOMAIN t /\ t[j - 1] = s[j]
        BY <1>2, <1>3, <3>2
      <4> QED BY <4>1 DEF ToSet
    <3> QED BY <1>1, <1>2, <2>2, <3>1, <3>2
  <2> QED BY <2>1, <2>2 DEF ToSet
<1> QED BY <1>3, <1>4, <1>7, <1>8 DEF k

\* A sequence with a new element at its end.
LEMMA Joining ==
  ASSUME NEW S, NEW s \in Seq(S), NEW e \in S \ ToSet(s),
         \A i, j \in DOMAIN s : s[i] = s[j] => i = j
  PROVE  /\ Append(s, e) \in Seq(S)
         /\ \A i, j \in DOMAIN Append(s, e) : Append(s, e)[i] = Append(s, e)[j] => i = j
         /\ ToSet(Append(s, e)) = ToSet(s) \cup {e}
<1>1. /\ Append(s, e) \in Seq(S) /\ Len(Append(s, e)) = Len(s) + 1
      /\ \A i \in 1 .. Len(s) : Append(s, e)[i] = s[i]
      /\ Append(s, e)[Len(s) + 1] = e
  OBVIOUS
<1>2. \A i \in 1 .. Len(s) : s[i] # e
  BY DEF ToSet
<1>3. \A i, j \in DOMAIN Append(s, e) : Append(s, e)[i] = Append(s, e)[j] => i = j
  BY <1>1, <1>2
<1>4. ToSet(Append(s, e)) = ToSet(s) \cup {e}
  BY <1>1 DEF ToSet
<1> QED BY <1>1, <1>3, <1>4

-----------------------------------------------------------------------------
(* Batches and their calls.                                                 *)

\* A call belongs to one batch.
LEMMA BatchFacts ==
  ASSUME ToolsAssumption, NEW b \in Batches
  PROVE  /\ CallsOf[b] \in Seq(Calls) /\ CallsIn[b] = ToSet(CallsOf[b]) /\ CallsIn[b] \subseteq Calls
         /\ \A d \in Batches \ {b} : CallsIn[d] \cap CallsIn[b] = {}
         /\ \A k \in CallsIn[b] : /\ BatchOf[k] = b
                                  /\ CallConversation[k] = ConversationOf[b]
                                  /\ CallTurn[k] = BatchTurn[b]
                                  /\ Place[k] \in Nat /\ CallsOf[b][Place[k]] = k
<1>1. CallsOf[b] \in Seq(Calls) /\ CallsIn[b] = ToSet(CallsOf[b]) /\ CallsIn[b] \subseteq Calls
  BY DEF ToolsAssumption, CallsIn, ToSet
<1>2. \A d \in Batches \ {b} : CallsIn[d] \cap CallsIn[b] = {}
  BY DEF ToolsAssumption, CallsIn
<1>3. \A k \in CallsIn[b] : BatchOf[k] = b
  BY <1>1, <1>2 DEF BatchOf
<1>4. ASSUME NEW k \in CallsIn[b] PROVE Place[k] \in Nat /\ CallsOf[b][Place[k]] = k
  <2>1. \E i \in DOMAIN CallsOf[b] : CallsOf[b][i] = k
    BY <1>1 DEF ToSet
  <2>2. Place[k] = CHOOSE i \in DOMAIN CallsOf[b] : CallsOf[b][i] = k
    BY <1>1, <1>3 DEF Place
  <2>3. Place[k] \in DOMAIN CallsOf[b] /\ CallsOf[b][Place[k]] = k
    BY <2>1, <2>2
  <2> QED BY <1>1, <2>3
<1> QED BY <1>1, <1>2, <1>3, <1>4 DEF CallConversation, CallTurn

\* At most one call is the next to be decided.
LEMMA CurrentFacts ==
  ASSUME ToolsAssumption, NEW b \in Batches, NEW k \in Current(b)
  PROVE  k \in CallsIn[b] /\ k \in Calls /\ k \notin covered /\ Current(b) = {k}
<1>1. k \in CallsIn[b] /\ k \in Calls /\ k \notin covered
  BY BatchFacts DEF Current, Undecided
<1>2. ASSUME NEW j \in Current(b) PROVE j = k
  <2>1. Place[k] <= Place[j] /\ Place[j] <= Place[k] /\ j \in CallsIn[b]
    BY DEF Current, Undecided
  <2>2. Place[k] \in Nat /\ Place[j] \in Nat
    BY <1>1, <2>1, BatchFacts
  <2>3. Place[k] = Place[j]
    BY <2>1, <2>2
  <2> QED BY <1>1, <2>1, <2>3, BatchFacts
<1> QED BY <1>1, <1>2

\* It depends on the calls of the batch only.
LEMMA CurrentSame ==
  ASSUME ToolsAssumption, NEW b \in Batches, \A k \in CallsIn[b] : k \in covered' <=> k \in covered
  PROVE  Undecided(b)' = Undecided(b) /\ Current(b)' = Current(b)
<1>1. Undecided(b)' = Undecided(b)
  BY DEF Undecided
<1> QED BY <1>1 DEF Current

Steps == {"new", "running"} \cup Deciding \cup Ended
Stopped == {"aborting", "aborted", "cancelling", "cancelled"}
AskedCalls == {k \in Calls : Asked(k)}

\* Who waits for a request.
LEMMA AskedFacts ==
  ASSUME ToolsAssumption, RequestInv, NEW b \in Batches, NEW k \in CallsIn[b], Asked(k)
  PROVE  /\ k \in Calls /\ k \notin automatic /\ k \in ToSet(pending)
         /\ step[b] \in Approving /\ k \in Current(b) /\ k \in AskedFor(b)
         /\ Live(b) /\ BatchTurn[b] \notin over
<1>1. k \in Calls
  BY BatchFacts
<1>2. PICK d \in Batches : step[d] \in Approving /\ k \in Current(d)
  BY <1>1 DEF RequestInv, OneAtATime
<1>3. d = b
  BY <1>2, CurrentFacts, BatchFacts
<1>4. k \notin automatic /\ k \in AskedFor(b) /\ Live(b)
  BY <1>1, <1>2, <1>3 DEF RequestInv, OneAtATime, AskedFor, Asked, Live, Deciding
<1> QED BY <1>1, <1>2, <1>3, <1>4 DEF RequestInv, PendingIsAsked, LiveTurns

\* What a batch waits for depends on its current call and on who has asked.
LEMMA AskedForSame ==
  ASSUME ToolsAssumption, NEW b \in Batches, Current(b)' = Current(b),
         \A k \in Current(b) : Asked(k)' <=> Asked(k)
  PROVE  AskedFor(b)' = AskedFor(b)
BY DEF AskedFor, Asked

\* A batch goes on that has no request.
LEMMA QuietBatch ==
  ASSUME ToolsAssumption, RequestInv, NEW b \in Batches, NEW s \in Steps,
         step' = [step EXCEPT ![b] = s],
         \A k \in CallsIn[b] : ~Asked(k),
         \A k \in Calls \ CallsIn[b] : (k \in covered' <=> k \in covered)
                                       /\ (k \in automatic' <=> k \in automatic),
         stage' \in [Calls -> {"new", "prompting", "waiting", "ended"}], UNCHANGED AskedCalls,
         UNCHANGED <<pending, future, turnGrants, over, revoked>>,
         s \in Deciding \cup {"running"} => BatchTurn[b] \notin over,
         b \in revoked => s \in Stopped
  PROVE  RequestInv'
<1> USE DEF RequestInv
<1>1. RequestTypes'
  BY DEF RequestTypes, Steps
<1>2. step'[b] = s /\ \A d \in Batches \ {b} : step'[d] = step[d]
  BY DEF RequestTypes
<1>3. \A k \in Calls : Asked(k)' <=> Asked(k)
  BY DEF AskedCalls
<1>4. ASSUME NEW d \in Batches \ {b}
      PROVE  Current(d)' = Current(d) /\ AskedFor(d)' = AskedFor(d)
  <2>1. \A k \in CallsIn[d] : k \in Calls \ CallsIn[b]
    BY BatchFacts
  <2>2. Current(d)' = Current(d)
    BY <2>1, CurrentSame
  <2> QED BY <1>3, <2>2, CurrentFacts, AskedForSame
<1>5. PendingIsAsked'
  BY <1>3 DEF PendingIsAsked
<1>6. OneAtATime'
  <2> SUFFICES ASSUME NEW k \in Calls, Asked(k)
               PROVE  /\ k \notin automatic'
                      /\ \E d \in Batches : step'[d] \in Approving /\ k \in Current(d)'
    BY <1>3 DEF OneAtATime
  <2>1. k \notin automatic /\ \E d \in Batches : step[d] \in Approving /\ k \in Current(d)
    BY DEF OneAtATime
  <2>2. PICK d \in Batches : step[d] \in Approving /\ k \in Current(d)
    BY <2>1
  <2>3. k \in CallsIn[d]
    BY <2>2, CurrentFacts
  <2>4. d # b /\ k \notin CallsIn[b]
    BY <2>3
  <2> QED BY <1>2, <1>4, <2>1, <2>2, <2>4
<1>7. LiveTurns'
  BY <1>2 DEF LiveTurns, Live
<1>8. (R!NoGrantAfterTurn)'
  BY DEF R!NoGrantAfterTurn
<1>9. GivenUp'
  <2> SUFFICES ASSUME NEW d \in revoked, d # b, d \in Batches
               PROVE  \/ step'[d] \in Stopped
                      \/ /\ step'[d] \in Approving
                         /\ \E k \in AskedFor(d)' : future[k] \notin R!Approvals \cup {"open"}
    BY <1>2 DEF GivenUp, Stopped, RequestTypes
  <2> QED BY <1>2, <1>4 DEF GivenUp, Stopped
<1> QED BY <1>1, <1>5, <1>6, <1>7, <1>8, <1>9

\* The batches stay where they are: only open requests are decided, and batches
\* are revoked whose request is not approved.
LEMMA QuietRequests ==
  ASSUME ToolsAssumption, RequestInv,
         UNCHANGED <<pending, step, covered, automatic>>,
         stage' \in [Calls -> {"new", "prompting", "waiting", "ended"}], UNCHANGED AskedCalls,
         future' \in [Calls -> R!Decisions \cup {"open"}], revoked' \subseteq Batches,
         \A k \in Calls : future[k] # "open" => future'[k] = future[k],
         LiveTurns', (R!NoGrantAfterTurn)',
         \A b \in revoked' \ revoked :
           \E k \in AskedFor(b) : future'[k] \notin R!Approvals \cup {"open"}
  PROVE  RequestInv'
<1> USE DEF RequestInv
<1>1. RequestTypes'
  BY DEF RequestTypes
<1>2. \A k \in Calls : Asked(k)' <=> Asked(k)
  BY DEF AskedCalls
<1>3. ASSUME NEW b \in Batches PROVE Current(b)' = Current(b) /\ AskedFor(b)' = AskedFor(b)
  <2>1. Current(b)' = Current(b)
    BY CurrentSame
  <2> QED BY <1>2, <2>1, CurrentFacts, AskedForSame
<1>4. PendingIsAsked'
  BY <1>2 DEF PendingIsAsked
<1>5. OneAtATime'
  BY <1>2, <1>3 DEF OneAtATime
<1>6. GivenUp'
  <2> SUFFICES ASSUME NEW b \in revoked', b \in Batches, step[b] \notin Stopped
               PROVE  /\ step[b] \in Approving
                      /\ \E k \in AskedFor(b)' : future'[k] \notin R!Approvals \cup {"open"}
    BY DEF GivenUp, Stopped
  <2>1. PICK k \in AskedFor(b) : future'[k] \notin R!Approvals \cup {"open"}
    <3>1. CASE b \in revoked
      <4>1. PICK j \in AskedFor(b) : future[j] \notin R!Approvals \cup {"open"}
        BY <3>1 DEF GivenUp, Stopped
      <4>2. j \in Calls
        BY CurrentFacts DEF AskedFor
      <4> QED BY <4>1, <4>2
    <3>2. CASE b \notin revoked
      BY <3>2
    <3> QED BY <3>1, <3>2
  <2>2. k \in CallsIn[b] /\ Asked(k)
    BY CurrentFacts DEF AskedFor, Asked
  <2>3. step[b] \in Approving
    BY <2>2, AskedFacts
  <2> QED BY <1>3, <2>1, <2>3
<1> QED BY <1>1, <1>4, <1>5, <1>6

\* A batch asks for its next call.
LEMMA RequestStarts ==
  ASSUME ToolsAssumption, RequestInv, NEW b \in Batches, NEW k \in Current(b),
         step[b] \in Approving, k \notin automatic, stage[k] = "new",
         stage' = [stage EXCEPT ![k] = "prompting"],
         pending' = Append(pending, k),
         UNCHANGED <<step, covered, automatic, future, turnGrants, over, revoked>>
  PROVE  RequestInv'
<1> USE DEF RequestInv
<1>1. k \in Calls /\ k \in CallsIn[b] /\ Current(b) = {k}
  BY CurrentFacts
<1>2. /\ \A j \in Calls : Asked(j)' <=> (Asked(j) \/ j = k)
      /\ ~Asked(k)
  BY <1>1 DEF Asked, RequestTypes
<1>3. pending \in Seq(Calls) /\ k \in Calls \ ToSet(pending)
      /\ \A i, j \in DOMAIN pending : pending[i] = pending[j] => i = j
  BY <1>1, <1>2 DEF PendingIsAsked, RequestTypes
<1>4. /\ pending' \in Seq(Calls)
      /\ \A i, j \in DOMAIN pending' : pending'[i] = pending'[j] => i = j
      /\ ToSet(pending') = ToSet(pending) \cup {k}
  <2> HIDE DEF RequestInv
  <2> QED BY <1>3, Joining
<1>5. RequestTypes'
  BY <1>1, <1>4 DEF RequestTypes
<1>6. ToSet(pending)' = {j \in Calls : Asked(j)}'
  BY <1>1, <1>2, <1>4 DEF PendingIsAsked, ToSet
<1>7. PendingIsAsked'
  BY <1>4, <1>6 DEF PendingIsAsked
<1>8. \A d \in Batches : Current(d)' = Current(d)
  BY CurrentSame
<1>9. OneAtATime'
  BY <1>2, <1>8 DEF OneAtATime
<1>10. LiveTurns' /\ (R!NoGrantAfterTurn)'
  BY DEF LiveTurns, Live, R!NoGrantAfterTurn
<1>11. GivenUp'
  <2> SUFFICES ASSUME NEW d \in revoked, d \in Batches, step[d] \notin Stopped
               PROVE  /\ step[d] \in Approving
                      /\ \E j \in AskedFor(d)' : future[j] \notin R!Approvals \cup {"open"}
    BY DEF GivenUp, Stopped, RequestTypes
  <2>1. step[d] \in Approving /\ \E j \in AskedFor(d) : future[j] \notin R!Approvals \cup {"open"}
    BY DEF GivenUp, Stopped
  <2>2. AskedFor(d) \subseteq AskedFor(d)'
    BY <1>2, <1>8, CurrentFacts DEF AskedFor, Asked
  <2> QED BY <2>1, <2>2
<1> QED BY <1>5, <1>7, <1>9, <1>10, <1>11

\* The request of a batch ends; if the batch goes on, it has not been revoked.
LEMMA RequestIsOver ==
  ASSUME ToolsAssumption, RequestInv, NEW b \in Batches, NEW s \in Steps, NEW k \in AskedFor(b),
         step[b] \in Approving,
         stage' = [stage EXCEPT ![k] = "ended"],
         pending' = RemoveAt(pending, CHOOSE i \in DOMAIN pending : pending[i] = k),
         future' = [future EXCEPT ![k] = "open"],
         step' = [step EXCEPT ![b] = s],
         s \in Stopped \/ (s = step[b] /\ b \notin revoked),
         covered' \in {covered, covered \cup {k}},
         UNCHANGED <<automatic, turnGrants, over, revoked>>
  PROVE  RequestInv'
<1> USE DEF RequestInv
<1>1. k \in Calls /\ k \in CallsIn[b] /\ Current(b) = {k}
  BY CurrentFacts DEF AskedFor
<1>2. Asked(k) /\ \A j \in Calls : Asked(j)' <=> (Asked(j) /\ j # k)
  BY <1>1 DEF Asked, RequestTypes, AskedFor
<1>3. pending \in Seq(Calls) /\ k \in ToSet(pending)
      /\ \A i, j \in DOMAIN pending : pending[i] = pending[j] => i = j
  BY <1>1, <1>2 DEF PendingIsAsked, RequestTypes
<1>4. /\ pending' \in Seq(Calls)
      /\ \A i, j \in DOMAIN pending' : pending'[i] = pending'[j] => i = j
      /\ ToSet(pending') = ToSet(pending) \ {k}
  <2> HIDE DEF RequestInv
  <2> QED BY <1>3, Removal
<1>5. RequestTypes'
  BY <1>4 DEF RequestTypes, Steps
<1>6. PendingIsAsked'
  <2>1. ToSet(pending)' = {j \in Calls : Asked(j)}'
    BY <1>2, <1>4 DEF PendingIsAsked, ToSet
  <2> QED BY <1>4, <2>1 DEF PendingIsAsked
<1>7. step'[b] = s /\ \A d \in Batches \ {b} : step'[d] = step[d]
  BY DEF RequestTypes
<1>8. ASSUME NEW d \in Batches \ {b}
      PROVE  Current(d)' = Current(d) /\ AskedFor(d)' = AskedFor(d) /\ k \notin Current(d)
  <2>1. k \notin CallsIn[d]
    BY <1>1, BatchFacts
  <2>2. Current(d)' = Current(d) /\ k \notin Current(d)
    BY <2>1, CurrentSame, CurrentFacts
  <2> QED BY <1>2, <2>2, CurrentFacts, AskedForSame
<1>9. OneAtATime'
  <2> SUFFICES ASSUME NEW j \in Calls, Asked(j), j # k
               PROVE  /\ j \notin automatic
                      /\ \E d \in Batches : step'[d] \in Approving /\ j \in Current(d)'
    BY <1>2 DEF OneAtATime
  <2>1. j \notin automatic /\ \E d \in Batches : step[d] \in Approving /\ j \in Current(d)
    BY DEF OneAtATime
  <2> QED BY <1>1, <1>7, <1>8, <2>1
<1>10. LiveTurns'
  <2>1. BatchTurn[b] \notin over
    BY <1>1, <1>2, AskedFacts
  <2> QED BY <1>7, <2>1 DEF LiveTurns, Live
<1>11. (R!NoGrantAfterTurn)'
  BY DEF R!NoGrantAfterTurn
<1>12. GivenUp'
  <2> SUFFICES ASSUME NEW d \in revoked, d \in Batches, step'[d] \notin Stopped
               PROVE  /\ step'[d] \in Approving
                      /\ \E j \in AskedFor(d)' : future'[j] \notin R!Approvals \cup {"open"}
    BY DEF GivenUp, Stopped, RequestTypes
  <2>1. d # b
    BY <1>7
  <2>2. PICK j \in AskedFor(d) : future[j] \notin R!Approvals \cup {"open"}
    BY <1>7, <2>1 DEF GivenUp, Stopped
  <2>3. j \in Calls /\ j # k
    BY <1>8, <2>1, CurrentFacts DEF AskedFor
  <2>4. future'[j] = future[j]
    BY <1>1, <2>3 DEF RequestTypes
  <2> QED BY <1>7, <1>8, <2>1, <2>2, <2>4 DEF GivenUp, Stopped
<1> QED BY <1>5, <1>6, <1>9, <1>10, <1>11, <1>12

-----------------------------------------------------------------------------
(* The steps preserve the invariant of the requests.                        *)

\* Only a batch that waits for its request can be revoked and not given up.
LEMMA RevokedFacts ==
  ASSUME RequestInv, NEW b \in revoked
  PROVE  /\ b \in Batches
         /\ \/ step[b] \in Stopped
            \/ /\ step[b] \in Approving
               /\ \E k \in AskedFor(b) : future[k] \notin R!Approvals \cup {"open"}
BY DEF RequestInv, RequestTypes, GivenUp, Stopped

\* The call that a batch waits for.
LEMMA AskedForFacts ==
  ASSUME ToolsAssumption, NEW b \in Batches, NEW k \in AskedFor(b)
  PROVE  k \in Calls /\ k \in CallsIn[b] /\ k \in Current(b) /\ Current(b) = {k} /\ Asked(k)
BY CurrentFacts DEF AskedFor, Asked

LEMMA StartPreservesRequests ==
  ASSUME ToolsAssumption, RequestInv, NEW b \in Batches, Deny(b) \/ Begin(b)
  PROVE  RequestInv'
<1>1. MayBegin(b) /\ step[b] = "new" /\ BatchTurn[b] \notin over
  BY DEF Deny, Begin, MayBegin
<1>2. b \notin revoked /\ \A k \in CallsIn[b] : ~Asked(k)
  BY <1>1, RevokedFacts, AskedFacts DEF Stopped, Approving
<1>3. UNCHANGED <<pending, stage, future, turnGrants, over, revoked, automatic>>
  BY DEF Deny, Begin, D!BeginScope, brokerVars, requestVars, historyVars
<1>4. PICK s \in Steps : step' = [step EXCEPT ![b] = s]
  BY DEF Deny, Begin, Steps, Deciding, Approving, Ended
<1>5. \A k \in Calls \ CallsIn[b] : k \in covered' <=> k \in covered
  BY DEF Deny, Begin
<1>6. stage \in [Calls -> {"new", "prompting", "waiting", "ended"}] /\ UNCHANGED AskedCalls
  BY <1>3 DEF RequestInv, RequestTypes, AskedCalls, Asked
<1> QED BY <1>1, <1>2, <1>3, <1>4, <1>5, <1>6, QuietBatch

LEMMA ReviewPreservesRequests ==
  ASSUME ToolsAssumption, RequestInv, NEW b \in Batches, ReviewEnds(b) \/ AutoApproved(b)
  PROVE  RequestInv'
<1>1. step[b] \in Deciding /\ step[b] \notin Stopped /\ BatchTurn[b] \notin over
  BY DEF ReviewEnds, AutoApproved, Deciding, Approving, Stopped, RequestInv, LiveTurns, Live
<1>2. ASSUME NEW k \in CallsIn[b], Asked(k) PROVE FALSE
  <2>1. step[b] \in Approving /\ k \notin automatic /\ k \in Current(b)
    BY <1>2, AskedFacts
  <2>2. Current(b) = {k}
    BY <2>1, CurrentFacts
  <2> QED BY <2>1, <2>2 DEF ReviewEnds, AutoApproved, Approving
<1>3. b \notin revoked
  <2>1. AskedFor(b) = {}
    BY <1>2, AskedForFacts
  <2> QED BY <1>1, <2>1, RevokedFacts
<1>4. UNCHANGED <<pending, stage, future, turnGrants, over, revoked>>
  BY DEF ReviewEnds, AutoApproved, brokerVars, requestVars, historyVars
<1>5. PICK s \in Steps : step' = [step EXCEPT ![b] = s]
  <2>1. \/ UNCHANGED step
        \/ step' = [step EXCEPT ![b] = "reviewed"]
        \/ step' = [step EXCEPT ![b] = "aborting"]
    BY DEF ReviewEnds, AutoApproved, Recheck
  <2>2. step = [step EXCEPT ![b] = step[b]] /\ step[b] \in Steps
    BY DEF RequestInv, RequestTypes, Steps
  <2>3. "reviewed" \in Steps /\ "aborting" \in Steps
    BY DEF Steps, Deciding, Approving
  <2> QED BY <2>1, <2>2, <2>3
<1>6. \A k \in Calls \ CallsIn[b] : (k \in covered' <=> k \in covered)
                                    /\ (k \in automatic' <=> k \in automatic)
  <2>1. CASE ReviewEnds(b)
    <3>1. Undecided(b) \subseteq CallsIn[b]
      BY DEF Undecided
    <3> QED BY <2>1, <3>1 DEF ReviewEnds
  <2>2. CASE AutoApproved(b)
    <3>1. PICK k \in Current(b) : Recheck(b, k) /\ UNCHANGED automatic
      BY <2>2 DEF AutoApproved
    <3>2. k \in CallsIn[b]
      BY CurrentFacts
    <3> QED BY <3>1, <3>2 DEF Recheck
  <2> QED BY <2>1, <2>2
<1>7. stage \in [Calls -> {"new", "prompting", "waiting", "ended"}] /\ UNCHANGED AskedCalls
  BY <1>4 DEF RequestInv, RequestTypes, AskedCalls, Asked
<1> QED BY <1>1, <1>2, <1>3, <1>4, <1>5, <1>6, <1>7, QuietBatch

LEMMA AskPreservesRequests ==
  ASSUME ToolsAssumption, RequestInv, NEW b \in Batches, Ask(b)
  PROVE  RequestInv'
<1>1. PICK k \in Current(b) \ automatic :
        /\ R!Suspend(k, step[b] = "reviewed")
        /\ IF closed
           THEN step' = [step EXCEPT ![b] = "aborting"] /\ UNCHANGED deferVars
           ELSE D!Register(k) /\ UNCHANGED step
  BY DEF Ask
<1>2. /\ step[b] \in Approving /\ stage[k] = "new"
      /\ UNCHANGED <<covered, automatic, future, turnGrants, over, revoked>>
  BY <1>1 DEF Ask, R!Suspend, R!grantVars, historyVars
<1>3. k \in Calls /\ k \in CallsIn[b] /\ Current(b) = {k}
  BY CurrentFacts
<1>4. CASE closed
  <2>1. /\ UNCHANGED pending /\ step' = [step EXCEPT ![b] = "aborting"]
        /\ stage' = [stage EXCEPT ![k] = "ended"]
    BY <1>1, <1>4 DEF R!Suspend
  <2>2. \A j \in CallsIn[b] : ~Asked(j)
    BY <1>2, <1>3, AskedFacts DEF Asked
  <2>3. stage' \in [Calls -> {"new", "prompting", "waiting", "ended"}] /\ UNCHANGED AskedCalls
    BY <1>2, <1>3, <2>1 DEF RequestInv, RequestTypes, AskedCalls, Asked
  <2>4. BatchTurn[b] \notin over
    BY <1>2 DEF RequestInv, LiveTurns, Live, Deciding
  <2>5. "aborting" \in Steps /\ "aborting" \in Stopped
    BY DEF Steps, Stopped, Deciding
  <2> QED BY <1>2, <2>1, <2>2, <2>3, <2>4, <2>5, QuietBatch
<1>5. CASE ~closed
  <2>1. /\ UNCHANGED step /\ pending' = Append(pending, k)
        /\ stage' = [stage EXCEPT ![k] = "prompting"]
    BY <1>1, <1>5 DEF R!Suspend
  <2> QED BY <1>1, <1>2, <2>1, RequestStarts
<1> QED BY <1>4, <1>5

LEMMA PromptPreservesRequests ==
  ASSUME ToolsAssumption, RequestInv, NEW b \in Batches, Presented(b)
  PROVE  RequestInv'
<1>1. PICK k \in AskedFor(b) :
        /\ stage[k] = "prompting" /\ stage' = [stage EXCEPT ![k] = "waiting"]
        /\ UNCHANGED <<pending, step, covered, automatic, future, turnGrants, over, revoked>>
  BY DEF Presented, R!Prompted, R!grantVars, batchVars, historyVars
<1>2. k \in Calls
  BY AskedForFacts
<1>3. stage' \in [Calls -> {"new", "prompting", "waiting", "ended"}] /\ UNCHANGED AskedCalls
  BY <1>1, <1>2 DEF RequestInv, RequestTypes, AskedCalls, Asked
<1>4. LiveTurns' /\ (R!NoGrantAfterTurn)'
  BY <1>1 DEF RequestInv, LiveTurns, Live, R!NoGrantAfterTurn
<1>5. future' \in [Calls -> R!Decisions \cup {"open"}] /\ revoked' \subseteq Batches
  BY <1>1 DEF RequestInv, RequestTypes
<1> QED BY <1>1, <1>3, <1>4, <1>5, QuietRequests

LEMMA EndPreservesRequests ==
  ASSUME ToolsAssumption, RequestInv, NEW b \in Batches,
         \/ RequestEnds(b)
         \/ Interrupt(b) /\ step[b] \in Approving
  PROVE  RequestInv'
<1>1. PICK k \in AskedFor(b) :
        /\ \/ (R!PromptFails(k) \/ R!Interrupt(k)) /\ UNCHANGED covered
              /\ (step' = [step EXCEPT ![b] = "aborting"] \/ step' = [step EXCEPT ![b] = "cancelling"])
           \/ /\ R!Decided(k)
              /\ IF R!DecisionOf(k) \in R!Approvals
                 THEN Recheck(b, k)
                 ELSE step' = [step EXCEPT ![b] = "aborting"] /\ UNCHANGED covered
        /\ UNCHANGED <<automatic, revoked>>
  BY DEF RequestEnds, Interrupt, historyVars, Approving
<1>2. /\ step[b] \in Approving
      /\ stage' = [stage EXCEPT ![k] = "ended"]
      /\ pending' = R!RemoveAt(pending, R!Position(k))
      /\ future' = [future EXCEPT ![k] = "open"]
      /\ UNCHANGED <<turnGrants, over>>
  BY <1>1 DEF RequestEnds, R!PromptFails, R!Decided, R!Interrupt, R!End, R!grantVars
<1>3. pending' = RemoveAt(pending, CHOOSE i \in DOMAIN pending : pending[i] = k)
  BY <1>2 DEF RemoveAt, R!RemoveAt, R!Position
<1>4. covered' \in {covered, covered \cup {k}}
  BY <1>1 DEF Recheck
<1>5. \E s \in Steps : /\ step' = [step EXCEPT ![b] = s]
                       /\ s \in Stopped \/ (s = step[b] /\ b \notin revoked)
  <2>1. "aborting" \in Steps \cap Stopped /\ "cancelling" \in Steps \cap Stopped
        /\ step[b] \in Steps
    BY <1>2 DEF Steps, Stopped, Deciding
  <2>2. CASE step' = [step EXCEPT ![b] = "aborting"] \/ step' = [step EXCEPT ![b] = "cancelling"]
    BY <2>1, <2>2
  <2>3. CASE UNCHANGED step /\ R!DecisionOf(k) \in R!Approvals
    <3>1. step' = [step EXCEPT ![b] = step[b]]
      BY <2>3 DEF RequestInv, RequestTypes
    <3>2. future[k] \in R!Approvals
      BY <2>3 DEF R!DecisionOf, R!Approvals
    <3>3. \A j \in AskedFor(b) : j = k
      BY AskedForFacts
    <3>4. b \notin revoked
      BY <1>2, <3>2, <3>3, RevokedFacts DEF Stopped, Approving
    <3> QED BY <2>1, <3>1, <3>4
  <2> QED BY <1>1, <2>2, <2>3 DEF Recheck
<1> QED BY <1>1, <1>2, <1>3, <1>4, <1>5, RequestIsOver

LEMMA LeavingPreservesRequests ==
  ASSUME ToolsAssumption, RequestInv, NEW b \in Batches,
         \/ ScopeEnds(b) \/ Executed(b)
         \/ Interrupt(b) /\ step[b] \notin Approving
  PROVE  RequestInv'
<1>1. /\ step[b] \in (Deciding \cup {"running"})
      /\ UNCHANGED <<pending, stage, future, turnGrants, over, revoked>>
  BY DEF ScopeEnds, Executed, Interrupt, D!EndScope, brokerVars, requestVars, historyVars,
         Deciding, Approving
<1>2. BatchTurn[b] \notin over
  BY <1>1 DEF RequestInv, LiveTurns, Live
<1>3. \A k \in CallsIn[b] : ~Asked(k)
  <2>1. ASSUME NEW k \in CallsIn[b], Asked(k) PROVE FALSE
    <3>1. step[b] \in Approving /\ Undecided(b) # {}
      BY <2>1, AskedFacts DEF Current
    <3> QED BY <3>1 DEF ScopeEnds, Executed, Approving
  <2> QED BY <2>1
<1>4. b \in revoked => step[b] \in Stopped
  <2>1. AskedFor(b) = {}
    BY <1>3, AskedForFacts
  <2> QED BY <2>1, RevokedFacts
<1>5. \E s \in Steps : step' = [step EXCEPT ![b] = s] /\ (b \in revoked => s \in Stopped)
  <2>1. CASE step[b] \in Approving
    <3>1. step' = [step EXCEPT ![b] = "running"] /\ b \notin revoked
      BY <1>4, <2>1 DEF ScopeEnds, Executed, Interrupt, Approving, Stopped
    <3> QED BY <3>1 DEF Steps
  <2>2. CASE Executed(b)
    <3>1. step' = [step EXCEPT ![b] = "executed"] /\ b \notin revoked
      BY <1>4, <2>2 DEF Executed, Stopped
    <3> QED BY <3>1 DEF Steps, Ended
  <2>3. CASE step[b] \notin Approving /\ ~Executed(b)
    <3>1. \/ step' = [step EXCEPT ![b] = "cancelling"]
          \/ step' = [step EXCEPT ![b] = "cancelled"]
          \/ step' = [step EXCEPT ![b] = "aborted"]
      BY <2>3 DEF ScopeEnds, Interrupt, Deciding
    <3> QED BY <3>1 DEF Steps, Stopped, Ended, Deciding
  <2> QED BY <2>1, <2>2, <2>3
<1>6. \A k \in Calls \ CallsIn[b] : (k \in covered' <=> k \in covered)
                                    /\ (k \in automatic' <=> k \in automatic)
  BY DEF ScopeEnds, Executed, Interrupt, Gone, Approving
<1>7. stage \in [Calls -> {"new", "prompting", "waiting", "ended"}] /\ UNCHANGED AskedCalls
  BY <1>1 DEF RequestInv, RequestTypes, AskedCalls, Asked
<1> QED BY <1>1, <1>2, <1>3, <1>5, <1>6, <1>7, QuietBatch

\* The answers, cancellations and the close leave the batches where they are:
\* only open requests are decided, and the waiting batches of the conversations
\* that are revoked are cancelled.
LEMMA AnswersPreserveRequests ==
  ASSUME ToolsAssumption, RequestInv,
         UNCHANGED <<pending, stage, step, covered, automatic>>,
         future' \in [Calls -> R!Decisions \cup {"open"}],
         \A k \in Calls : future[k] # "open" => future'[k] = future[k],
         LiveTurns', (R!NoGrantAfterTurn)',
         NEW C \in SUBSET Conversations,
         revoked' = revoked \cup UNION {Waiting(c) : c \in C},
         \A k \in Calls : /\ k \in ToSet(pending) /\ future[k] = "open"
                          /\ CallConversation[k] \in C
                          => future'[k] = "cancelled"
  PROVE  RequestInv'
<1>1. stage' \in [Calls -> {"new", "prompting", "waiting", "ended"}] /\ UNCHANGED AskedCalls
  BY DEF RequestInv, RequestTypes, AskedCalls, Asked
<1>2. revoked' \subseteq Batches
  BY DEF RequestInv, RequestTypes, Waiting
<1>3. ASSUME NEW b \in revoked' \ revoked
      PROVE  \E k \in AskedFor(b) : future'[k] \notin R!Approvals \cup {"open"}
  <2>1. PICK c \in C : b \in Waiting(c)
    BY <1>3
  <2>2. PICK k \in AskedFor(b) : future[k] = "open"
    BY <2>1 DEF Waiting
  <2>3. b \in Batches /\ ConversationOf[b] = c
    BY <2>1 DEF Waiting
  <2>4. k \in Calls /\ k \in CallsIn[b] /\ Asked(k)
    BY <2>3, AskedForFacts
  <2>5. k \in ToSet(pending) /\ CallConversation[k] = c
    BY <2>3, <2>4, AskedFacts, BatchFacts
  <2> QED BY <2>2, <2>4, <2>5 DEF R!Approvals
<1> QED BY <1>1, <1>2, <1>3, QuietRequests

\* A cancellation decides the open requests of a set.
LEMMA SettleFacts ==
  ASSUME RequestInv, NEW S, R!Settle(S)
  PROVE  /\ future' \in [Calls -> R!Decisions \cup {"open"}]
         /\ \A k \in Calls : future[k] # "open" => future'[k] = future[k]
         /\ \A k \in Calls : k \in S /\ k \in ToSet(pending) /\ future[k] = "open"
                                 => future'[k] = "cancelled"
BY DEF R!Settle, R!OpenRequests, R!ToSet, ToSet, R!Decisions, RequestInv, RequestTypes

LEMMA DecisionPreservesRequests ==
  ASSUME ToolsAssumption, RequestInv, NEW c \in Conversations, NEW k \in Calls,
         NEW action \in R!Approvals \cup {"rejected"}, Decide(c, k, action)
  PROVE  RequestInv'
<1>1. UNCHANGED <<pending, stage, step, covered, automatic, over, revoked>>
  BY DEF Decide, R!ResolvePending, batchVars, historyVars
<1>2. future[k] = "open" /\ k \in ToSet(pending)
  BY DEF Decide, R!ResolvePending, R!IsCurrent, R!OpenRequests, R!ToSet, ToSet
<1>3. /\ future' \in [Calls -> R!Decisions \cup {"open"}]
      /\ \A j \in Calls : future[j] # "open" => future'[j] = future[j]
  <2>1. future' = [future EXCEPT ![k] = "expired"] \/ future' = [future EXCEPT ![k] = action]
    BY DEF Decide, R!ResolvePending
  <2>2. action \in R!Decisions /\ "expired" \in R!Decisions
    BY DEF R!Decisions
  <2> QED BY <1>2, <2>1, <2>2 DEF RequestInv, RequestTypes
<1>4. LiveTurns'
  BY <1>1 DEF RequestInv, LiveTurns, Live
<1>5. (R!NoGrantAfterTurn)'
  <2>1. turnGrants' \subseteq turnGrants \cup {<<CallTurn[k], CapabilityOf[k]>>}
    BY DEF Decide, R!ResolvePending, R!grantVars
  <2>2. PICK b \in Batches : k \in CallsIn[b]
    BY <1>2, CurrentFacts DEF RequestInv, PendingIsAsked, OneAtATime
  <2>3. CallTurn[k] \notin over
    BY <1>2, <2>2, AskedFacts, BatchFacts DEF RequestInv, PendingIsAsked
  <2>4. ASSUME NEW t \in over PROVE turnGrants' \cap R!GrantsTo(t) = {}
    <3>1. <<CallTurn[k], CapabilityOf[k]>> \notin R!GrantsTo(t)
      BY <2>3 DEF R!GrantsTo
    <3>2. turnGrants \cap R!GrantsTo(t) = {}
      BY DEF RequestInv, R!NoGrantAfterTurn
    <3> QED BY <2>1, <3>1, <3>2
  <2>5. \A t \in over' : turnGrants' \cap R!GrantsTo(t)' = {}
    BY <1>1, <2>4 DEF R!GrantsTo
  <2> QED BY <2>5 DEF R!NoGrantAfterTurn
<1>6. {} \in SUBSET Conversations /\ revoked' = revoked \cup UNION {Waiting(d) : d \in {}}
  BY <1>1
<1> QED BY <1>1, <1>3, <1>4, <1>5, <1>6, AnswersPreserveRequests

LEMMA CancellationPreservesRequests ==
  ASSUME ToolsAssumption, RequestInv,
         \/ \E c \in Conversations : Revoke(c)
         \/ \E t \in Turns : TurnEnds(t)
         \/ Close
  PROVE  RequestInv'
<1>1. CASE \E c \in Conversations : Revoke(c)
  <2>1. PICK c \in Conversations : Revoke(c)
    BY <1>1
  <2>2. /\ UNCHANGED <<pending, stage, step, covered, automatic, over>>
        /\ revoked' = revoked \cup UNION {Waiting(d) : d \in {c}}
        /\ turnGrants' \subseteq turnGrants
        /\ R!Settle(R!InConversation(c))
    BY <2>1 DEF Revoke, R!Revoke, R!CancelSession
  <2>3. /\ future' \in [Calls -> R!Decisions \cup {"open"}]
        /\ \A k \in Calls : future[k] # "open" => future'[k] = future[k]
        /\ \A k \in Calls : /\ k \in ToSet(pending) /\ future[k] = "open"
                            /\ CallConversation[k] \in {c}
                            => future'[k] = "cancelled"
    BY <2>2, SettleFacts DEF R!InConversation
  <2>4. LiveTurns' /\ (R!NoGrantAfterTurn)'
    BY <2>2 DEF RequestInv, LiveTurns, Live, R!NoGrantAfterTurn, R!GrantsTo
  <2> QED BY <2>2, <2>3, <2>4, AnswersPreserveRequests
<1>2. CASE \E t \in Turns : TurnEnds(t)
  <2>1. PICK t \in Turns : TurnEnds(t)
    BY <1>2
  <2>2. /\ UNCHANGED <<pending, stage, step, covered, automatic, revoked>>
        /\ turnGrants' = turnGrants \ R!GrantsTo(t) /\ over' = over \cup {t}
        /\ \E S : R!Settle(S)
    BY <2>1 DEF TurnEnds, R!CancelTurn, R!SettleTurn, R!GrantsLeft, batchVars, historyVars
  <2>3. /\ future' \in [Calls -> R!Decisions \cup {"open"}]
        /\ \A k \in Calls : future[k] # "open" => future'[k] = future[k]
    BY <2>2, SettleFacts
  <2>4. LiveTurns'
    BY <2>1, <2>2 DEF TurnEnds, RequestInv, LiveTurns, Live
  <2>5. (R!NoGrantAfterTurn)'
    BY <2>2 DEF RequestInv, R!NoGrantAfterTurn, R!GrantsTo
  <2>6. {} \in SUBSET Conversations /\ revoked' = revoked \cup UNION {Waiting(c) : c \in {}}
    BY <2>2
  <2> QED BY <2>2, <2>3, <2>4, <2>5, <2>6, AnswersPreserveRequests
<1>3. CASE Close
  <2>1. /\ UNCHANGED <<pending, stage, step, covered, automatic, over>>
        /\ revoked' = revoked \cup UNION {Waiting(c) : c \in Conversations}
        /\ turnGrants' = {}
        /\ R!Settle(Calls)
    BY <1>3 DEF Close, R!Close
  <2>2. /\ future' \in [Calls -> R!Decisions \cup {"open"}]
        /\ \A k \in Calls : future[k] # "open" => future'[k] = future[k]
        /\ \A k \in Calls : /\ k \in ToSet(pending) /\ future[k] = "open"
                            /\ CallConversation[k] \in Conversations
                            => future'[k] = "cancelled"
    BY <2>1, SettleFacts
  <2>3. LiveTurns' /\ (R!NoGrantAfterTurn)'
    BY <2>1 DEF RequestInv, LiveTurns, Live, R!NoGrantAfterTurn, R!GrantsTo
  <2>4. Conversations \in SUBSET Conversations
    OBVIOUS
  <2> QED BY <2>1, <2>2, <2>3, <2>4, AnswersPreserveRequests
<1> QED BY <1>1, <1>2, <1>3

\* The rest is not about requests.
LEMMA OthersPreserveRequests ==
  ASSUME ToolsAssumption, RequestInv,
         \/ \E k \in Calls : CallStarts(k) \/ CallEnds(k) \/ Expire(k)
         \/ \E c \in Conversations : Enable(c)
         \/ DeliveryMoves
         \/ UNCHANGED vars
  PROVE  RequestInv'
<1>1. /\ UNCHANGED <<pending, stage, future, step, covered, automatic>>
      /\ UNCHANGED <<turnGrants, over, revoked>>
  <2>1. CASE \E k \in Calls : CallStarts(k) \/ CallEnds(k)
    BY <2>1 DEF CallStarts, CallEnds, brokerVars, requestVars, historyVars
  <2>2. CASE \E k \in Calls : Expire(k)
    BY <2>2 DEF Expire, R!Expire, R!grantVars, batchVars, historyVars
  <2>3. CASE \E c \in Conversations : Enable(c)
    BY <2>3 DEF Enable, R!ResolveIdle, batchVars, historyVars
  <2>4. CASE DeliveryMoves
    <3>1. UNCHANGED pending
      BY <2>4 DEF DeliveryMoves, DeliveryStep, D!WorkerStep, D!LoopStep, D!Deliver, D!OperationEnds,
                  D!Finish, D!WorkerResumes, D!Defer, D!ExtractSession, D!ExtractTurn, D!Extract,
                  D!Settle, D!TakeOut
    <3> QED BY <2>4, <3>1 DEF DeliveryMoves, requestVars, batchVars, historyVars
  <2>5. CASE UNCHANGED vars
    BY <2>5 DEF vars, brokerVars, requestVars, batchVars, historyVars
  <2> QED BY <2>1, <2>2, <2>3, <2>4, <2>5
<1>2. /\ future' \in [Calls -> R!Decisions \cup {"open"}]
      /\ LiveTurns' /\ (R!NoGrantAfterTurn)'
  BY <1>1 DEF RequestInv, RequestTypes, LiveTurns, Live, R!NoGrantAfterTurn
<1>3. {} \in SUBSET Conversations /\ revoked' = revoked \cup UNION {Waiting(c) : c \in {}}
  BY <1>1
<1> QED BY <1>1, <1>2, <1>3, AnswersPreserveRequests

LEMMA NextPreservesRequests == ToolsAssumption /\ RequestInv /\ [Next]_vars => RequestInv'
<1> SUFFICES ASSUME ToolsAssumption, RequestInv, [Next]_vars PROVE RequestInv'
  OBVIOUS
<1>1. ASSUME NEW b \in Batches, BatchStep(b) PROVE RequestInv'
  <2>1. CASE Deny(b) \/ Begin(b)
    BY <2>1, StartPreservesRequests
  <2>2. CASE ReviewEnds(b) \/ AutoApproved(b)
    BY <2>2, ReviewPreservesRequests
  <2>3. CASE Ask(b)
    BY <2>3, AskPreservesRequests
  <2>4. CASE Presented(b)
    BY <2>4, PromptPreservesRequests
  <2>5. CASE RequestEnds(b)
    BY <2>5, EndPreservesRequests
  <2>6. CASE ScopeEnds(b) \/ Executed(b)
    BY <2>6, LeavingPreservesRequests
  <2>7. CASE Interrupt(b)
    BY <2>7, EndPreservesRequests, LeavingPreservesRequests
  <2> QED BY <1>1, <2>1, <2>2, <2>3, <2>4, <2>5, <2>6, <2>7 DEF BatchStep
<1>2. ASSUME NEW c \in Conversations, NEW k \in Calls, NEW action \in R!Approvals \cup {"rejected"},
             Decide(c, k, action)
      PROVE  RequestInv'
  BY <1>2, DecisionPreservesRequests
<1>3. CASE \/ \E c \in Conversations : Revoke(c)
           \/ \E t \in Turns : TurnEnds(t)
           \/ Close
  BY <1>3, CancellationPreservesRequests
<1>4. CASE \/ \E k \in Calls : CallStarts(k) \/ CallEnds(k) \/ Expire(k)
           \/ \E c \in Conversations : Enable(c)
           \/ DeliveryMoves
           \/ UNCHANGED vars
  BY <1>4, OthersPreserveRequests
<1> QED BY <1>1, <1>2, <1>3, <1>4 DEF Next

-----------------------------------------------------------------------------
(* The scopes.                                                              *)

LEMMA ScopesStay ==
  ASSUME ScopeInv, UNCHANGED scopes, closed => closed',
         \A b \in Batches : step'[b] \in Deciding <=> step[b] \in Deciding
  PROVE  ScopeInv'
<1>1. \A c \in Conversations :
        {b \in Batches : ConversationOf[b] = c /\ step'[b] \in Deciding}
        = {b \in Batches : ConversationOf[b] = c /\ step[b] \in Deciding}
  OBVIOUS
<1> QED BY <1>1 DEF ScopeInv, ScopesAreBatches

\* One batch begins to be decided.
LEMMA ScopeOpens ==
  ASSUME ToolsAssumption, RequestInv, ScopeInv, NEW b \in Batches, NEW s \in Deciding,
         step[b] \notin Deciding, step' = [step EXCEPT ![b] = s], UNCHANGED closed,
         D!BeginScope(ConversationOf[b])
  PROVE  ScopeInv'
<1> DEFINE Of(c) == {d \in Batches : ConversationOf[d] = c /\ step[d] \in Deciding}
<1>1. /\ step \in [Batches -> Steps] /\ scopes \in [Conversations -> Nat]
      /\ IsFiniteSet(Batches) /\ ConversationOf[b] \in Conversations
  BY DEF RequestInv, RequestTypes, Steps, ScopeInv, ToolsAssumption
<1>2. \A d \in Batches : step'[d] \in Deciding <=> (step[d] \in Deciding \/ d = b)
  BY <1>1
<1>3. scopes' = [scopes EXCEPT ![ConversationOf[b]] = @ + 1]
  BY DEF D!BeginScope
<1>4. scopes' \in [Conversations -> Nat]
  BY <1>1, <1>3
<1>5. ASSUME NEW c \in Conversations, ~closed
      PROVE  scopes'[c] = Cardinality({d \in Batches : ConversationOf[d] = c /\ step'[d] \in Deciding})
  <2>1. IsFiniteSet(Of(c)) /\ scopes[c] = Cardinality(Of(c))
    BY <1>1, <1>5, FS_Subset DEF ScopeInv, ScopesAreBatches
  <2>2. CASE c = ConversationOf[b]
    <3>1. b \notin Of(c)
          /\ {d \in Batches : ConversationOf[d] = c /\ step'[d] \in Deciding} = Of(c) \cup {b}
      BY <1>2, <2>2
    <3> HIDE DEF Of
    <3>2. Cardinality(Of(c) \cup {b}) = Cardinality(Of(c)) + 1
      BY <2>1, <3>1, FS_AddElement
    <3>3. scopes'[c] = scopes[c] + 1
      BY <1>1, <1>3, <2>2
    <3> QED BY <2>1, <3>1, <3>2, <3>3
  <2>3. CASE c # ConversationOf[b]
    <3>1. {d \in Batches : ConversationOf[d] = c /\ step'[d] \in Deciding} = Of(c)
      BY <1>2, <2>3
    <3>2. scopes'[c] = scopes[c]
      BY <1>1, <1>3, <2>3
    <3> QED BY <2>1, <3>1, <3>2
  <2> QED BY <2>2, <2>3
<1> QED BY <1>4, <1>5 DEF ScopeInv, ScopesAreBatches

\* One batch has been decided.
LEMMA ScopeCloses ==
  ASSUME ToolsAssumption, RequestInv, ScopeInv, NEW b \in Batches, NEW s \in Steps \ Deciding,
         step[b] \in Deciding, step' = [step EXCEPT ![b] = s], UNCHANGED closed,
         D!EndScope(ConversationOf[b])
  PROVE  ScopeInv'
<1> DEFINE Of(c) == {d \in Batches : ConversationOf[d] = c /\ step[d] \in Deciding}
<1>1. /\ step \in [Batches -> Steps] /\ scopes \in [Conversations -> Nat]
      /\ IsFiniteSet(Batches) /\ ConversationOf[b] \in Conversations
  BY DEF RequestInv, RequestTypes, Steps, ScopeInv, ToolsAssumption
<1>2. \A d \in Batches : step'[d] \in Deciding <=> (step[d] \in Deciding /\ d # b)
  BY <1>1
<1>3. PICK n \in Nat : /\ n = IF scopes[ConversationOf[b]] <= 1 THEN 0
                              ELSE scopes[ConversationOf[b]] - 1
                       /\ scopes' = [scopes EXCEPT ![ConversationOf[b]] = n]
  <2>1. D!Depth(ConversationOf[b]) = IF scopes[ConversationOf[b]] <= 1 THEN 0
                                     ELSE scopes[ConversationOf[b]] - 1
    BY DEF D!Depth
  <2>2. scopes[ConversationOf[b]] \in Nat
    BY <1>1
  <2>3. D!Depth(ConversationOf[b]) \in Nat
    BY <2>1, <2>2
  <2>4. scopes' = [scopes EXCEPT ![ConversationOf[b]] = D!Depth(ConversationOf[b])]
    BY DEF D!EndScope
  <2> QED BY <2>1, <2>3, <2>4
<1>4. scopes' \in [Conversations -> Nat]
  BY <1>1, <1>3
<1>5. ASSUME NEW c \in Conversations, ~closed
      PROVE  scopes'[c] = Cardinality({d \in Batches : ConversationOf[d] = c /\ step'[d] \in Deciding})
  <2>1. IsFiniteSet(Of(c)) /\ scopes[c] = Cardinality(Of(c))
    BY <1>1, <1>5, FS_Subset DEF ScopeInv, ScopesAreBatches
  <2>2. CASE c = ConversationOf[b]
    <3>1. b \in Of(c)
          /\ {d \in Batches : ConversationOf[d] = c /\ step'[d] \in Deciding} = Of(c) \ {b}
      BY <1>2, <2>2
    <3> HIDE DEF Of
    <3>2. Cardinality(Of(c) \ {b}) = Cardinality(Of(c)) - 1 /\ Cardinality(Of(c) \ {b}) \in Nat
      BY <2>1, <3>1, FS_RemoveElement, FS_CardinalityType
    <3>3. scopes'[c] = n
      BY <1>1, <1>3, <2>2
    <3>4. n = IF scopes[c] <= 1 THEN 0 ELSE scopes[c] - 1
      BY <1>3, <2>2
    <3>5. n = scopes[c] - 1
      BY <1>1, <2>1, <3>2, <3>4
    <3> QED BY <2>1, <3>1, <3>2, <3>3, <3>5
  <2>3. CASE c # ConversationOf[b]
    <3>1. {d \in Batches : ConversationOf[d] = c /\ step'[d] \in Deciding} = Of(c)
      BY <1>2, <2>3
    <3>2. scopes'[c] = scopes[c]
      BY <1>1, <1>3, <2>3
    <3> QED BY <2>1, <3>1, <3>2
  <2> QED BY <2>2, <2>3
<1> QED BY <1>4, <1>5 DEF ScopeInv, ScopesAreBatches

LEMMA NextPreservesScopes ==
  ToolsAssumption /\ RequestInv /\ ScopeInv /\ [Next]_vars => ScopeInv'
<1> SUFFICES ASSUME ToolsAssumption, RequestInv, ScopeInv, [Next]_vars PROVE ScopeInv'
  OBVIOUS
<1>1. step \in [Batches -> Steps]
  BY DEF RequestInv, RequestTypes, Steps
<1>2. ASSUME NEW b \in Batches, BatchStep(b) PROVE ScopeInv'
  <2>1. CASE Begin(b) /\ Asking \cap CallsIn[b] # {}
    <3>1. /\ D!BeginScope(ConversationOf[b]) /\ step[b] = "new"
          /\ \/ step' = [step EXCEPT ![b] = "approving"]
             \/ step' = [step EXCEPT ![b] = "reviewing"]
      BY <2>1 DEF Begin, MayBegin
    <3>2. UNCHANGED closed /\ step[b] \notin Deciding
      BY <3>1 DEF D!BeginScope, Deciding, Approving
    <3>3. "approving" \in Deciding /\ "reviewing" \in Deciding
      BY DEF Deciding, Approving
    <3> QED BY <3>1, <3>2, <3>3, ScopeOpens
  <2>2. CASE ScopeEnds(b)
    <3>1. D!EndScope(ConversationOf[b]) /\ step[b] \in Deciding
      BY <2>2 DEF ScopeEnds
    <3>2. UNCHANGED closed
      BY <3>1 DEF D!EndScope
    <3>3. \E s \in Steps \ Deciding : step' = [step EXCEPT ![b] = s]
      <4>1. {"running", "aborted", "cancelled"} \subseteq Steps \ Deciding
        BY DEF Steps, Deciding, Approving, Ended
      <4>2. \/ step' = [step EXCEPT ![b] = "running"]
            \/ step' = [step EXCEPT ![b] = "aborted"]
            \/ step' = [step EXCEPT ![b] = "cancelled"]
        BY <2>2 DEF ScopeEnds
      <4> QED BY <4>1, <4>2
    <3> QED BY <3>1, <3>2, <3>3, ScopeCloses
  <2>3. CASE ~(Begin(b) /\ Asking \cap CallsIn[b] # {}) /\ ~ScopeEnds(b)
    <3>1. UNCHANGED <<scopes, closed>>
      BY <1>2, <2>3 DEF BatchStep, Deny, Begin, ReviewEnds, AutoApproved, Ask, Presented, RequestEnds,
           Executed, Interrupt, R!Suspend, R!Prompted, R!PromptFails, R!Decided, R!Interrupt, R!End,
           D!Register, D!Unregister, D!listVars, brokerVars, requestVars, deferVars
    <3>2. \/ UNCHANGED step
          \/ /\ step[b] \in Deciding
             /\ \E s \in {"reviewed", "aborting", "cancelling"} : step' = [step EXCEPT ![b] = s]
          \/ /\ step[b] \in {"new", "running"}
             /\ \E s \in {"aborted", "running", "executed", "cancelled"} :
                  step' = [step EXCEPT ![b] = s]
      BY <1>2, <2>3 DEF BatchStep, Deny, Begin, MayBegin, ReviewEnds, AutoApproved, Ask, Presented,
           RequestEnds, Executed, Interrupt, Recheck, batchVars, Deciding, Approving
    <3>3. \A d \in Batches : step'[d] \in Deciding <=> step[d] \in Deciding
      BY <1>1, <3>2 DEF Deciding, Approving
    <3> QED BY <3>1, <3>3, ScopesStay
  <2> QED BY <2>1, <2>2, <2>3
<1>3. CASE Close
  BY <1>3 DEF Close, D!Close, ScopeInv, ScopesAreBatches
<1>4. CASE /\ UNCHANGED <<scopes, step>>
           /\ UNCHANGED closed
  BY <1>4, ScopesStay
<1>5. ASSUME ~\E b \in Batches : BatchStep(b), ~Close
      PROVE  UNCHANGED <<scopes, step>> /\ UNCHANGED closed
  <2>1. CASE \/ \E k \in Calls : CallStarts(k) \/ CallEnds(k) \/ Expire(k)
             \/ \E c \in Conversations :
                  \/ Enable(c) \/ Revoke(c)
                  \/ \E k \in Calls, action \in R!Approvals \cup {"rejected"} : Decide(c, k, action)
             \/ \E t \in Turns : TurnEnds(t)
    BY <2>1 DEF CallStarts, CallEnds, Expire, Enable, Revoke, Decide, TurnEnds, R!Expire,
         R!ResolveIdle, R!Revoke, R!CancelSession, R!ResolvePending, R!CancelTurn,
         brokerVars, batchVars, deferVars
  <2>2. CASE DeliveryMoves
    <3>1. UNCHANGED scopes /\ UNCHANGED closed
      BY <2>2 DEF DeliveryMoves, DeliveryStep, D!WorkerStep, D!LoopStep, D!Deliver, D!OperationEnds,
           D!Finish, D!WorkerResumes, D!Defer, D!ExtractSession, D!ExtractTurn, D!Extract,
           D!Settle, D!TakeOut, D!listVars
    <3> QED BY <2>2, <3>1 DEF DeliveryMoves, batchVars
  <2>3. CASE UNCHANGED vars
    BY <2>3 DEF vars, brokerVars, batchVars, deferVars
  <2> QED BY <1>5, <2>1, <2>2, <2>3 DEF Next
<1> QED BY <1>2, <1>3, <1>4, <1>5

\* One list after the other.
LEMMA Joined ==
  ASSUME NEW S, NEW s \in Seq(S), NEW t \in Seq(S)
  PROVE  /\ s \o t \in Seq(S) /\ ToSet(s \o t) = ToSet(s) \cup ToSet(t)
         /\ InOrder(s) /\ InOrder(t) /\ Ahead(ToSet(s), ToSet(t)) => InOrder(s \o t)
         /\ s # <<>> => s \o t # <<>> /\ (s \o t)[1] = s[1]
<1> DEFINE u == s \o t
<1>1. /\ u \in Seq(S) /\ Len(u) = Len(s) + Len(t)
      /\ \A i \in 1..Len(s) : u[i] = s[i]
      /\ \A i \in 1..Len(t) : u[Len(s) + i] = t[i]
  OBVIOUS
<1>2. Len(s) \in Nat /\ Len(t) \in Nat
  OBVIOUS
<1> HIDE DEF u
<1>3. \A i \in 1..Len(u) : \/ i \in 1..Len(s) /\ u[i] = s[i]
                           \/ i > Len(s) /\ i - Len(s) \in 1..Len(t) /\ u[i] = t[i - Len(s)]
  <2> TAKE i \in 1..Len(u)
  <2>1. i \in 1..Len(s) \/ (i > Len(s) /\ i - Len(s) \in 1..Len(t))
    BY <1>1, <1>2
  <2>2. CASE i - Len(s) \in 1..Len(t)
    <3>1. Len(s) + (i - Len(s)) = i
      BY <1>2
    <3> QED BY <1>1, <2>2, <3>1
  <2>3. i \in 1..Len(s) => u[i] = s[i]
    BY <1>1
  <2> QED BY <2>1, <2>2, <2>3
<1>4. ToSet(u) = ToSet(s) \cup ToSet(t)
  <2>1. ToSet(u) \subseteq ToSet(s) \cup ToSet(t)
    BY <1>1, <1>3 DEF ToSet
  <2>2. \A i \in 1..Len(s) : i \in 1..Len(u)
    BY <1>1, <1>2
  <2>3. \A i \in 1..Len(t) : Len(s) + i \in 1..Len(u)
    BY <1>1, <1>2
  <2>4. ToSet(s) \subseteq ToSet(u)
    <3>1. \A i \in 1..Len(s) : u[i] \in ToSet(u) /\ u[i] = s[i]
      BY <1>1, <2>2 DEF ToSet
    <3> QED BY <3>1 DEF ToSet
  <2>5. ToSet(t) \subseteq ToSet(u)
    <3>1. ASSUME NEW i \in 1..Len(t) PROVE t[i] \in ToSet(u)
      <4>1. Len(s) + i \in DOMAIN u /\ u[Len(s) + i] = t[i]
        BY <1>1, <2>3
      <4> QED BY <4>1 DEF ToSet
    <3> QED BY <3>1 DEF ToSet
  <2> QED BY <2>1, <2>4, <2>5
<1>5. ASSUME InOrder(s), InOrder(t), Ahead(ToSet(s), ToSet(t)) PROVE InOrder(u)
  <2> SUFFICES ASSUME NEW i \in 1..Len(u), NEW j \in 1..Len(u), i < j
               PROVE  u[i] # u[j] /\ (DeferredIn[u[i]] = DeferredIn[u[j]] => u[i] < u[j])
    BY <1>1 DEF InOrder
  <2>1. CASE j \in 1..Len(s) /\ u[j] = s[j]
    <3>1. i \in 1..Len(s) /\ u[i] = s[i]
      BY <1>1, <1>2, <2>1
    <3> QED BY <1>5, <2>1, <3>1 DEF InOrder
  <2>2. CASE j > Len(s) /\ j - Len(s) \in 1..Len(t) /\ u[j] = t[j - Len(s)]
    <3>1. CASE i \in 1..Len(s) /\ u[i] = s[i]
      <4>1. u[i] \in ToSet(s) /\ u[j] \in ToSet(t)
        BY <2>2, <3>1 DEF ToSet
      <4> QED BY <1>5, <4>1 DEF Ahead
    <3>2. CASE i > Len(s) /\ i - Len(s) \in 1..Len(t) /\ u[i] = t[i - Len(s)]
      <4>1. i - Len(s) < j - Len(s)
        BY <1>2
      <4> QED BY <1>5, <2>2, <3>2, <4>1 DEF InOrder
    <3> QED BY <1>3, <3>1, <3>2
  <2> QED BY <1>3, <2>1, <2>2
<1>6. s # <<>> => u # <<>> /\ u[1] = s[1]
  <2>1. s # <<>> => 1 \in 1..Len(s)
    BY <1>2
  <2>2. 1 \in 1..Len(s) => u[1] = s[1] /\ Len(u) # 0
    BY <1>1, <1>2
  <2> QED BY <2>1, <2>2, <1>1
<1> QED BY <1>1, <1>4, <1>5, <1>6 DEF u

\* A message more.
LEMMA Appended ==
  ASSUME NEW S, NEW s \in Seq(S), NEW e \in S
  PROVE  /\ Append(s, e) \in Seq(S) /\ ToSet(Append(s, e)) = ToSet(s) \cup {e}
         /\ InOrder(s) /\ Ahead(ToSet(s), {e}) => InOrder(Append(s, e))
<1>1. /\ Append(s, e) \in Seq(S) /\ Append(s, e) = s \o <<e>> /\ <<e>> \in Seq(S)
  OBVIOUS
<1>2. ToSet(<<e>>) = {e} /\ InOrder(<<e>>)
  <2>1. ToSet(<<e>>) = {e}
    BY DEF ToSet
  <2>2. \A i, j \in DOMAIN <<e>> : ~(i < j)
    OBVIOUS
  <2> QED BY <2>1, <2>2 DEF InOrder
<1>3. /\ s \o <<e>> \in Seq(S) /\ ToSet(s \o <<e>>) = ToSet(s) \cup ToSet(<<e>>)
      /\ InOrder(s) /\ InOrder(<<e>>) /\ Ahead(ToSet(s), ToSet(<<e>>)) => InOrder(s \o <<e>>)
  BY <1>1, Joined
<1> QED BY <1>1, <1>2, <1>3

\* What is left of a list is in order.
LEMMA Left ==
  ASSUME NEW S, NEW s \in Seq(S), NEW keep
  PROVE  /\ Only(s, keep) \in Seq(S) /\ ToSet(Only(s, keep)) = ToSet(s) \cap keep
         /\ InOrder(s) => InOrder(Only(s, keep))
         /\ s # <<>> /\ s[1] \in keep => Only(s, keep) # <<>> /\ Only(s, keep)[1] = s[1]
<1> DEFINE u == Only(s, keep)   P == Positions(s, keep)
<1>1. u \in Seq(S)
  BY OnlyFacts
<1>2. PICK at \in [1..Len(u) -> P] :
        /\ \A k, l \in 1..Len(u) : k < l => at[k] < at[l]
        /\ \A i \in P : \E k \in 1..Len(u) : at[k] = i
        /\ \A k \in 1..Len(u) : u[k] = s[at[k]]
  <2>1. \E at \in [1..Len(u) -> P] :
        /\ \A k, l \in 1..Len(u) : k < l => at[k] < at[l]
        /\ \A i \in P : \E k \in 1..Len(u) : at[k] = i
        /\ \A k \in 1..Len(u) : u[k] = s[at[k]]
    BY OnlyFacts
  <2> QED BY <2>1
<1>3. P = {i \in 1..Len(s) : s[i] \in keep} /\ Len(u) \in Nat /\ Len(s) \in Nat
  <2>1. Len(u) \in Nat
    <3> HIDE DEF u
    <3> QED BY <1>1
  <2> QED BY <2>1 DEF Positions
<1> HIDE DEF u, P
<1>4. ToSet(u) = ToSet(s) \cap keep
  <2>1. \A k \in 1..Len(u) : u[k] \in ToSet(s) \cap keep
    BY <1>2, <1>3 DEF ToSet
  <2>2. \A i \in 1..Len(s) : s[i] \in keep => s[i] \in ToSet(u)
    BY <1>1, <1>2, <1>3 DEF ToSet
  <2> QED BY <1>1, <2>1, <2>2 DEF ToSet
<1>5. ASSUME InOrder(s) PROVE InOrder(u)
  <2> SUFFICES ASSUME NEW k \in 1..Len(u), NEW l \in 1..Len(u), k < l
               PROVE  u[k] # u[l] /\ (DeferredIn[u[k]] = DeferredIn[u[l]] => u[k] < u[l])
    BY <1>1 DEF InOrder
  <2>1. at[k] < at[l] /\ at[k] \in DOMAIN s /\ at[l] \in DOMAIN s
    BY <1>2, <1>3
  <2>2. u[k] = s[at[k]] /\ u[l] = s[at[l]]
    BY <1>2
  <2> QED BY <1>5, <2>1, <2>2 DEF InOrder
<1>6. ASSUME s # <<>>, s[1] \in keep PROVE u # <<>> /\ u[1] = s[1]
  <2>1. 1 \in P
    BY <1>3, <1>6
  <2>2. PICK k \in 1..Len(u) : at[k] = 1
    BY <1>2, <2>1
  <2>3. k = 1
    <3>1. 1 \in 1..Len(u) /\ at[1] \in P
      BY <1>2, <1>3
    <3>2. ~(1 < k)
      <4>1. ~(at[1] < 1)
        BY <1>3, <3>1
      <4> QED BY <1>2, <2>2, <3>1, <4>1
    <3> QED BY <1>3, <3>2
  <2> QED BY <1>1, <1>2, <2>2, <2>3
<1> QED BY <1>1, <1>4, <1>5, <1>6 DEF u

\* A list in order has as many messages as places.
LEMMA Counted ==
  ASSUME NEW S, NEW s \in Seq(S), InOrder(s)
  PROVE  IsFiniteSet(ToSet(s)) /\ Cardinality(ToSet(s)) = Len(s)
<1> DEFINE f == [i \in 1..Len(s) |-> s[i]]
<1>1. Len(s) \in Nat
  OBVIOUS
<1>2. \A i, j \in 1..Len(s) : s[i] = s[j] => i = j
  <2> TAKE i, j \in 1..Len(s)
  <2>1. i < j \/ j < i \/ i = j
    BY <1>1
  <2>2. i \in DOMAIN s /\ j \in DOMAIN s
    OBVIOUS
  <2> QED BY <2>1, <2>2 DEF InOrder
<1>3. f \in Bijection(1..Len(s), ToSet(s))
  BY <1>2 DEF Bijection, Injection, IsInjective, Surjection, ToSet
<1>4. IsFiniteSet(1..Len(s)) /\ Cardinality(1..Len(s)) = Len(s)
  BY <1>1, FS_Interval
<1>5. IsFiniteSet(ToSet(s)) /\ Cardinality(ToSet(s)) = Cardinality(1..Len(s))
  <2>1. ExistsBijection(1..Len(s), ToSet(s))
    BY <1>3 DEF ExistsBijection
  <2> QED BY <1>4, <2>1, FS_Bijection
<1> QED BY <1>4, <1>5

\* A sequence of the elements of a finite set has them all.
LEMMA Enumerated ==
  ASSUME NEW S, IsFiniteSet(S), NEW all \in SetToSeqs(S)
  PROVE  /\ all \in Seq(S) /\ ToSet(all) = S
         /\ \A i, j \in DOMAIN all : i # j => all[i] # all[j]
<1>1. Cardinality(S) \in Nat
  BY FS_CardinalityType
<1>2. IsFiniteSet(1..Cardinality(S)) /\ Cardinality(1..Cardinality(S)) = Cardinality(S)
  BY <1>1, FS_Interval
<1>3. all \in [1..Cardinality(S) -> S] /\ \A i, j \in 1..Cardinality(S) : i # j => all[i] # all[j]
  BY DEF SetToSeqs
<1>4. all \in Injection(1..Cardinality(S), S)
  BY <1>3 DEF Injection, IsInjective
<1>5. all \in Surjection(1..Cardinality(S), S)
  BY <1>2, <1>4, FS_Injection
<1>6. ToSet(all) = S
  BY <1>3, <1>5 DEF Surjection, ToSet
<1> QED BY <1>1, <1>3, <1>6

-----------------------------------------------------------------------------
(* Messages are deferred and move on.                                       *)

LEMMA MessageConversation ==
  ASSUME ToolsAssumption
  PROVE  /\ \A m \in Messages : DeferredIn[m] = ConversationOf[m] /\ DeferredIn[m] \in Conversations
         /\ \A k \in Calls : DeferredIn[k] = CallConversation[k]
         /\ Messages \subseteq Nat
<1>1. \A m \in Messages : m \notin Calls
  BY DEF ToolsAssumption
<1>2. Messages \subseteq Nat
  <2>1. D!DeliveryAssumption
    BY BrokerAssumption
  <2> QED BY <2>1 DEF D!DeliveryAssumption
<1> QED BY <1>1, <1>2 DEF ToolsAssumption, DeferredIn

LEMMA WaitingIs == D!Waiting = Waits /\ D!Waiting' = Waits'
BY DEF D!Waiting, Waits, D!ToSet, ToSet

\* A conversation has one first request.
LEMMA OneFirst ==
  ASSUME pending \in Seq(Calls), NEW k \in Calls, NEW q \in Calls,
         D!IsFirst(k), D!IsFirst(q), DeferredIn[k] = DeferredIn[q]
  PROVE  k = q
<1>1. PICK i \in DOMAIN pending : pending[i] = k /\ \A j \in 1..(i - 1) : DeferredIn[pending[j]] # DeferredIn[k]
  BY DEF D!IsFirst
<1>2. PICK l \in DOMAIN pending : pending[l] = q /\ \A j \in 1..(l - 1) : DeferredIn[pending[j]] # DeferredIn[q]
  BY DEF D!IsFirst
<1>3. i \in Nat /\ l \in Nat /\ i >= 1 /\ l >= 1
  OBVIOUS
<1>4. i < l => i \in 1..(l - 1)
  BY <1>3
<1>5. l < i => l \in 1..(i - 1)
  BY <1>3
<1>6. i < l \/ l < i \/ i = l
  BY <1>3
<1> QED BY <1>1, <1>2, <1>4, <1>5, <1>6

\* A new request is behind the others.
LEMMA FirstStays ==
  ASSUME pending \in Seq(Calls), NEW k \in Calls, NEW q \in Calls, D!IsFirst(k),
         \/ pending' = Append(pending, q)
         \/ /\ \A i, j \in DOMAIN pending : pending[i] = pending[j] => i = j
            /\ q \in ToSet(pending) /\ q # k
            /\ pending' = RemoveAt(pending, CHOOSE i \in DOMAIN pending : pending[i] = q)
  PROVE  D!IsFirst(k)'
<1>1. PICK i \in DOMAIN pending : pending[i] = k /\ \A j \in 1..(i - 1) : DeferredIn[pending[j]] # DeferredIn[k]
  BY DEF D!IsFirst
<1>2. i \in 1..Len(pending) /\ Len(pending) \in Nat
  OBVIOUS
<1>3. CASE pending' = Append(pending, q)
  <2>1. i \in DOMAIN pending' /\ \A j \in 1..i : pending'[j] = pending[j]
    BY <1>2, <1>3
  <2>2. \A j \in 1..(i - 1) : j \in 1..i
    BY <1>2
  <2>3. \A j \in 1..(i - 1) : DeferredIn[pending'[j]] # DeferredIn[k]
    BY <1>1, <2>1, <2>2
  <2>4. pending'[i] = k
    BY <1>1, <1>2, <2>1
  <2> QED BY <2>1, <2>3, <2>4 DEF D!IsFirst
<1>4. CASE /\ q \in ToSet(pending) /\ q # k
           /\ pending' = RemoveAt(pending, CHOOSE l \in DOMAIN pending : pending[l] = q)
  <2> DEFINE p == CHOOSE l \in DOMAIN pending : pending[l] = q
  <2>1. p \in 1..Len(pending) /\ pending[p] = q
    BY <1>4 DEF ToSet
  <2>2. pending' = SubSeq(pending, 1, p - 1) \o SubSeq(pending, p + 1, Len(pending))
    BY <1>4 DEF RemoveAt
  <2> HIDE DEF p
  <2>3. /\ pending' \in Seq(Calls) /\ Len(pending') = Len(pending) - 1
        /\ \A j \in 1..Len(pending') : pending'[j] = IF j < p THEN pending[j] ELSE pending[j + 1]
    BY <2>1, <2>2, Shortened
  <2>4. p # i
    BY <1>1, <1>4, <2>1
  <2>5. CASE i < p
    <3>1. i \in 1..Len(pending') /\ \A j \in 1..(i - 1) : j \in 1..Len(pending') /\ j < p
      BY <1>2, <2>1, <2>3, <2>5
    <3>2. pending'[i] = k
      BY <1>1, <2>3, <2>5, <3>1
    <3>3. \A j \in 1..(i - 1) : DeferredIn[pending'[j]] # DeferredIn[k]
      BY <1>1, <2>3, <3>1
    <3>4. i \in DOMAIN pending'
      BY <2>3, <3>1
    <3> QED BY <3>2, <3>3, <3>4 DEF D!IsFirst
  <2>6. CASE p < i
    <3>0. i - 1 \in 1..Len(pending') /\ ~(i - 1 < p) /\ i - 1 + 1 = i
      BY <1>2, <2>1, <2>3, <2>6
    <3>1. i - 1 \in DOMAIN pending' /\ pending'[i - 1] = pending[i]
      BY <2>3, <3>0
    <3>2. \A j \in 1..(i - 1 - 1) : pending'[j] \in {pending[j], pending[j + 1]} /\ j \in 1..(i - 1)
                                    /\ j + 1 \in 1..(i - 1)
      BY <1>2, <2>1, <2>3, <2>6
    <3>3. \A j \in 1..(i - 1 - 1) : DeferredIn[pending'[j]] # DeferredIn[k]
      BY <1>1, <3>2
    <3> QED BY <1>1, <3>1, <3>3 DEF D!IsFirst
  <2> QED BY <1>2, <2>1, <2>4, <2>5, <2>6
<1> QED BY <1>3, <1>4

\* The lists of two requests are of different conversations, and so are those
\* that are held back.
LEMMA Apart ==
  ASSUME ListInv, pending \in Seq(Calls)
  PROVE  /\ \A k, q \in Calls : k # q =>
              \A m \in ToSet(deferred[k]), n \in ToSet(deferred[q]) : DeferredIn[m] # DeferredIn[n]
         /\ \A c, d \in Conversations : c # d =>
              \A m \in ToSet(hold[c]), n \in ToSet(hold[d]) : DeferredIn[m] # DeferredIn[n]
BY OneFirst DEF ListInv, Homes

LEMMA ListsInMessages ==
  ASSUME ListInv
  PROVE  /\ ToSet(backlog) \subseteq Messages
         /\ \A c \in Conversations : ToSet(hold[c]) \subseteq Messages
         /\ \A k \in Calls : ToSet(deferred[k]) \subseteq Messages
BY DEF ListInv, ListTypes, ToSet

\* Messages move from a list to the next one.
LEMMA MoveKeeps ==
  ASSUME ListInv, MessageInv, UNCHANGED <<fate, operation, worker>>,
         OnTheWay' = OnTheWay, Waits' \subseteq Waits,
         backlog # <<>> => backlog' # <<>> /\ backlog'[1] = backlog[1]
  PROVE  MessageInv'
<1>1. Tracked'
  <2>1. \A m \in ToSet(backlog)' : m \in ToSet(backlog) \/ m \in Waits
    BY DEF OnTheWay
  <2> QED BY <2>1 DEF MessageInv, Tracked
<1>2. OneCall'
  BY DEF MessageInv, OneCall
<1>3. SeenInOrder' /\ SunkInOrder'
  BY DEF MessageInv, SeenInOrder, SunkInOrder
<1>4. HasRoom' /\ MessageTypes'
  BY DEF MessageInv, HasRoom, MessageTypes
<1> QED BY <1>1, <1>2, <1>3, <1>4 DEF MessageInv

LEMMA RegisterKeeps ==
  ASSUME ToolsAssumption, ListInv, MessageInv, pending \in Seq(Calls), NEW k \in Calls, D!Register(k)
  PROVE  ListInv' /\ MessageInv'
<1>1. /\ pending' = Append(pending, k)
      /\ UNCHANGED <<scopes, deferred, hold, backlog, operation, worker, fate>>
  BY DEF D!Register, D!listVars, D!deliveryVars
<1>2. ListInv'
  <2>1. ListTypes' /\ ListsInOrder'
    BY <1>1 DEF ListInv, ListTypes, ListsInOrder
  <2>2. \A q \in Calls : D!IsFirst(q) => D!IsFirst(q)'
    BY <1>1, FirstStays
  <2>3. Homes'
    BY <1>1, <2>2 DEF ListInv, Homes
  <2> QED BY <2>1, <2>3 DEF ListInv
<1>3. OnTheWay' = OnTheWay /\ Waits' = Waits
  BY <1>1 DEF OnTheWay, Waits
<1> QED BY <1>1, <1>2, <1>3, MoveKeeps

\* The first request of its conversation ends: what it has moves on.
LEMMA UnregisterKeeps ==
  ASSUME ToolsAssumption, ListInv, MessageInv, pending \in Seq(Calls), NEW k \in Calls,
         \A i, j \in DOMAIN pending : pending[i] = pending[j] => i = j,
         CallConversation[k] \in Conversations, D!Unregister(k)
  PROVE  ListInv' /\ MessageInv'
<1> DEFINE c == DeferredIn[k]
<1>1. /\ c \in Conversations /\ k \in ToSet(pending)
      /\ pending' = RemoveAt(pending, CHOOSE i \in DOMAIN pending : pending[i] = k)
      /\ deferred' = [deferred EXCEPT ![k] = <<>>]
      /\ \/ /\ scopes[c] > 0 /\ hold' = [hold EXCEPT ![c] = hold[c] \o deferred[k]]
            /\ UNCHANGED backlog
         \/ ~(scopes[c] > 0) /\ backlog' = backlog \o deferred[k] /\ UNCHANGED hold
      /\ UNCHANGED <<scopes, operation, worker, fate>>
  BY MessageConversation DEF D!Unregister, D!ToSet, ToSet, D!RemoveAt, RemoveAt
<1> HIDE DEF c
<1>2. /\ scopes \in [Conversations -> Nat] /\ deferred \in [Calls -> Seq(Messages)]
      /\ hold \in [Conversations -> Seq(Messages)] /\ backlog \in Seq(Messages)
      /\ deferred[k] \in Seq(Messages) /\ hold[c] \in Seq(Messages)
  BY <1>1 DEF ListInv, ListTypes
<1>3. /\ deferred'[k] = <<>> /\ \A q \in Calls \ {k} : deferred'[q] = deferred[q]
      /\ ToSet(<<>>) = {} /\ InOrder(<<>>)
  BY <1>1, <1>2 DEF ToSet, InOrder
<1>4. \A q \in Calls : D!IsFirst(q) /\ q # k => D!IsFirst(q)'
  BY <1>1, FirstStays
<1>5. \A m \in ToSet(deferred[k]) : DeferredIn[m] = c
  BY DEF ListInv, Homes, c
<1>6. CASE scopes[c] > 0 /\ hold' = [hold EXCEPT ![c] = hold[c] \o deferred[k]] /\ UNCHANGED backlog
  <2> DEFINE t == hold[c] \o deferred[k]
  <2>1. t \in Seq(Messages) /\ ToSet(t) = ToSet(hold[c]) \cup ToSet(deferred[k])
    BY <1>2, Joined
  <2>2. InOrder(t)
    BY <1>1, <1>2, Joined DEF ListInv, ListsInOrder
  <2>3. hold' = [hold EXCEPT ![c] = t]
    BY <1>6
  <2> HIDE DEF t
  <2>4. hold'[c] = t /\ \A d \in Conversations \ {c} : hold'[d] = hold[d]
    BY <1>1, <1>2, <2>3
  <2>5. ListTypes'
    BY <1>1, <1>2, <1>6, <2>1, <2>3 DEF ListTypes
  <2>6. \A d \in Conversations : InOrder(hold'[d]) /\ Ahead(ToSet(backlog), ToSet(hold'[d]))
    <3>1. Ahead(ToSet(backlog), ToSet(t))
      BY <1>1, <2>1 DEF ListInv, ListsInOrder, Ahead
    <3> QED BY <2>2, <2>4, <3>1 DEF ListInv, ListsInOrder
  <2>7. \A q \in Calls : InOrder(deferred'[q]) /\ Ahead(ToSet(backlog), ToSet(deferred'[q]))
    BY <1>3 DEF ListInv, ListsInOrder, Ahead
  <2>8. ASSUME NEW d \in Conversations, NEW q \in Calls
        PROVE  Ahead(ToSet(hold'[d]), ToSet(deferred'[q]))
    <3>1. CASE q = k
      BY <1>3, <3>1 DEF Ahead
    <3>2. CASE q # k
      <4>1. Ahead(ToSet(deferred[k]), ToSet(deferred[q]))
        BY <3>2, Apart DEF Ahead
      <4>2. Ahead(ToSet(hold[d]), ToSet(deferred[q]))
        BY DEF ListInv, ListsInOrder
      <4>3. ToSet(hold'[d]) \subseteq ToSet(hold[d]) \cup ToSet(deferred[k])
        BY <2>1, <2>4
      <4> QED BY <1>3, <3>2, <4>1, <4>2, <4>3 DEF Ahead
    <3> QED BY <3>1, <3>2
  <2>9. ListsInOrder'
    BY <1>6, <2>6, <2>7, <2>8 DEF ListInv, ListsInOrder
  <2>10. Homes'
    <3>1. \A d \in Conversations : \A m \in ToSet(hold'[d]) : DeferredIn[m] = d /\ scopes'[d] > 0
      BY <1>1, <1>5, <1>6, <2>1, <2>4 DEF ListInv, Homes
    <3>2. \A q \in Calls : \A m \in ToSet(deferred'[q]) : DeferredIn[m] = DeferredIn[q] /\ D!IsFirst(q)'
      BY <1>3, <1>4 DEF ListInv, Homes
    <3> QED BY <3>1, <3>2 DEF Homes
  <2>11. Waits' = Waits
    <3>1. \A m \in Messages : m \in Waits' => m \in Waits
      BY <1>1, <1>3, <2>1, <2>4 DEF Waits
    <3>2. ASSUME NEW m \in Messages, m \in Waits PROVE m \in Waits'
      <4>1. CASE \E d \in Conversations : m \in ToSet(hold[d])
        BY <1>1, <2>1, <2>4, <4>1 DEF Waits
      <4>2. CASE \E q \in Calls : m \in ToSet(deferred[q])
        BY <1>1, <1>3, <2>1, <2>4, <4>2 DEF Waits
      <4> QED BY <3>2, <4>1, <4>2 DEF Waits
    <3> QED BY <3>1, <3>2 DEF Waits
  <2>12. OnTheWay' = OnTheWay
    BY <1>6, <2>11 DEF OnTheWay
  <2> QED BY <1>1, <1>6, <2>5, <2>9, <2>10, <2>11, <2>12, MoveKeeps DEF ListInv
<1>7. CASE ~(scopes[c] > 0) /\ backlog' = backlog \o deferred[k] /\ UNCHANGED hold
  <2>1. /\ backlog' \in Seq(Messages) /\ ToSet(backlog') = ToSet(backlog) \cup ToSet(deferred[k])
        /\ backlog # <<>> => backlog' # <<>> /\ backlog'[1] = backlog[1]
    BY <1>2, <1>7, Joined
  <2>2. InOrder(backlog')
    BY <1>2, <1>7, Joined DEF ListInv, ListsInOrder
  <2>3. ListTypes'
    BY <1>1, <1>2, <1>7, <2>1 DEF ListTypes
  <2>4. ASSUME NEW d \in Conversations PROVE Ahead(ToSet(backlog'), ToSet(hold[d]))
    <3>1. \A n \in ToSet(hold[d]) : DeferredIn[n] # c
      BY <1>7 DEF ListInv, Homes
    <3>2. Ahead(ToSet(deferred[k]), ToSet(hold[d]))
      BY <1>5, <3>1 DEF Ahead
    <3> QED BY <2>1, <3>2 DEF ListInv, ListsInOrder, Ahead
  <2>5. ASSUME NEW q \in Calls PROVE Ahead(ToSet(backlog'), ToSet(deferred'[q]))
    <3>1. CASE q = k
      BY <1>3, <3>1 DEF Ahead
    <3>2. CASE q # k
      <4>1. Ahead(ToSet(deferred[k]), ToSet(deferred[q]))
        BY <3>2, Apart DEF Ahead
      <4> QED BY <1>3, <2>1, <3>2, <4>1 DEF ListInv, ListsInOrder, Ahead
    <3> QED BY <3>1, <3>2
  <2>6. ListsInOrder'
    <3>1. \A q \in Calls : InOrder(deferred'[q])
      BY <1>3 DEF ListInv, ListsInOrder
    <3>2. \A d \in Conversations, q \in Calls : Ahead(ToSet(hold[d]), ToSet(deferred'[q]))
      BY <1>3 DEF ListInv, ListsInOrder, Ahead
    <3> QED BY <1>7, <2>2, <2>4, <2>5, <3>1, <3>2 DEF ListInv, ListsInOrder
  <2>7. Homes'
    <3>1. \A q \in Calls : \A m \in ToSet(deferred'[q]) : DeferredIn[m] = DeferredIn[q] /\ D!IsFirst(q)'
      BY <1>3, <1>4 DEF ListInv, Homes
    <3> QED BY <1>1, <1>7, <3>1 DEF ListInv, Homes
  <2>8. Waits' \subseteq Waits /\ Waits \subseteq Waits' \cup ToSet(deferred[k])
        /\ ToSet(deferred[k]) \subseteq Waits
    <3>1. ToSet(deferred[k]) \subseteq Messages
      BY ListsInMessages
    <3> QED BY <1>3, <1>7, <3>1 DEF Waits
  <2>9. OnTheWay' = OnTheWay
    BY <2>1, <2>8 DEF OnTheWay
  <2> QED BY <1>1, <2>1, <2>3, <2>6, <2>7, <2>8, <2>9, MoveKeeps DEF ListInv
<1> QED BY <1>1, <1>6, <1>7

\* A batch more.
LEMMA BeginScopeKeeps ==
  ASSUME ListInv, MessageInv, NEW c \in Conversations, D!BeginScope(c)
  PROVE  ListInv' /\ MessageInv'
<1>1. /\ scopes' = [scopes EXCEPT ![c] = @ + 1]
      /\ UNCHANGED <<pending, deferred, hold, backlog, operation, worker, fate>>
  BY DEF D!BeginScope, D!deliveryVars
<1>2. scopes' \in [Conversations -> Nat] /\ \A d \in Conversations : scopes[d] > 0 => scopes'[d] > 0
  BY <1>1 DEF ListInv, ListTypes
<1>3. ListTypes' /\ ListsInOrder'
  BY <1>1, <1>2 DEF ListInv, ListTypes, ListsInOrder
<1>4. Homes'
  <2>1. \A k \in Calls : D!IsFirst(k)' <=> D!IsFirst(k)
    BY <1>1 DEF D!IsFirst
  <2> QED BY <1>1, <1>2, <2>1 DEF ListInv, Homes
<1>5. OnTheWay' = OnTheWay /\ Waits' = Waits
  BY <1>1 DEF OnTheWay, Waits
<1> QED BY <1>1, <1>3, <1>4, <1>5, MoveKeeps DEF ListInv

\* A batch less; the last one lets the messages go.
LEMMA EndScopeKeeps ==
  ASSUME ListInv, MessageInv, NEW c \in Conversations, D!EndScope(c)
  PROVE  ListInv' /\ MessageInv'
<1>1. /\ scopes' = [scopes EXCEPT ![c] = D!Depth(c)]
      /\ \/ scopes[c] <= 1 /\ backlog' = backlog \o hold[c] /\ hold' = [hold EXCEPT ![c] = <<>>]
         \/ ~(scopes[c] <= 1) /\ UNCHANGED <<backlog, hold>>
      /\ UNCHANGED <<pending, deferred, operation, worker, fate>>
  BY DEF D!EndScope, D!IsOutermost
<1>2. /\ scopes \in [Conversations -> Nat] /\ deferred \in [Calls -> Seq(Messages)]
      /\ hold \in [Conversations -> Seq(Messages)] /\ backlog \in Seq(Messages)
      /\ hold[c] \in Seq(Messages)
  BY DEF ListInv, ListTypes
<1>3. /\ scopes' \in [Conversations -> Nat]
      /\ \A d \in Conversations \ {c} : scopes'[d] = scopes[d]
      /\ ~(scopes[c] <= 1) => scopes'[c] > 0
  BY <1>1, <1>2 DEF D!Depth
<1>4. \A k \in Calls : D!IsFirst(k)' <=> D!IsFirst(k)
  BY <1>1 DEF D!IsFirst
<1>5. CASE ~(scopes[c] <= 1) /\ UNCHANGED <<backlog, hold>>
  <2>1. ListTypes' /\ ListsInOrder'
    BY <1>1, <1>3, <1>5 DEF ListInv, ListTypes, ListsInOrder
  <2>2. Homes'
    <3>1. ASSUME NEW d \in Conversations, scopes[d] > 0 PROVE scopes'[d] > 0
      <4>1. CASE d = c
        BY <1>3, <1>5, <4>1
      <4>2. CASE d # c
        BY <1>3, <3>1, <4>2
      <4> QED BY <4>1, <4>2
    <3> QED BY <1>1, <1>4, <1>5, <3>1 DEF ListInv, Homes
  <2>3. OnTheWay' = OnTheWay /\ Waits' = Waits
    BY <1>1, <1>5 DEF OnTheWay, Waits
  <2> QED BY <1>1, <1>5, <2>1, <2>2, <2>3, MoveKeeps DEF ListInv
<1>6. CASE backlog' = backlog \o hold[c] /\ hold' = [hold EXCEPT ![c] = <<>>]
  <2>1. /\ backlog' \in Seq(Messages) /\ ToSet(backlog') = ToSet(backlog) \cup ToSet(hold[c])
        /\ backlog # <<>> => backlog' # <<>> /\ backlog'[1] = backlog[1]
    BY <1>2, <1>6, Joined
  <2>2. InOrder(backlog')
    BY <1>2, <1>6, Joined DEF ListInv, ListsInOrder
  <2>3. /\ hold'[c] = <<>> /\ \A d \in Conversations \ {c} : hold'[d] = hold[d]
        /\ ToSet(<<>>) = {} /\ InOrder(<<>>)
    BY <1>2, <1>6 DEF ToSet, InOrder
  <2>4. ListTypes'
    BY <1>1, <1>2, <1>3, <1>6, <2>1 DEF ListTypes
  <2>5. ASSUME NEW d \in Conversations
        PROVE  InOrder(hold'[d]) /\ Ahead(ToSet(backlog'), ToSet(hold'[d]))
    <3>1. CASE d = c
      BY <2>3, <3>1 DEF Ahead
    <3>2. CASE d # c
      <4>1. Ahead(ToSet(hold[c]), ToSet(hold[d]))
        BY <3>2 DEF ListInv, Homes, Ahead
      <4> QED BY <2>1, <2>3, <3>2, <4>1 DEF ListInv, ListsInOrder, Ahead
    <3> QED BY <3>1, <3>2
  <2>6. \A k \in Calls : InOrder(deferred[k]) /\ Ahead(ToSet(backlog'), ToSet(deferred[k]))
    BY <2>1 DEF ListInv, ListsInOrder, Ahead
  <2>7. \A d \in Conversations, k \in Calls : Ahead(ToSet(hold'[d]), ToSet(deferred[k]))
    BY <2>3 DEF ListInv, ListsInOrder, Ahead
  <2>8. ListsInOrder'
    BY <1>1, <2>2, <2>5, <2>6, <2>7 DEF ListsInOrder
  <2>9. Homes'
    BY <1>1, <1>3, <1>4, <2>3 DEF ListInv, Homes
  <2>10. Waits' \subseteq Waits /\ Waits \subseteq Waits' \cup ToSet(hold[c]) /\ ToSet(hold[c]) \subseteq Waits
    <3>1. ToSet(hold[c]) \subseteq Messages
      BY ListsInMessages
    <3> QED BY <1>1, <2>3, <3>1 DEF Waits
  <2>11. OnTheWay' = OnTheWay
    BY <2>1, <2>10 DEF OnTheWay
  <2> QED BY <1>1, <2>1, <2>4, <2>8, <2>9, <2>10, <2>11, MoveKeeps DEF ListInv
<1> QED BY <1>1, <1>5, <1>6

-----------------------------------------------------------------------------
(* Messages arrive, and the worker delivers them.                           *)

\* The first message of the backlog is the oldest of its conversation.
LEMMA HeadIsOldest ==
  ASSUME ListInv, NEW m \in OnTheWay, backlog # <<>>, m # backlog[1]
  PROVE  /\ backlog[1] \in ToSet(backlog)
         /\ DeferredIn[m] = DeferredIn[backlog[1]] => backlog[1] < m
<1>1. backlog \in Seq(Messages) /\ Len(backlog) \in Nat /\ 1 \in DOMAIN backlog
  BY DEF ListInv, ListTypes
<1>2. backlog[1] \in ToSet(backlog)
  BY <1>1 DEF ToSet
<1>3. CASE m \in ToSet(backlog)
  <2>1. PICK i \in DOMAIN backlog : backlog[i] = m
    BY <1>3 DEF ToSet
  <2>2. 1 < i
    BY <1>1, <2>1
  <2> QED BY <1>1, <1>2, <2>1, <2>2 DEF ListInv, ListsInOrder, InOrder
<1>4. CASE m \in Waits
  BY <1>2, <1>4 DEF Waits, ListInv, ListsInOrder, Ahead
<1> QED BY <1>3, <1>4 DEF OnTheWay

LEMMA BacklogIsApart ==
  ASSUME ListInv
  PROVE  ToSet(backlog) \cap Waits = {}
BY DEF Waits, ListInv, ListsInOrder, Ahead

\* The broker counts the messages on their way.
LEMMA Counting ==
  ASSUME ListInv, HasRoom
  PROVE  /\ IsFiniteSet(Waits) /\ Cardinality(OnTheWay) \in Nat
         /\ D!DeferredCount = Cardinality(OnTheWay)
<1>1. IsFiniteSet(ToSet(backlog)) /\ Cardinality(ToSet(backlog)) = Len(backlog)
  BY Counted DEF ListInv, ListTypes, ListsInOrder
<1>2. Waits \subseteq OnTheWay
  BY DEF OnTheWay
<1>3. IsFiniteSet(Waits)
  BY <1>2, FS_Subset DEF HasRoom
<1>4. Cardinality(ToSet(backlog) \cup Waits)
        = Cardinality(ToSet(backlog)) + Cardinality(Waits) - Cardinality(ToSet(backlog) \cap Waits)
  BY <1>1, <1>3, FS_Union
<1>5. Cardinality(ToSet(backlog) \cap Waits) = 0
  BY BacklogIsApart, FS_EmptySet
<1>6. Cardinality(Waits) \in Nat /\ Cardinality(OnTheWay) \in Nat /\ Len(backlog) \in Nat
  BY <1>3, FS_CardinalityType DEF HasRoom, ListInv, ListTypes
<1>7. Cardinality(OnTheWay) = Len(backlog) + Cardinality(Waits)
  BY <1>1, <1>4, <1>5, <1>6 DEF OnTheWay
<1>8. D!DeferredCount = Len(backlog) + Cardinality(Waits)
  <2>1. D!Waiting = Waits
    BY WaitingIs
  <2>2. D!Cardinality(Waits) = Cardinality(Waits)
    BY Zenon DEF D!Cardinality, Cardinality
  <2>3. D!DeferredCount = Len(backlog) + D!Cardinality(D!Waiting)
    BY DEF D!DeferredCount
  <2> QED BY <2>1, <2>2, <2>3
<1> QED BY <1>3, <1>6, <1>7, <1>8

\* A message that comes is the youngest of all that are on their way.
LEMMA Newest ==
  ASSUME ToolsAssumption, ListInv, MessageInv, NEW m \in Messages, fate[m] = "unseen"
  PROVE  /\ \A n \in OnTheWay : n \in Messages /\ n < m
         /\ m \notin OnTheWay
<1>1. ASSUME NEW n \in OnTheWay PROVE n \in Messages /\ fate[n] \in {"kept", "sunk", "failed"}
  <2>1. n \in Messages
    BY ListsInMessages DEF OnTheWay, Waits
  <2> QED BY <2>1 DEF OnTheWay, MessageInv, Tracked, OneCall
<1>2. ASSUME NEW n \in OnTheWay PROVE n < m
  <2>1. n # m /\ ~(m < n)
    BY <1>1 DEF MessageInv, SeenInOrder
  <2>2. n \in Nat /\ m \in Nat
    BY <1>1, MessageConversation
  <2> QED BY <2>1, <2>2
<1> QED BY <1>1, <1>2

\* It is kept on a list, or passes.
LEMMA DeferredKeeps ==
  ASSUME ListInv, MessageInv, NEW m \in Messages, fate[m] = "unseen",
         \A n \in Messages : n < m => fate[n] # "unseen",
         UNCHANGED <<backlog, operation, worker>>,
         \/ /\ fate' = [fate EXCEPT ![m] = "kept"]
            /\ Waits' = Waits \cup {m}
            /\ m \notin OnTheWay /\ Cardinality(OnTheWay) < Capacity
         \/ fate' = [fate EXCEPT ![m] = "passed"] /\ Waits' = Waits
  PROVE  MessageInv'
<1> USE DEF MessageInv
<1>1. /\ fate \in [Messages -> D!Fates] /\ operation[m] \notin {"running", "ok"}
      /\ fate'[m] \in {"kept", "passed"} /\ \A n \in Messages \ {m} : fate'[n] = fate[n]
  BY DEF MessageTypes, OneCall
<1>2. MessageTypes'
  BY DEF MessageTypes, D!Fates
<1>3. Tracked'
  <2>1. m \notin Waits /\ m \notin ToSet(backlog)
    BY <1>1 DEF Tracked
  <2>2. \A n \in Messages : fate'[n] = "kept" => n \in OnTheWay'
    BY <1>1 DEF Tracked, OnTheWay
  <2>3. \A n \in Waits' : n \in Messages /\ fate'[n] = "kept"
    BY <1>1, <2>1 DEF Tracked, Waits
  <2>4. \A n \in ToSet(backlog) : fate'[n] = "kept" \/ operation[n] = "ok"
    BY <1>1, <2>1, ListsInMessages DEF Tracked
  <2> QED BY <2>2, <2>3, <2>4 DEF Tracked
<1>4. OneCall'
  BY <1>1 DEF OneCall
<1>5. SeenInOrder'
  BY <1>1 DEF SeenInOrder
<1>6. SunkInOrder'
  BY <1>1 DEF SunkInOrder, SeenInOrder
<1>7. HasRoom'
  <2>1. CASE Waits' = Waits
    BY <2>1 DEF HasRoom, OnTheWay
  <2>2. CASE Waits' = Waits \cup {m} /\ m \notin OnTheWay /\ Cardinality(OnTheWay) < Capacity
    <3>1. OnTheWay' = OnTheWay \cup {m}
      BY <2>2 DEF OnTheWay
    <3>2. Cardinality(OnTheWay \cup {m}) = Cardinality(OnTheWay) + 1 /\ IsFiniteSet(OnTheWay \cup {m})
      BY <2>2, FS_AddElement DEF HasRoom
    <3>3. Cardinality(OnTheWay) \in Nat /\ Capacity \in Nat
      BY FS_CardinalityType, ToolsAssumption DEF HasRoom, ToolsAssumption
    <3> QED BY <2>2, <3>1, <3>2, <3>3 DEF HasRoom
  <2> QED BY <2>1, <2>2
<1> QED BY <1>2, <1>3, <1>4, <1>5, <1>6, <1>7

LEMMA DeferKeeps ==
  ASSUME ToolsAssumption, ListInv, MessageInv, pending \in Seq(Calls), NEW m \in Messages, D!Defer(m)
  PROVE  ListInv' /\ MessageInv'
<1> DEFINE c == DeferredIn[m]
<1>1. /\ fate[m] = "unseen" /\ \A n \in Messages : n < m => fate[n] # "unseen"
      /\ UNCHANGED <<pending, scopes, backlog, operation, worker>>
      /\ \/ /\ D!DeferredCount < Capacity /\ fate' = [fate EXCEPT ![m] = "kept"]
            /\ \/ /\ UNCHANGED hold
                  /\ \E k \in D!Here(c) : D!IsFirst(k) /\ deferred' = [deferred EXCEPT ![k] = Append(@, m)]
               \/ /\ D!Here(c) = {} /\ scopes[c] > 0 /\ UNCHANGED deferred
                  /\ hold' = [hold EXCEPT ![c] = Append(@, m)]
         \/ fate' = [fate EXCEPT ![m] = "passed"] /\ UNCHANGED <<deferred, hold>>
  BY DEF D!Defer, D!deliveryVars
<1>2. c \in Conversations /\ DeferredIn[m] = c
  BY MessageConversation
<1>3. D!Here(c) = {k \in Calls : k \in ToSet(pending) /\ DeferredIn[k] = c}
  BY DEF D!Here, D!ToSet, ToSet
<1> HIDE DEF c
<1>4. /\ scopes \in [Conversations -> Nat] /\ deferred \in [Calls -> Seq(Messages)]
      /\ hold \in [Conversations -> Seq(Messages)] /\ backlog \in Seq(Messages)
  BY DEF ListInv, ListTypes
<1>5. /\ \A n \in ToSet(backlog) : n < m
      /\ \A d \in Conversations : \A n \in ToSet(hold[d]) : n < m
      /\ \A k \in Calls : \A n \in ToSet(deferred[k]) : n < m
      /\ m \in Nat /\ m \notin OnTheWay
  <2>1. \A n \in OnTheWay : n < m
    BY <1>1, Newest
  <2>2. m \in Nat /\ m \notin OnTheWay
    BY <1>1, Newest, MessageConversation
  <2>3. ToSet(backlog) \subseteq OnTheWay /\ \A d \in Conversations : ToSet(hold[d]) \subseteq OnTheWay
    BY ListsInMessages DEF OnTheWay, Waits
  <2>4. \A k \in Calls : ToSet(deferred[k]) \subseteq OnTheWay
    BY ListsInMessages DEF OnTheWay, Waits
  <2> QED BY <2>1, <2>2, <2>3, <2>4
<1>6. \A n \in Nat : n < m => n # m
  BY <1>5
<1>7. /\ Ahead(ToSet(backlog), {m}) /\ \A d \in Conversations : Ahead(ToSet(hold[d]), {m})
      /\ \A k \in Calls : Ahead(ToSet(deferred[k]), {m})
  <2>1. \A n \in Messages : n < m => n # m
    BY <1>6, MessageConversation
  <2> QED BY <1>5, <2>1, ListsInMessages DEF Ahead
<1>8. \A k \in Calls : D!IsFirst(k)' <=> D!IsFirst(k)
  BY <1>1 DEF D!IsFirst
<1>9. CASE D!DeferredCount < Capacity /\ fate' = [fate EXCEPT ![m] = "kept"] /\ UNCHANGED hold
           /\ \E k \in D!Here(c) : D!IsFirst(k) /\ deferred' = [deferred EXCEPT ![k] = Append(@, m)]
  <2>1. PICK k \in Calls : /\ D!IsFirst(k) /\ DeferredIn[k] = c
                           /\ deferred' = [deferred EXCEPT ![k] = Append(@, m)]
    BY <1>3, <1>9
  <2>2. /\ Append(deferred[k], m) \in Seq(Messages)
        /\ ToSet(Append(deferred[k], m)) = ToSet(deferred[k]) \cup {m}
        /\ InOrder(deferred[k]) => InOrder(Append(deferred[k], m))
    BY <1>4, <1>7, Appended
  <2>3. /\ deferred'[k] = Append(deferred[k], m)
        /\ \A q \in Calls \ {k} : deferred'[q] = deferred[q]
    BY <1>4, <2>1
  <2>4. ListTypes'
    BY <1>1, <1>4, <1>9, <2>1, <2>2 DEF ListTypes
  <2>5. \A q \in Calls : InOrder(deferred'[q]) /\ ToSet(deferred'[q]) \subseteq ToSet(deferred[q]) \cup {m}
    BY <2>2, <2>3 DEF ListInv, ListsInOrder
  <2>6. ListsInOrder'
    <3>1. ASSUME NEW S, NEW q \in Calls, Ahead(S, ToSet(deferred[q])), Ahead(S, {m})
          PROVE  Ahead(S, ToSet(deferred'[q]))
      BY <2>5, <3>1 DEF Ahead
    <3>2. \A q \in Calls : Ahead(ToSet(backlog), ToSet(deferred'[q]))
      BY <1>7, <3>1 DEF ListInv, ListsInOrder
    <3>3. \A d \in Conversations, q \in Calls : Ahead(ToSet(hold[d]), ToSet(deferred'[q]))
      BY <1>7, <3>1 DEF ListInv, ListsInOrder
    <3> QED BY <1>1, <1>9, <2>5, <3>2, <3>3 DEF ListInv, ListsInOrder
  <2>7. Homes'
    <3>1. \A q \in Calls : \A n \in ToSet(deferred'[q]) : DeferredIn[n] = DeferredIn[q] /\ D!IsFirst(q)'
      BY <1>2, <1>8, <2>1, <2>2, <2>3 DEF ListInv, Homes
    <3> QED BY <1>1, <1>9, <3>1 DEF ListInv, Homes
  <2>8. Waits' = Waits \cup {m}
    <3>1. \A n \in Messages : n \in Waits' => n \in Waits \cup {m}
      BY <1>9, <2>5 DEF Waits
    <3>2. \A q \in Calls : ToSet(deferred[q]) \subseteq ToSet(deferred'[q])
      BY <2>2, <2>3
    <3>3. Waits \subseteq Waits' /\ m \in Waits'
      BY <1>9, <2>2, <2>3, <3>2 DEF Waits
    <3> QED BY <3>1, <3>3 DEF Waits
  <2>9. Cardinality(OnTheWay) < Capacity
    BY <1>9, Counting DEF MessageInv
  <2> QED BY <1>1, <1>5, <1>9, <2>4, <2>6, <2>7, <2>8, <2>9, DeferredKeeps DEF ListInv
<1>10. CASE D!DeferredCount < Capacity /\ fate' = [fate EXCEPT ![m] = "kept"]
            /\ D!Here(c) = {} /\ scopes[c] > 0 /\ UNCHANGED deferred
            /\ hold' = [hold EXCEPT ![c] = Append(@, m)]
  <2>1. /\ Append(hold[c], m) \in Seq(Messages)
        /\ ToSet(Append(hold[c], m)) = ToSet(hold[c]) \cup {m}
        /\ InOrder(hold[c]) => InOrder(Append(hold[c], m))
    BY <1>2, <1>4, <1>7, Appended
  <2>2. /\ hold'[c] = Append(hold[c], m)
        /\ \A d \in Conversations \ {c} : hold'[d] = hold[d]
    BY <1>2, <1>4, <1>10
  <2>3. ListTypes'
    BY <1>1, <1>2, <1>4, <1>10, <2>1 DEF ListTypes
  <2>4. \A d \in Conversations : InOrder(hold'[d]) /\ ToSet(hold'[d]) \subseteq ToSet(hold[d]) \cup {m}
    BY <2>1, <2>2 DEF ListInv, ListsInOrder
  <2>5. \A k \in Calls : Ahead({m}, ToSet(deferred[k]))
    <3> SUFFICES ASSUME NEW k \in Calls, NEW n \in ToSet(deferred[k])
                 PROVE  m # n /\ DeferredIn[m] # DeferredIn[n]
      BY DEF Ahead
    <3>1. D!IsFirst(k) /\ DeferredIn[n] = DeferredIn[k]
      BY DEF ListInv, Homes
    <3>2. k \in ToSet(pending)
      BY <3>1 DEF D!IsFirst, ToSet
    <3> QED BY <1>2, <1>3, <1>10, <3>1, <3>2
  <2>6. ListsInOrder'
    <3>1. \A d \in Conversations : Ahead(ToSet(backlog), ToSet(hold'[d]))
      BY <1>7, <2>4 DEF ListInv, ListsInOrder, Ahead
    <3>2. ASSUME NEW d \in Conversations, NEW k \in Calls
          PROVE  Ahead(ToSet(hold'[d]), ToSet(deferred[k]))
      <4>1. Ahead(ToSet(hold[d]), ToSet(deferred[k])) /\ Ahead({m}, ToSet(deferred[k]))
        BY <2>5 DEF ListInv, ListsInOrder
      <4> QED BY <2>4, <4>1 DEF Ahead
    <3> QED BY <1>1, <1>10, <2>4, <3>1, <3>2 DEF ListInv, ListsInOrder
  <2>7. Homes'
    <3>1. \A d \in Conversations : \A n \in ToSet(hold'[d]) : DeferredIn[n] = d /\ scopes[d] > 0
      BY <1>2, <1>10, <2>1, <2>2 DEF ListInv, Homes
    <3> QED BY <1>1, <1>8, <1>10, <3>1 DEF ListInv, Homes
  <2>8. Waits' = Waits \cup {m}
    <3>1. \A n \in Messages : n \in Waits' => n \in Waits \cup {m}
      BY <1>10, <2>4 DEF Waits
    <3>2. \A d \in Conversations : ToSet(hold[d]) \subseteq ToSet(hold'[d])
      BY <2>1, <2>2
    <3>3. Waits \subseteq Waits' /\ m \in Waits'
      BY <1>2, <1>10, <2>1, <2>2, <3>2 DEF Waits
    <3> QED BY <3>1, <3>3 DEF Waits
  <2>9. Cardinality(OnTheWay) < Capacity
    BY <1>10, Counting DEF MessageInv
  <2> QED BY <1>1, <1>5, <1>10, <2>3, <2>6, <2>7, <2>8, <2>9, DeferredKeeps DEF ListInv
<1>11. CASE fate' = [fate EXCEPT ![m] = "passed"] /\ UNCHANGED <<deferred, hold>>
  <2>1. ListTypes' /\ ListsInOrder'
    BY <1>1, <1>11 DEF ListInv, ListTypes, ListsInOrder
  <2>2. Homes'
    BY <1>1, <1>8, <1>11 DEF ListInv, Homes
  <2>3. Waits' = Waits
    BY <1>11 DEF Waits
  <2> QED BY <1>1, <1>11, <2>1, <2>2, <2>3, DeferredKeeps DEF ListInv
<1> QED BY <1>1, <1>9, <1>10, <1>11

\* The worker calls for the first message of the backlog.
LEMMA DeliverKeeps ==
  ASSUME ListInv, MessageInv, D!Deliver
  PROVE  ListInv' /\ MessageInv'
<1> USE DEF MessageInv
<1>1. /\ worker \in {"idle", "sleeping"} /\ backlog # <<>> /\ worker' = "busy"
      /\ operation' = [operation EXCEPT ![backlog[1]] = "running"]
      /\ UNCHANGED <<pending, scopes, deferred, hold, backlog, fate>>
  BY DEF D!Deliver, D!listVars
<1>2. backlog[1] \in ToSet(backlog) /\ backlog[1] \in Messages
  <2>1. backlog \in Seq(Messages) /\ 1 \in DOMAIN backlog
    BY <1>1 DEF ListInv, ListTypes
  <2> QED BY <2>1 DEF ToSet
<1>3. \A m \in Messages : operation[m] = "none"
  BY <1>1 DEF OneCall
<1>4. fate[backlog[1]] = "kept"
  BY <1>2, <1>3 DEF Tracked
<1>5. ListInv' /\ OnTheWay' = OnTheWay /\ Waits' = Waits
  BY <1>1 DEF ListInv, ListTypes, ListsInOrder, Homes, D!IsFirst, OnTheWay, Waits
<1>6. MessageTypes'
  BY <1>1 DEF MessageTypes
<1>7. operation'[backlog[1]] = "running" /\ \A m \in Messages \ {backlog[1]} : operation'[m] = "none"
  BY <1>1, <1>2, <1>3 DEF MessageTypes
<1>8. Tracked'
  BY <1>1, <1>3, <1>5, ListsInMessages DEF Tracked
<1>9. OneCall'
  BY <1>1, <1>4, <1>7 DEF OneCall
<1>10. SeenInOrder' /\ SunkInOrder' /\ HasRoom'
  BY <1>1, <1>5 DEF SeenInOrder, SunkInOrder, HasRoom
<1> QED BY <1>5, <1>6, <1>8, <1>9, <1>10

\* Its call ends.
LEMMA FinishKeeps ==
  ASSUME ListInv, MessageInv, NEW m \in Messages, NEW end \in {"ok", "error"}, D!Finish(m, end)
  PROVE  ListInv' /\ MessageInv'
<1> USE DEF MessageInv
<1>1. /\ operation[m] = "running" /\ operation' = [operation EXCEPT ![m] = end]
      /\ \/ end # "ok" /\ fate' = fate
         \/ end = "ok" /\ \E x \in {"sunk", "failed"} : fate' = [fate EXCEPT ![m] = x]
      /\ UNCHANGED <<pending, scopes, deferred, hold, backlog, worker>>
  BY DEF D!Finish, D!listVars
<1>2. /\ backlog # <<>> /\ m = backlog[1] /\ fate[m] = "kept" /\ worker = "busy"
      /\ \A n \in Messages \ {m} : operation[n] = "none"
  BY <1>1 DEF OneCall
<1>3. m \in ToSet(backlog) /\ m \notin Waits
  <2>1. backlog \in Seq(Messages) /\ 1 \in DOMAIN backlog
    BY <1>2 DEF ListInv, ListTypes
  <2> QED BY <1>2, <2>1, BacklogIsApart DEF ToSet
<1>4. ListInv' /\ OnTheWay' = OnTheWay /\ Waits' = Waits
  BY <1>1 DEF ListInv, ListTypes, ListsInOrder, Homes, D!IsFirst, OnTheWay, Waits
<1>5. /\ operation'[m] = end /\ \A n \in Messages \ {m} : operation'[n] = "none" /\ fate'[n] = fate[n]
      /\ (fate'[m] = "kept" /\ end # "ok") \/ (fate'[m] \in {"sunk", "failed"} /\ end = "ok")
  <2>1. operation'[m] = end /\ \A n \in Messages \ {m} : operation'[n] = "none"
    BY <1>1, <1>2 DEF MessageTypes
  <2>2. \A n \in Messages \ {m} : fate'[n] = fate[n]
    BY <1>1 DEF MessageTypes
  <2>3. (fate'[m] = "kept" /\ end # "ok") \/ (fate'[m] \in {"sunk", "failed"} /\ end = "ok")
    <3>1. CASE end # "ok" /\ fate' = fate
      BY <1>2, <3>1
    <3>2. ASSUME NEW x \in {"sunk", "failed"}, end = "ok", fate' = [fate EXCEPT ![m] = x]
          PROVE  fate'[m] \in {"sunk", "failed"} /\ end = "ok"
      BY <3>2 DEF MessageTypes
    <3> QED BY <1>1, <3>1, <3>2
  <2> QED BY <2>1, <2>2, <2>3
<1>6. MessageTypes'
  BY <1>1 DEF MessageTypes, D!Fates
<1>7. Tracked'
  <2>1. \A n \in Messages : fate'[n] = "kept" => n \in OnTheWay
    BY <1>2, <1>5 DEF Tracked
  <2>2. \A n \in Waits : n \in Messages \ {m}
    BY <1>3 DEF Waits
  <2>3. \A n \in ToSet(backlog) \ {m} : fate'[n] = "kept"
    BY <1>2, <1>5, ListsInMessages DEF Tracked
  <2>4. fate'[m] = "kept" \/ operation'[m] = "ok"
    BY <1>5
  <2> QED BY <1>1, <1>4, <1>5, <2>1, <2>2, <2>3, <2>4 DEF Tracked
<1>8. OneCall'
  BY <1>1, <1>2, <1>5 DEF OneCall
<1>9. SeenInOrder'
  BY <1>2, <1>5 DEF SeenInOrder
<1>10. SunkInOrder'
  <2> SUFFICES ASSUME NEW q \in Messages, NEW n \in Messages, fate'[n] = "sunk", q < n,
                      DeferredIn[q] = DeferredIn[n], fate'[q] = "kept"
               PROVE  FALSE
    BY DEF SunkInOrder
  <2>1. fate[q] = "kept"
    BY <1>2, <1>5
  <2>2. n = m
    BY <1>5, <2>1 DEF SunkInOrder
  <2>3. q \in OnTheWay /\ q # m
    BY <1>5, <2>1, <2>2 DEF Tracked
  <2>4. m < q
    BY <1>2, <2>2, <2>3, HeadIsOldest
  <2>5. q \in Nat /\ m \in Nat
    BY MessageConversation, ToolsAssumption
  <2> QED BY <2>2, <2>4, <2>5
<1>11. HasRoom'
  BY <1>4 DEF HasRoom
<1> QED BY <1>4, <1>6, <1>7, <1>8, <1>9, <1>10, <1>11

LEMMA SameOnly == ASSUME NEW seq, NEW S PROVE D!Only(seq, S) = Only(seq, S)
BY Zenon DEF D!Only, Only, D!Ascending, Ascending, D!Positions, Positions, D!Rank, Rank,
             D!Cardinality, Cardinality

\* Messages leave their lists.
LEMMA LeavingKeeps ==
  ASSUME ListInv, NEW gone \in SUBSET Messages,
         backlog' = Only(backlog, Messages \ gone),
         \/ /\ deferred' = [k \in Calls |-> Only(deferred[k], Messages \ gone)]
            /\ hold' = [c \in Conversations |-> Only(hold[c], Messages \ gone)]
         \/ gone \cap Waits = {} /\ UNCHANGED <<deferred, hold>>,
         UNCHANGED <<pending, scopes>>
  PROVE  /\ ListInv'
         /\ OnTheWay' = OnTheWay \ gone /\ Waits' = Waits \ gone
         /\ ToSet(backlog)' = ToSet(backlog) \ gone
         /\ backlog # <<>> /\ backlog[1] \notin gone => backlog' # <<>> /\ backlog'[1] = backlog[1]
<1>1. /\ deferred \in [Calls -> Seq(Messages)] /\ hold \in [Conversations -> Seq(Messages)]
      /\ backlog \in Seq(Messages) /\ scopes \in [Conversations -> Nat]
  BY DEF ListInv, ListTypes
<1>2. /\ backlog' \in Seq(Messages) /\ ToSet(backlog') = ToSet(backlog) \ gone
      /\ InOrder(backlog) => InOrder(backlog')
      /\ backlog # <<>> /\ backlog[1] \in Messages \ gone => backlog' # <<>> /\ backlog'[1] = backlog[1]
  <2>1. /\ backlog' \in Seq(Messages) /\ ToSet(backlog') = ToSet(backlog) \cap (Messages \ gone)
        /\ InOrder(backlog) => InOrder(backlog')
        /\ backlog # <<>> /\ backlog[1] \in Messages \ gone => backlog' # <<>> /\ backlog'[1] = backlog[1]
    BY <1>1, Left
  <2> QED BY <2>1, ListsInMessages
<1>3. ASSUME NEW k \in Calls
      PROVE  /\ deferred'[k] \in Seq(Messages) /\ ToSet(deferred'[k]) = ToSet(deferred[k]) \ gone
             /\ InOrder(deferred'[k])
  <2>1. ToSet(deferred[k]) \subseteq Messages /\ InOrder(deferred[k]) /\ deferred[k] \in Seq(Messages)
    BY <1>1, ListsInMessages DEF ListInv, ListsInOrder
  <2>2. CASE deferred' = [q \in Calls |-> Only(deferred[q], Messages \ gone)]
    <3>1. deferred'[k] = Only(deferred[k], Messages \ gone)
      BY <2>2
    <3>2. /\ deferred'[k] \in Seq(Messages) /\ InOrder(deferred'[k])
          /\ ToSet(deferred'[k]) = ToSet(deferred[k]) \cap (Messages \ gone)
      BY <2>1, <3>1, Left
    <3> QED BY <2>1, <3>2
  <2>3. CASE gone \cap Waits = {} /\ UNCHANGED <<deferred, hold>>
    BY <2>1, <2>3 DEF Waits
  <2> QED BY <2>2, <2>3
<1>4. ASSUME NEW c \in Conversations
      PROVE  /\ hold'[c] \in Seq(Messages) /\ ToSet(hold'[c]) = ToSet(hold[c]) \ gone
             /\ InOrder(hold'[c])
  <2>1. ToSet(hold[c]) \subseteq Messages /\ InOrder(hold[c]) /\ hold[c] \in Seq(Messages)
    BY <1>1, ListsInMessages DEF ListInv, ListsInOrder
  <2>2. CASE hold' = [d \in Conversations |-> Only(hold[d], Messages \ gone)]
    <3>1. hold'[c] = Only(hold[c], Messages \ gone)
      BY <2>2
    <3>2. /\ hold'[c] \in Seq(Messages) /\ InOrder(hold'[c])
          /\ ToSet(hold'[c]) = ToSet(hold[c]) \cap (Messages \ gone)
      BY <2>1, <3>1, Left
    <3> QED BY <2>1, <3>2
  <2>3. CASE gone \cap Waits = {} /\ UNCHANGED <<deferred, hold>>
    BY <2>1, <2>3 DEF Waits
  <2> QED BY <2>2, <2>3
<1>5. ListTypes'
  <2>1. deferred' \in [Calls -> Seq(Messages)]
    BY <1>1, <1>3
  <2>2. hold' \in [Conversations -> Seq(Messages)]
    BY <1>1, <1>4
  <2> QED BY <1>1, <1>2, <2>1, <2>2 DEF ListTypes
<1>6. ListsInOrder'
  <2>0. ASSUME NEW S, NEW T, NEW A, NEW B, Ahead(S, T), A = S \ gone, B = T \ gone
        PROVE  Ahead(A, B)
    BY <2>0 DEF Ahead
  <2>1. ASSUME NEW c \in Conversations PROVE Ahead(ToSet(backlog'), ToSet(hold'[c]))
    <3>1. Ahead(ToSet(backlog), ToSet(hold[c]))
      BY DEF ListInv, ListsInOrder
    <3> QED BY <1>2, <1>4, <2>0, <3>1
  <2>2. ASSUME NEW k \in Calls PROVE Ahead(ToSet(backlog'), ToSet(deferred'[k]))
    <3>1. Ahead(ToSet(backlog), ToSet(deferred[k]))
      BY DEF ListInv, ListsInOrder
    <3> QED BY <1>2, <1>3, <2>0, <3>1
  <2>3. ASSUME NEW c \in Conversations, NEW k \in Calls PROVE Ahead(ToSet(hold'[c]), ToSet(deferred'[k]))
    <3>1. Ahead(ToSet(hold[c]), ToSet(deferred[k]))
      BY DEF ListInv, ListsInOrder
    <3> QED BY <1>3, <1>4, <2>0, <3>1
  <2> QED BY <1>2, <1>3, <1>4, <2>1, <2>2, <2>3 DEF ListInv, ListsInOrder
<1>7. Homes'
  <2>1. \A k \in Calls : D!IsFirst(k)' <=> D!IsFirst(k)
    BY DEF D!IsFirst
  <2>2. \A c \in Conversations : \A m \in ToSet(hold'[c]) : DeferredIn[m] = c /\ scopes'[c] > 0
    BY <1>4 DEF ListInv, Homes
  <2>3. \A k \in Calls : \A m \in ToSet(deferred'[k]) : DeferredIn[m] = DeferredIn[k] /\ D!IsFirst(k)'
    BY <1>3, <2>1 DEF ListInv, Homes
  <2> QED BY <2>2, <2>3 DEF Homes
<1>8. Waits' = Waits \ gone
  BY <1>3, <1>4 DEF Waits
<1>9. backlog # <<>> /\ backlog[1] \notin gone => backlog[1] \in Messages \ gone
  BY <1>1
<1> QED BY <1>2, <1>5, <1>6, <1>7, <1>8, <1>9 DEF ListInv, OnTheWay

\* What leaves makes room.
LEMMA RoomStays ==
  ASSUME HasRoom, OnTheWay' \subseteq OnTheWay
  PROVE  HasRoom'
<1>1. IsFiniteSet(OnTheWay') /\ Cardinality(OnTheWay') <= Cardinality(OnTheWay)
  BY FS_Subset DEF HasRoom
<1>2. Cardinality(OnTheWay') \in Nat /\ Cardinality(OnTheWay) \in Nat /\ Capacity \in Nat
  BY <1>1, FS_CardinalityType, ToolsAssumption DEF HasRoom, ToolsAssumption
<1> QED BY <1>1, <1>2 DEF HasRoom

\* The worker goes on after its call.
LEMMA ResumeKeeps ==
  ASSUME ListInv, MessageInv, NEW m \in Messages, D!WorkerResumes(m)
  PROVE  ListInv' /\ MessageInv'
<1> USE DEF MessageInv
<1>1. /\ operation[m] \in {"ok", "error", "cancelled"} /\ operation' = [operation EXCEPT ![m] = "none"]
      /\ UNCHANGED <<pending, scopes, deferred, hold, fate>>
      /\ \/ operation[m] = "ok" /\ backlog' = Only(backlog, Messages \ {m})
         \/ operation[m] # "ok" /\ UNCHANGED backlog
  BY SameOnly DEF D!WorkerResumes, D!listVars, D!Forget
<1>2. \A n \in Messages : operation'[n] = "none" /\ (n # m => operation[n] = "none")
  BY <1>1 DEF OneCall, MessageTypes
<1>3. MessageTypes' /\ OneCall'
  BY <1>1, <1>2 DEF MessageTypes, OneCall
<1>4. SeenInOrder' /\ SunkInOrder'
  BY <1>1 DEF SeenInOrder, SunkInOrder
<1>5. CASE operation[m] = "ok" /\ backlog' = Only(backlog, Messages \ {m})
  <2>1. m \in OnTheWay /\ m \notin Waits /\ fate[m] # "kept"
    <3>1. backlog # <<>> /\ m = backlog[1] /\ fate[m] \in {"sunk", "failed"}
      BY <1>5 DEF OneCall
    <3>2. backlog \in Seq(Messages) /\ 1 \in DOMAIN backlog
      BY <3>1 DEF ListInv, ListTypes
    <3>3. m \in ToSet(backlog)
      BY <3>1, <3>2 DEF ToSet
    <3> QED BY <3>1, <3>3, BacklogIsApart DEF OnTheWay
  <2>2. /\ ListInv' /\ OnTheWay' = OnTheWay \ {m} /\ Waits' = Waits \ {m}
        /\ ToSet(backlog)' = ToSet(backlog) \ {m}
    <3>1. {m} \in SUBSET Messages /\ {m} \cap Waits = {}
      BY <2>1
    <3> QED BY <1>1, <1>5, <3>1, LeavingKeeps
  <2>3. Tracked'
    <3>1. \A n \in ToSet(backlog) \ {m} : fate[n] = "kept"
      BY <1>2, ListsInMessages DEF Tracked
    <3> QED BY <1>1, <2>1, <2>2, <3>1 DEF Tracked
  <2>4. HasRoom'
    BY <2>2, RoomStays
  <2> QED BY <1>3, <1>4, <2>2, <2>3, <2>4
<1>6. CASE operation[m] # "ok" /\ UNCHANGED backlog
  <2>1. ListInv' /\ OnTheWay' = OnTheWay /\ Waits' = Waits
    BY <1>1, <1>6 DEF ListInv, ListTypes, ListsInOrder, Homes, D!IsFirst, OnTheWay, Waits
  <2>2. Tracked'
    <3>1. \A n \in ToSet(backlog) : fate[n] = "kept"
      BY <1>2, <1>6, ListsInMessages DEF Tracked
    <3> QED BY <1>1, <1>6, <2>1, <3>1 DEF Tracked
  <2>3. HasRoom'
    BY <2>1 DEF HasRoom
  <2> QED BY <1>3, <1>4, <2>1, <2>2, <2>3
<1> QED BY <1>1, <1>5, <1>6

\* A canceller takes messages that no call is under way for.
LEMMA TakeOutKeeps ==
  ASSUME ListInv, MessageInv, NEW taken \in SUBSET Messages, D!TakeOut(taken),
         \A m \in taken : fate[m] = "kept" /\ operation[m] \notin {"running", "ok"}
  PROVE  ListInv' /\ MessageInv'
<1> USE DEF MessageInv
<1>1. /\ deferred' = [k \in Calls |-> Only(deferred[k], Messages \ taken)]
      /\ hold' = [c \in Conversations |-> Only(hold[c], Messages \ taken)]
      /\ backlog' = Only(backlog, Messages \ taken)
      /\ fate' = [m \in Messages |-> IF m \in taken THEN "extracted" ELSE fate[m]]
      /\ UNCHANGED <<pending, scopes, operation, worker>>
  BY SameOnly DEF D!TakeOut, D!Forget
<1>2. /\ ListInv' /\ OnTheWay' = OnTheWay \ taken /\ Waits' = Waits \ taken
      /\ ToSet(backlog)' = ToSet(backlog) \ taken
      /\ backlog # <<>> /\ backlog[1] \notin taken => backlog' # <<>> /\ backlog'[1] = backlog[1]
  BY <1>1, LeavingKeeps
<1>3. MessageTypes'
  BY <1>1 DEF MessageTypes, D!Fates
<1>4. Tracked'
  <2>1. \A m \in Messages : fate'[m] = "kept" => fate[m] = "kept" /\ m \notin taken
    BY <1>1
  <2>2. \A m \in OnTheWay \ taken : m \in Messages /\ fate'[m] = fate[m]
    BY <1>1, ListsInMessages DEF OnTheWay, Waits
  <2> QED BY <1>1, <1>2, <2>1, <2>2 DEF Tracked, OnTheWay
<1>5. OneCall'
  <2>1. \A m \in Messages : operation[m] \in {"running", "ok"} => m \notin taken /\ fate'[m] = fate[m]
    BY <1>1
  <2> QED BY <1>1, <1>2, <2>1 DEF OneCall
<1>6. SeenInOrder' /\ SunkInOrder'
  BY <1>1 DEF SeenInOrder, SunkInOrder
<1>7. HasRoom'
  BY <1>2, RoomStays
<1> QED BY <1>2, <1>3, <1>4, <1>5, <1>6, <1>7

LEMMA NotUnderWay ==
  ASSUME ListInv, MessageInv, NEW S \in SUBSET Messages
  PROVE  \A m \in D!ExtractableOf(S) \cup (S \cap D!Waiting) :
           m \in Messages /\ fate[m] = "kept" /\ operation[m] \notin {"running", "ok"}
<1>1. ASSUME NEW m \in D!ExtractableOf(S)
      PROVE  m \in Messages /\ fate[m] = "kept" /\ operation[m] \notin {"running", "ok"}
  BY DEF D!ExtractableOf, D!Extractable, D!ToSet, ToSet, MessageInv, Tracked
<1>2. ASSUME NEW m \in Waits
      PROVE  m \in Messages /\ fate[m] = "kept" /\ operation[m] \notin {"running", "ok"}
  <2>1. m \in Messages /\ fate[m] = "kept" /\ m \notin ToSet(backlog)
    BY BacklogIsApart DEF Waits, MessageInv, Tracked
  <2>2. backlog # <<>> => backlog[1] \in ToSet(backlog)
    <3>1. backlog \in Seq(Messages)
      BY DEF ListInv, ListTypes
    <3>2. backlog # <<>> => 1 \in DOMAIN backlog
      BY <3>1
    <3> QED BY <3>2 DEF ToSet
  <2> QED BY <2>1, <2>2 DEF MessageInv, OneCall
<1>3. D!Waiting = Waits
  BY WaitingIs
<1> QED BY <1>1, <1>2, <1>3

LEMMA CancellationKeeps ==
  ASSUME ListInv, MessageInv, claim \subseteq Messages,
         \/ \E S \in SUBSET Messages : D!Extract(S)
         \/ D!Settle
  PROVE  ListInv' /\ MessageInv'
<1>1. CASE \E S \in SUBSET Messages : D!Extract(S)
  <2>1. PICK S \in SUBSET Messages : D!Extract(S)
    BY <1>1
  <2>2. PICK taken : taken = D!ExtractableOf(S) \cup (S \cap D!Waiting)
    OBVIOUS
  <2>3. \A m \in taken : m \in Messages /\ fate[m] = "kept" /\ operation[m] \notin {"running", "ok"}
    BY <2>2, NotUnderWay
  <2>4. D!TakeOut(taken)
    BY <2>1, <2>2 DEF D!Extract
  <2> QED BY <2>3, <2>4, TakeOutKeeps
<1>2. CASE D!Settle
  <2>1. PICK taken : taken = D!ExtractableOf(claim)
    OBVIOUS
  <2>2. \A m \in taken : m \in Messages /\ fate[m] = "kept" /\ operation[m] \notin {"running", "ok"}
    BY <2>1, NotUnderWay
  <2>3. D!TakeOut(taken)
    BY <1>2, <2>1 DEF D!Settle
  <2> QED BY <2>2, <2>3, TakeOutKeeps
<1> QED BY <1>1, <1>2

\* What close() drains is all that waits, and in order.
LEMMA DrainedFacts ==
  ASSUME ListInv, pending \in Seq(Calls), IsFiniteSet(Waits), NEW all \in D!Drained
  PROVE  all \in Seq(Messages) /\ ToSet(all) = Waits /\ InOrder(all)
<1>1. D!Waiting = Waits
  BY WaitingIs
<1>2. D!SetToSeqs(Waits) = SetToSeqs(Waits)
  BY Zenon DEF D!SetToSeqs, SetToSeqs, D!Cardinality, Cardinality
<1>3. all \in SetToSeqs(Waits) /\ \A i, j \in DOMAIN all : i < j => ~D!Precedes(all[j], all[i])
  BY <1>1, <1>2 DEF D!Drained
<1>4. all \in Seq(Waits) /\ ToSet(all) = Waits /\ \A i, j \in DOMAIN all : i # j => all[i] # all[j]
  BY <1>3, Enumerated
<1>5. all \in Seq(Messages) /\ Waits \subseteq Messages
  BY <1>4 DEF Waits
<1>6. ASSUME NEW m \in Waits, NEW n \in Waits, m # n, ~D!Precedes(n, m), DeferredIn[m] = DeferredIn[n]
      PROVE  m < n
  <2>1. ASSUME NEW seq \in Seq(Messages), InOrder(seq), m \in ToSet(seq), n \in ToSet(seq),
               ~D!InList(seq, n, m)
        PROVE  m < n
    <3>1. PICK k \in DOMAIN seq : seq[k] = m
      BY <2>1 DEF ToSet
    <3>2. PICK l \in DOMAIN seq : seq[l] = n
      BY <2>1 DEF ToSet
    <3>3. k < l \/ l < k \/ k = l
      BY <3>1, <3>2
    <3>4. ~(l < k) /\ k # l
      BY <1>6, <2>1, <3>1, <3>2 DEF D!InList
    <3> QED BY <1>6, <2>1, <3>1, <3>2, <3>3, <3>4 DEF InOrder
  <2>2. /\ n \in D!Held => m \in D!Held
        /\ \A c \in Conversations : ~D!InList(hold[c], n, m)
        /\ \A k \in Calls : ~D!InList(deferred[k], n, m)
    BY <1>6 DEF D!Precedes
  <2>3. \A x : x \in D!Held <=> \E c \in Conversations : x \in ToSet(hold[c])
    BY DEF D!Held, D!ToSet, ToSet
  <2>4. CASE n \in D!Held
    <3>1. PICK c \in Conversations : m \in ToSet(hold[c])
      BY <2>2, <2>3, <2>4
    <3>2. PICK d \in Conversations : n \in ToSet(hold[d])
      BY <2>3, <2>4
    <3>3. c = d
      BY <1>6, <3>1, <3>2 DEF ListInv, Homes
    <3>4. hold[c] \in Seq(Messages) /\ InOrder(hold[c])
      BY DEF ListInv, ListTypes, ListsInOrder
    <3>5. ~D!InList(hold[c], n, m)
      BY <2>2
    <3>6. n \in ToSet(hold[c])
      BY <3>2, <3>3
    <3> QED BY <2>1, <3>1, <3>4, <3>5, <3>6
  <2>5. CASE n \notin D!Held
    <3>1. PICK k \in Calls : n \in ToSet(deferred[k])
      BY <2>3, <2>5 DEF Waits
    <3>2. CASE m \in D!Held
      <4>1. PICK c \in Conversations : m \in ToSet(hold[c])
        BY <2>3, <3>2
      <4>2. Ahead(ToSet(hold[c]), ToSet(deferred[k]))
        BY DEF ListInv, ListsInOrder
      <4> QED BY <1>6, <3>1, <4>1, <4>2 DEF Ahead
    <3>3. CASE m \notin D!Held
      <4>1. PICK q \in Calls : m \in ToSet(deferred[q])
        BY <2>3, <3>3 DEF Waits
      <4>2. q = k
        <5>1. /\ D!IsFirst(k) /\ D!IsFirst(q)
              /\ DeferredIn[n] = DeferredIn[k] /\ DeferredIn[m] = DeferredIn[q]
          BY <3>1, <4>1 DEF ListInv, Homes
        <5>2. DeferredIn[k] = DeferredIn[q]
          BY <1>6, <5>1
        <5> QED BY <5>1, <5>2, OneFirst
      <4>3. deferred[k] \in Seq(Messages) /\ InOrder(deferred[k])
        BY DEF ListInv, ListTypes, ListsInOrder
      <4>4. ~D!InList(deferred[k], n, m)
        BY <2>2
      <4>5. m \in ToSet(deferred[k])
        BY <4>1, <4>2
      <4> QED BY <2>1, <3>1, <4>3, <4>4, <4>5
    <3> QED BY <3>2, <3>3
  <2> QED BY <2>4, <2>5
<1>7. InOrder(all)
  <2> SUFFICES ASSUME NEW a \in DOMAIN all, NEW b \in DOMAIN all, a < b
               PROVE  all[a] # all[b] /\ (DeferredIn[all[a]] = DeferredIn[all[b]] => all[a] < all[b])
    BY DEF InOrder
  <2>1. a # b
    BY <1>4
  <2>2. all[a] \in Waits /\ all[b] \in Waits
    BY <1>4
  <2>3. all[a] # all[b] /\ ~D!Precedes(all[b], all[a])
    BY <1>3, <1>4, <2>1
  <2> QED BY <1>6, <2>2, <2>3
<1> QED BY <1>4, <1>5, <1>7

LEMMA CloseKeeps ==
  ASSUME ListInv, MessageInv, pending \in Seq(Calls), D!Close
  PROVE  ListInv' /\ MessageInv'
<1>1. PICK all \in D!Drained : backlog' = backlog \o all
  BY DEF D!Close
<1>2. /\ scopes' = [c \in Conversations |-> 0]
      /\ hold' = [c \in Conversations |-> <<>>] /\ deferred' = [k \in Calls |-> <<>>]
      /\ UNCHANGED <<pending, fate, worker>>
      /\ \E S : operation' = [m \in Messages |-> IF m \in S /\ operation[m] = "running"
                                                 THEN "cancelled" ELSE operation[m]]
  BY DEF D!Close
<1>3. all \in Seq(Messages) /\ ToSet(all) = Waits /\ InOrder(all)
  BY <1>1, Counting, DrainedFacts DEF MessageInv
<1>4. backlog \in Seq(Messages)
  BY DEF ListInv, ListTypes
<1>5. /\ backlog' \in Seq(Messages) /\ ToSet(backlog') = OnTheWay
      /\ InOrder(backlog) /\ InOrder(all) /\ Ahead(ToSet(backlog), ToSet(all)) => InOrder(backlog')
      /\ backlog # <<>> => backlog' # <<>> /\ backlog'[1] = backlog[1]
  BY <1>1, <1>3, <1>4, Joined DEF OnTheWay
<1>6. InOrder(backlog')
  <2>1. Ahead(ToSet(backlog), Waits)
    BY DEF Waits, ListInv, ListsInOrder, Ahead
  <2> QED BY <1>3, <1>5, <2>1 DEF ListInv, ListsInOrder
<1>7. /\ \A c \in Conversations : hold'[c] = <<>> /\ ToSet(hold'[c]) = {} /\ InOrder(hold'[c])
      /\ \A k \in Calls : deferred'[k] = <<>> /\ ToSet(deferred'[k]) = {} /\ InOrder(deferred'[k])
  BY <1>2 DEF ToSet, InOrder
<1>8. ListInv'
  <2>1. ListTypes'
    BY <1>2, <1>5 DEF ListTypes
  <2>2. ListsInOrder' /\ Homes'
    BY <1>6, <1>7 DEF ListsInOrder, Homes, Ahead
  <2> QED BY <2>1, <2>2 DEF ListInv
<1>9. Waits' = {} /\ OnTheWay' = OnTheWay
  <2>1. Waits' = {}
    BY <1>7 DEF Waits
  <2> QED BY <1>5, <2>1 DEF OnTheWay
<1>10. MessageInv'
  <2>1. \A m \in Messages : \/ operation'[m] = operation[m]
                            \/ operation[m] = "running" /\ operation'[m] = "cancelled"
    BY <1>2
  <2>2. MessageTypes'
    BY <1>2 DEF MessageInv, MessageTypes
  <2>3. Tracked'
    <3>1. \A m \in OnTheWay : m \in Messages /\ (fate[m] = "kept" \/ operation[m] = "ok")
      BY ListsInMessages DEF MessageInv, Tracked, OnTheWay, Waits
    <3>2. \A m \in ToSet(backlog') : fate[m] = "kept" \/ operation'[m] = "ok"
      BY <1>5, <2>1, <3>1
    <3> QED BY <1>2, <1>9, <3>2 DEF MessageInv, Tracked
  <2>4. OneCall'
    BY <1>2, <1>5, <2>1 DEF MessageInv, OneCall
  <2>5. SeenInOrder' /\ SunkInOrder' /\ HasRoom'
    BY <1>2, <1>9 DEF MessageInv, SeenInOrder, SunkInOrder, HasRoom
  <2> QED BY <2>2, <2>3, <2>4, <2>5 DEF MessageInv
<1> QED BY <1>8, <1>10

\* What the worker, the loop and a canceller do.
LEMMA DeliveryKeeps ==
  ASSUME ToolsAssumption, ListInv, MessageInv, pending \in Seq(Calls), claim \subseteq Messages,
         DeliveryMoves
  PROVE  ListInv' /\ MessageInv'
<1>1. CASE D!Deliver
  BY <1>1, DeliverKeeps
<1>2. CASE \E m \in Messages : D!OperationEnds(m)
  BY <1>2, FinishKeeps DEF D!OperationEnds
<1>3. CASE \E m \in Messages : D!WorkerResumes(m)
  BY <1>3, ResumeKeeps
<1>4. CASE \E m \in Messages : D!Defer(m)
  BY <1>4, DeferKeeps
<1>5. CASE (\E c \in Conversations : D!ExtractSession(c)) \/ (\E t \in Turns : D!ExtractTurn(t)) \/ D!Settle
  <2>1. (\E S \in SUBSET Messages : D!Extract(S)) \/ D!Settle
    BY <1>5 DEF D!ExtractSession, D!ExtractTurn
  <2> QED BY <2>1, CancellationKeeps
<1> QED BY <1>1, <1>2, <1>3, <1>4, <1>5 DEF DeliveryMoves, DeliveryStep, D!WorkerStep, D!LoopStep

\* The other steps leave the messages alone.
LEMMA UntouchedKeeps ==
  ASSUME ListInv, MessageInv, UNCHANGED <<pending, deferVars>>
  PROVE  ListInv' /\ MessageInv'
<1>1. UNCHANGED <<pending, scopes, deferred, hold, backlog, operation, worker, fate>>
  BY DEF deferVars
<1>2. ListInv'
  BY <1>1 DEF ListInv, ListTypes, ListsInOrder, Homes, D!IsFirst
<1>3. OnTheWay' = OnTheWay /\ Waits' = Waits
  BY <1>1 DEF OnTheWay, Waits
<1> QED BY <1>1, <1>2, <1>3, MoveKeeps

LEMMA BatchKeeps ==
  ASSUME ToolsAssumption, RequestInv, ListInv, MessageInv, NEW b \in Batches, BatchStep(b)
  PROVE  ListInv' /\ MessageInv'
<1>1. pending \in Seq(Calls) /\ \A i, j \in DOMAIN pending : pending[i] = pending[j] => i = j
  BY DEF RequestInv, RequestTypes, PendingIsAsked
<1>2. ConversationOf[b] \in Conversations
  BY DEF ToolsAssumption
<1>3. CASE Begin(b)
  <2>1. UNCHANGED <<pending, deferVars>> \/ D!BeginScope(ConversationOf[b])
    BY <1>3 DEF Begin
  <2> QED BY <1>2, <2>1, UntouchedKeeps, BeginScopeKeeps
<1>4. CASE Ask(b)
  <2>1. PICK k \in Current(b) :
          /\ R!Suspend(k, step[b] = "reviewed")
          /\ (closed /\ UNCHANGED deferVars) \/ (~closed /\ D!Register(k))
    BY <1>4 DEF Ask
  <2>2. k \in Calls /\ (closed => UNCHANGED pending)
    BY <2>1, CurrentFacts DEF R!Suspend
  <2> QED BY <1>1, <2>1, <2>2, UntouchedKeeps, RegisterKeeps
<1>5. CASE RequestEnds(b) \/ (Interrupt(b) /\ step[b] \in Approving)
  <2>1. PICK k \in AskedFor(b) : D!Unregister(k)
    BY <1>5 DEF RequestEnds, Interrupt, Approving
  <2>2. k \in Calls /\ CallConversation[k] \in Conversations
    BY <1>2, AskedForFacts, BatchFacts
  <2> QED BY <1>1, <2>1, <2>2, UnregisterKeeps
<1>6. CASE ScopeEnds(b)
  BY <1>2, <1>6, EndScopeKeeps DEF ScopeEnds
<1>7. CASE \/ Deny(b) \/ ReviewEnds(b) \/ AutoApproved(b) \/ Presented(b) \/ Executed(b)
           \/ (Interrupt(b) /\ step[b] \notin Approving)
  <2>1. UNCHANGED <<pending, deferVars>>
    BY <1>7 DEF Deny, ReviewEnds, AutoApproved, Presented, Executed, Interrupt, R!Prompted, brokerVars
  <2> QED BY <2>1, UntouchedKeeps
<1> QED BY <1>3, <1>4, <1>5, <1>6, <1>7 DEF BatchStep

LEMMA NextPreservesMessages ==
  ASSUME ToolsAssumption, RequestInv, ListInv, MessageInv, claim \subseteq Messages, [Next]_vars
  PROVE  ListInv' /\ MessageInv'
<1>1. pending \in Seq(Calls)
  BY DEF RequestInv, RequestTypes
<1>2. CASE \E b \in Batches : BatchStep(b)
  BY <1>2, BatchKeeps
<1>3. CASE DeliveryMoves
  BY <1>1, <1>3, DeliveryKeeps
<1>4. CASE Close
  BY <1>1, <1>4, CloseKeeps DEF Close
<1>5. CASE \/ \E k \in Calls : CallStarts(k) \/ CallEnds(k) \/ Expire(k)
           \/ \E c \in Conversations :
                \/ Enable(c) \/ Revoke(c)
                \/ \E k \in Calls, action \in R!Approvals \cup {"rejected"} : Decide(c, k, action)
           \/ \E t \in Turns : TurnEnds(t)
           \/ UNCHANGED vars
  <2>1. UNCHANGED <<pending, deferVars>>
    BY <1>5 DEF CallStarts, CallEnds, Expire, Enable, Revoke, Decide, TurnEnds, R!Expire,
       R!ResolveIdle, R!Revoke, R!CancelSession, R!ResolvePending, R!CancelTurn, vars, brokerVars
  <2> QED BY <2>1, UntouchedKeeps
<1> QED BY <1>2, <1>3, <1>4, <1>5 DEF Next

-----------------------------------------------------------------------------
(* The rest of the state.                                                   *)

LEMMA NextPreservesGrants ==
  ASSUME ToolsAssumption, RequestInv, GrantTypes, [Next]_vars
  PROVE  GrantTypes'
<1> USE DEF GrantTypes
<1>1. /\ CallConversation \in [Calls -> Conversations] /\ CallTurn \in [Calls -> Turns]
      /\ CapabilityOf \in [Calls -> Capabilities]
  <2>1. R!RequestsAssumption
    BY BrokerAssumption
  <2> QED BY <2>1 DEF R!RequestsAssumption
<1>2. ASSUME NEW b \in Batches, BatchStep(b) PROVE GrantTypes'
  <2>1. CASE Ask(b)
    <3>1. PICK k \in Current(b) : R!Suspend(k, step[b] = "reviewed")
      BY <2>1 DEF Ask
    <3>2. k \in Calls
      BY CurrentFacts
    <3>3. /\ reviewed' \in {reviewed, reviewed \cup {k}}
          /\ UNCHANGED <<late, turnGrants, yolo, closed, over>>
      BY <3>1 DEF R!Suspend, R!grantVars
    <3> QED BY <3>2, <3>3
  <2>2. CASE RequestEnds(b) \/ (Interrupt(b) /\ step[b] \in Approving)
    <3>1. PICK k \in AskedFor(b) : R!End(k)
      BY <2>2 DEF RequestEnds, Interrupt, Approving, R!PromptFails, R!Decided, R!Interrupt
    <3> QED BY <3>1 DEF R!End, R!grantVars
  <2>3. CASE \/ Deny(b) \/ Begin(b) \/ ReviewEnds(b) \/ AutoApproved(b) \/ Presented(b)
             \/ ScopeEnds(b) \/ Executed(b) \/ (Interrupt(b) /\ step[b] \notin Approving)
    <3>1. UNCHANGED <<reviewed, late, turnGrants, yolo, closed, over>>
      BY <2>3 DEF Deny, Begin, ReviewEnds, AutoApproved, Presented, ScopeEnds, Executed, Interrupt,
         R!Prompted, R!grantVars, D!BeginScope, D!EndScope, brokerVars, requestVars
    <3> QED BY <3>1
  <2> QED BY <1>2, <2>1, <2>2, <2>3 DEF BatchStep
<1>3. CASE \E c \in Conversations, k \in Calls, action \in R!Approvals \cup {"rejected"} : Decide(c, k, action)
  <2>1. PICK c \in Conversations, k \in Calls :
          /\ turnGrants' \in {turnGrants, turnGrants \cup {<<CallTurn[k], CapabilityOf[k]>>}}
          /\ yolo' \in {yolo, yolo \cup {c}}
          /\ UNCHANGED <<reviewed, late, closed, over>>
    BY <1>3 DEF Decide, R!ResolvePending, R!grantVars
  <2> QED BY <1>1, <2>1
<1>4. CASE \/ \E k \in Calls : Expire(k)
           \/ \E c \in Conversations : Enable(c)
           \/ \E t \in Turns : TurnEnds(t)
  BY <1>4 DEF Expire, R!Expire, R!grantVars, Enable, R!ResolveIdle, TurnEnds, R!CancelTurn, R!GrantsLeft
<1>5. CASE (\E c \in Conversations : Revoke(c)) \/ Close
  BY <1>5 DEF Revoke, R!Revoke, R!CancelSession, Close, R!Close
<1>6. CASE (\E k \in Calls : CallStarts(k) \/ CallEnds(k)) \/ DeliveryMoves \/ UNCHANGED vars
  <2>1. UNCHANGED <<reviewed, late, turnGrants, yolo, over>>
    BY <1>6 DEF CallStarts, CallEnds, DeliveryMoves, vars, brokerVars, requestVars
  <2>2. UNCHANGED closed
    BY <1>6 DEF CallStarts, CallEnds, vars, brokerVars, DeliveryMoves, DeliveryStep, D!WorkerStep,
       D!LoopStep, D!Deliver, D!OperationEnds, D!Finish, D!WorkerResumes, D!Defer, D!ExtractSession,
       D!ExtractTurn, D!Extract, D!Settle, D!TakeOut
  <2> QED BY <2>1, <2>2
<1> QED BY <1>2, <1>3, <1>4, <1>5, <1>6 DEF Next

LEMMA NextPreservesDeliveries ==
  ASSUME ToolsAssumption, ListInv, DeliveryTypes, [Next]_vars
  PROVE  DeliveryTypes'
<1> USE DEF DeliveryTypes
<1>1. CASE UNCHANGED <<phase, force, released, worker, claim>>
  BY <1>1
<1>2. CASE D!Deliver
  <2>1. backlog[1] \in Messages
    <3>1. backlog \in Seq(Messages) /\ backlog # <<>>
      BY <1>2 DEF ListInv, ListTypes, D!Deliver
    <3> QED BY <3>1
  <2> QED BY <1>2, <2>1 DEF D!Deliver, D!ToRelease
<1>3. CASE \E m \in Messages : D!WorkerResumes(m)
  BY <1>3 DEF D!WorkerResumes, D!Forget
<1>4. CASE (\E c \in Conversations : D!ExtractSession(c)) \/ (\E t \in Turns : D!ExtractTurn(t)) \/ D!Settle
  <2>1. PICK taken : D!TakeOut(taken) /\ claim' \subseteq Messages
    BY <1>4 DEF D!ExtractSession, D!ExtractTurn, D!Extract, D!Settle
  <2> QED BY <2>1 DEF D!TakeOut, D!Forget
<1>5. CASE Close
  <2>1. /\ UNCHANGED <<phase, released, worker, claim>>
        /\ \E S \in SUBSET ToSet(backlog) : force' = force \cup S
    BY <1>5 DEF Close, D!Close, D!ToSet, ToSet
  <2> QED BY <2>1, ListsInMessages
<1>6. CASE \E m \in Messages : D!OperationEnds(m) \/ D!Defer(m)
  BY <1>6 DEF D!OperationEnds, D!Finish, D!Defer, D!deliveryVars
<1>7. CASE DeliveryMoves
  BY <1>2, <1>3, <1>4, <1>6, <1>7 DEF DeliveryMoves, DeliveryStep, D!WorkerStep, D!LoopStep
<1>8. CASE \E b \in Batches : BatchStep(b)
  <2>1. UNCHANGED <<phase, force, released, worker, claim>>
    BY <1>8 DEF BatchStep, Deny, Begin, ReviewEnds, AutoApproved, Ask, Presented, RequestEnds, ScopeEnds,
         Executed, Interrupt, D!BeginScope, D!Register, D!Unregister, D!EndScope, D!deliveryVars,
         brokerVars, deferVars
  <2> QED BY <1>1, <2>1
<1>9. CASE \/ \E k \in Calls : CallStarts(k) \/ CallEnds(k) \/ Expire(k)
           \/ \E c \in Conversations :
                \/ Enable(c) \/ Revoke(c)
                \/ \E k \in Calls, action \in R!Approvals \cup {"rejected"} : Decide(c, k, action)
           \/ \E t \in Turns : TurnEnds(t)
           \/ UNCHANGED vars
  <2>1. UNCHANGED <<phase, force, released, worker, claim>>
    BY <1>9 DEF CallStarts, CallEnds, Expire, Enable, Revoke, Decide, TurnEnds, vars, brokerVars, deferVars
  <2> QED BY <1>1, <2>1
<1> QED BY <1>5, <1>7, <1>8, <1>9 DEF Next

LEMMA NextPreservesBatches ==
  ASSUME ToolsAssumption, BatchTypes, [Next]_vars
  PROVE  BatchTypes'
<1> USE DEF BatchTypes
<1>1. ASSUME NEW b \in Batches, BatchStep(b) PROVE BatchTypes'
  <2>1. UNCHANGED <<user, stricter>>
    BY <1>1 DEF BatchStep, Deny, Begin, ReviewEnds, AutoApproved, Ask, Presented, RequestEnds, ScopeEnds,
         Executed, Interrupt, batchVars, historyVars
  <2>2. CASE Begin(b)
    BY <2>1, <2>2, BatchFacts DEF Begin
  <2>3. CASE ReviewEnds(b)
    <3>1. Undecided(b) \subseteq Calls
      BY BatchFacts DEF Undecided
    <3> QED BY <2>1, <2>3, <3>1 DEF ReviewEnds
  <2>4. CASE AutoApproved(b) \/ RequestEnds(b)
    <3>1. UNCHANGED <<automatic, run>> /\ \E k \in Current(b) : covered' \in {covered, covered \cup {k}}
      BY <2>4 DEF AutoApproved, RequestEnds, Recheck, AskedFor
    <3> QED BY <2>1, <3>1, CurrentFacts
  <2>5. CASE Gone(b)
    BY <2>1, <2>5 DEF Gone
  <2>6. CASE UNCHANGED <<covered, automatic, run>>
    BY <2>1, <2>6
  <2> QED BY <1>1, <2>2, <2>3, <2>4, <2>5, <2>6 DEF BatchStep, Deny, Ask, Presented, ScopeEnds, Executed,
       Interrupt, batchVars
<1>2. CASE \E k \in Calls : CallStarts(k) \/ CallEnds(k)
  BY <1>2 DEF CallStarts, CallEnds, historyVars
<1>3. CASE \/ \E k \in Calls : Expire(k)
           \/ \E c \in Conversations :
                \/ Enable(c) \/ Revoke(c)
                \/ \E k \in Calls, action \in R!Approvals \cup {"rejected"} : Decide(c, k, action)
           \/ \E t \in Turns : TurnEnds(t)
           \/ DeliveryMoves \/ Close \/ UNCHANGED vars
  <2>1. UNCHANGED <<covered, automatic, run, user, stricter>>
    BY <1>3 DEF Expire, Enable, Revoke, Decide, TurnEnds, DeliveryMoves, Close, vars, batchVars, historyVars
  <2> QED BY <2>1
<1> QED BY <1>1, <1>2, <1>3 DEF Next

\* How the fate of a message changes.
LEMMA FateSteps ==
  ASSUME ListInv, MessageInv, claim \subseteq Messages, [Next]_vars
  PROVE  \/ UNCHANGED fate
         \/ /\ \E m \in Messages, x \in {"kept", "passed"} :
                 fate[m] = "unseen" /\ fate' = [fate EXCEPT ![m] = x]
            /\ UNCHANGED <<claim, operation>>
         \/ /\ \E m \in Messages, x \in {"sunk", "failed"} :
                 fate[m] = "kept" /\ fate' = [fate EXCEPT ![m] = x]
            /\ UNCHANGED claim
         \/ /\ \E taken \in SUBSET Messages :
                 /\ \A m \in taken : fate[m] = "kept" /\ operation[m] \notin {"running", "ok"}
                 /\ fate' = [m \in Messages |-> IF m \in taken THEN "extracted" ELSE fate[m]]
                 /\ D!TakeOut(taken)
            /\ \/ claim = {}
               \/ D!Settle
<1>1. CASE \E m \in Messages : D!Defer(m)
  BY <1>1 DEF D!Defer, D!deliveryVars
<1>2. CASE \E m \in Messages : D!OperationEnds(m)
  <2>1. PICK m \in Messages, end \in {"ok", "error"} : D!Finish(m, end)
    BY <1>2 DEF D!OperationEnds
  <2>2. fate[m] = "kept"
    BY <2>1 DEF D!Finish, MessageInv, OneCall
  <2> QED BY <2>1, <2>2 DEF D!Finish
<1>3. CASE (\E c \in Conversations : D!ExtractSession(c)) \/ (\E t \in Turns : D!ExtractTurn(t)) \/ D!Settle
  <2>1. PICK S \in SUBSET Messages :
          \/ claim = {} /\ D!TakeOut(D!ExtractableOf(S) \cup (S \cap D!Waiting))
          \/ D!Settle /\ S = claim /\ D!TakeOut(D!ExtractableOf(S))
    <3>1. CASE D!Settle
      BY <3>1 DEF D!Settle
    <3>2. CASE (\E c \in Conversations : D!ExtractSession(c)) \/ (\E t \in Turns : D!ExtractTurn(t))
      <4>1. PICK S \in SUBSET Messages : D!Extract(S)
        BY <3>2 DEF D!ExtractSession, D!ExtractTurn
      <4> QED BY <4>1 DEF D!Extract
    <3> QED BY <1>3, <3>1, <3>2
  <2>2. PICK taken \in {D!ExtractableOf(S) \cup (S \cap D!Waiting), D!ExtractableOf(S)} :
          D!TakeOut(taken) /\ (claim = {} \/ D!Settle)
    BY <2>1
  <2>3. \A m \in taken : m \in Messages /\ fate[m] = "kept" /\ operation[m] \notin {"running", "ok"}
    BY <2>2, NotUnderWay
  <2>4. taken \in SUBSET Messages
    BY <2>3
  <2>5. fate' = [m \in Messages |-> IF m \in taken THEN "extracted" ELSE fate[m]]
    BY <2>2 DEF D!TakeOut
  <2> QED BY <2>2, <2>3, <2>4, <2>5
<1>4. CASE D!Deliver \/ \E m \in Messages : D!WorkerResumes(m)
  BY <1>4 DEF D!Deliver, D!WorkerResumes
<1>5. CASE DeliveryMoves
  BY <1>1, <1>2, <1>3, <1>4, <1>5 DEF DeliveryMoves, DeliveryStep, D!WorkerStep, D!LoopStep
<1>6. CASE \E b \in Batches : BatchStep(b)
  <2>1. UNCHANGED fate
    BY <1>6 DEF BatchStep, Deny, Begin, ReviewEnds, AutoApproved, Ask, Presented, RequestEnds, ScopeEnds,
       Executed, Interrupt, D!BeginScope, D!Register, D!Unregister, D!EndScope, brokerVars, deferVars
  <2> QED BY <2>1
<1>7. CASE \/ \E k \in Calls : CallStarts(k) \/ CallEnds(k) \/ Expire(k)
           \/ \E c \in Conversations :
                \/ Enable(c) \/ Revoke(c)
                \/ \E k \in Calls, action \in R!Approvals \cup {"rejected"} : Decide(c, k, action)
           \/ \E t \in Turns : TurnEnds(t)
           \/ Close \/ UNCHANGED vars
  <2>1. UNCHANGED fate
    BY <1>7 DEF CallStarts, CallEnds, Expire, Enable, Revoke, Decide, TurnEnds, Close, D!Close,
       vars, brokerVars, deferVars
  <2> QED BY <2>1
<1> QED BY <1>5, <1>6, <1>7 DEF Next

LEMMA NextPreservesCalled ==
  ASSUME ListInv, MessageInv, DeliveryTypes, Called, [Next]_vars
  PROVE  Called'
<1> USE DEF Called
<1>1. operation \in [Messages -> {"none", "running", "ok", "error", "cancelled"}]
      /\ phase \in [Messages -> {"queued", "sink", "failure"}]
  BY DEF MessageInv, MessageTypes, DeliveryTypes
<1>2. CASE UNCHANGED <<phase, operation>>
  BY <1>2
<1>3. CASE D!Deliver
  <2>1. backlog[1] \in Messages
    <3>1. backlog \in Seq(Messages) /\ backlog # <<>>
      BY <1>3 DEF ListInv, ListTypes, D!Deliver
    <3> QED BY <3>1
  <2> QED BY <1>1, <1>3, <2>1 DEF D!Deliver
<1>4. CASE \E m \in Messages : D!OperationEnds(m)
  BY <1>1, <1>4 DEF D!OperationEnds, D!Finish
<1>5. CASE \E m \in Messages : D!WorkerResumes(m)
  <2>1. PICK m \in Messages : D!WorkerResumes(m)
    BY <1>5
  <2>2. /\ operation' = [operation EXCEPT ![m] = "none"]
        /\ \A n \in Messages \ {m} : phase'[n] = phase[n]
    BY <2>1 DEF D!WorkerResumes, D!Forget
  <2> QED BY <1>1, <2>2
<1>6. CASE \E m \in Messages : D!Defer(m)
  BY <1>6 DEF D!Defer, D!deliveryVars
<1>7. CASE (\E c \in Conversations : D!ExtractSession(c)) \/ (\E t \in Turns : D!ExtractTurn(t)) \/ D!Settle
  <2>1. PICK S \in SUBSET Messages :
          \/ D!TakeOut(D!ExtractableOf(S) \cup (S \cap D!Waiting))
          \/ D!TakeOut(D!ExtractableOf(S))
    <3>1. CASE D!Settle
      BY <3>1 DEF D!Settle, DeliveryTypes
    <3>2. CASE (\E c \in Conversations : D!ExtractSession(c)) \/ (\E t \in Turns : D!ExtractTurn(t))
      <4>1. PICK S \in SUBSET Messages : D!Extract(S)
        BY <3>2 DEF D!ExtractSession, D!ExtractTurn
      <4> QED BY <4>1 DEF D!Extract
    <3> QED BY <1>7, <3>1, <3>2
  <2>2. PICK taken \in {D!ExtractableOf(S) \cup (S \cap D!Waiting), D!ExtractableOf(S)} : D!TakeOut(taken)
    BY <2>1
  <2>3. \A m \in taken : operation[m] # "running"
    BY <2>2, NotUnderWay
  <2>4. UNCHANGED operation /\ phase' = [m \in Messages |-> IF m \in taken THEN "queued" ELSE phase[m]]
    BY <2>2 DEF D!TakeOut, D!Forget
  <2> QED BY <2>3, <2>4
<1>8. CASE DeliveryMoves
  BY <1>3, <1>4, <1>5, <1>6, <1>7, <1>8 DEF DeliveryMoves, DeliveryStep, D!WorkerStep, D!LoopStep
<1>9. CASE Close
  <2>1. /\ UNCHANGED phase
        /\ \A m \in Messages : operation'[m] = "running" => operation[m] = "running"
    BY <1>9 DEF Close, D!Close
  <2> QED BY <2>1
<1>10. CASE \E b \in Batches : BatchStep(b)
  <2>1. UNCHANGED <<phase, operation>>
    BY <1>10 DEF BatchStep, Deny, Begin, ReviewEnds, AutoApproved, Ask, Presented, RequestEnds, ScopeEnds,
         Executed, Interrupt, D!BeginScope, D!Register, D!Unregister, D!EndScope, D!deliveryVars,
         brokerVars, deferVars
  <2> QED BY <1>2, <2>1
<1>11. CASE \/ \E k \in Calls : CallStarts(k) \/ CallEnds(k) \/ Expire(k)
            \/ \E c \in Conversations :
                 \/ Enable(c) \/ Revoke(c)
                 \/ \E k \in Calls, action \in R!Approvals \cup {"rejected"} : Decide(c, k, action)
            \/ \E t \in Turns : TurnEnds(t)
            \/ UNCHANGED vars
  <2>1. UNCHANGED <<phase, operation>>
    BY <1>11 DEF CallStarts, CallEnds, Expire, Enable, Revoke, Decide, TurnEnds, vars, brokerVars, deferVars
  <2> QED BY <1>2, <2>1
<1> QED BY <1>8, <1>9, <1>10, <1>11 DEF Next

\* A message comes into the backlog when nothing holds it back, or by close().
LEMMA BacklogGrows ==
  ASSUME ToolsAssumption, ListInv, [Next]_vars, NEW m \in ToSet(backlog'), m \notin ToSet(backlog)
  PROVE  \/ closed'
         \/ m \in Messages /\ DeferredIn[m] \in Conversations /\ scopes'[DeferredIn[m]] = 0
<1>1. /\ scopes \in [Conversations -> Nat] /\ deferred \in [Calls -> Seq(Messages)]
      /\ hold \in [Conversations -> Seq(Messages)] /\ backlog \in Seq(Messages)
  BY DEF ListInv, ListTypes
<1>2. ASSUME NEW k \in Calls, CallConversation[k] \in Conversations, D!Unregister(k)
      PROVE  m \in Messages /\ DeferredIn[m] \in Conversations /\ scopes'[DeferredIn[m]] = 0
  <2>1. /\ ~(scopes[DeferredIn[k]] > 0) /\ backlog' = backlog \o deferred[k] /\ UNCHANGED scopes
    BY <1>2 DEF D!Unregister
  <2>2. ToSet(backlog') = ToSet(backlog) \cup ToSet(deferred[k])
    <3>1. deferred[k] \in Seq(Messages)
      BY <1>1
    <3> QED BY <1>1, <2>1, <3>1, Joined
  <2>3. m \in ToSet(deferred[k]) /\ m \in Messages
    BY <2>2, ListsInMessages
  <2>4. DeferredIn[m] = DeferredIn[k] /\ DeferredIn[k] \in Conversations
    BY <1>2, <2>3, MessageConversation DEF ListInv, Homes
  <2>5. scopes[DeferredIn[k]] \in Nat
    BY <1>1, <2>4
  <2>6. scopes'[DeferredIn[m]] = 0
    BY <2>1, <2>4, <2>5
  <2> QED BY <2>3, <2>4, <2>6
<1>3. ASSUME NEW c \in Conversations, D!EndScope(c)
      PROVE  m \in Messages /\ DeferredIn[m] \in Conversations /\ scopes'[DeferredIn[m]] = 0
  <2>1. /\ scopes[c] <= 1 /\ backlog' = backlog \o hold[c]
        /\ scopes' = [scopes EXCEPT ![c] = D!Depth(c)]
    BY <1>3 DEF D!EndScope, D!IsOutermost
  <2>2. ToSet(backlog') = ToSet(backlog) \cup ToSet(hold[c])
    <3>1. hold[c] \in Seq(Messages)
      BY <1>1
    <3> QED BY <1>1, <2>1, <3>1, Joined
  <2>3. m \in ToSet(hold[c]) /\ m \in Messages
    BY <2>2, ListsInMessages
  <2>4. DeferredIn[m] = c
    BY <2>3 DEF ListInv, Homes
  <2>5. D!Depth(c) = 0
    BY <2>1 DEF D!Depth
  <2>6. scopes'[c] = 0
    BY <1>1, <2>1, <2>5
  <2> QED BY <2>3, <2>4, <2>6
<1>4. ASSUME NEW gone, backlog' = D!Only(backlog, Messages \ gone)
      PROVE  FALSE
  <2>1. ToSet(backlog') = ToSet(backlog) \cap (Messages \ gone)
    BY <1>1, <1>4, SameOnly, Left
  <2> QED BY <2>1
<1>5. CASE DeliveryMoves
  <2>1. \/ UNCHANGED backlog
        \/ \E gone : backlog' = D!Only(backlog, Messages \ gone)
    BY <1>5 DEF DeliveryMoves, DeliveryStep, D!WorkerStep, D!LoopStep, D!Deliver, D!OperationEnds, D!Finish,
       D!WorkerResumes, D!Defer, D!ExtractSession, D!ExtractTurn, D!Extract, D!Settle, D!TakeOut, D!Forget,
       D!deliveryVars
  <2> QED BY <1>4, <2>1
<1>6. ASSUME NEW b \in Batches, BatchStep(b)
      PROVE  m \in Messages /\ DeferredIn[m] \in Conversations /\ scopes'[DeferredIn[m]] = 0
  <2>1. ConversationOf[b] \in Conversations
    BY DEF ToolsAssumption
  <2>2. CASE ScopeEnds(b)
    BY <1>3, <2>1, <2>2 DEF ScopeEnds
  <2>3. CASE \E k \in AskedFor(b) : D!Unregister(k)
    <3>1. PICK k \in AskedFor(b) : D!Unregister(k)
      BY <2>3
    <3>2. k \in Calls /\ CallConversation[k] \in Conversations
      BY <2>1, AskedForFacts, BatchFacts
    <3> QED BY <1>2, <3>1, <3>2
  <2>4. CASE UNCHANGED backlog
    BY <2>4
  <2> QED BY <1>6, <2>2, <2>3, <2>4 DEF BatchStep, Deny, Begin, ReviewEnds, AutoApproved, Ask, Presented,
       RequestEnds, Executed, Interrupt, D!BeginScope, D!Register, D!deliveryVars, brokerVars, deferVars
<1>7. CASE \/ \E k \in Calls : CallStarts(k) \/ CallEnds(k) \/ Expire(k)
           \/ \E c \in Conversations :
                \/ Enable(c) \/ Revoke(c)
                \/ \E k \in Calls, action \in R!Approvals \cup {"rejected"} : Decide(c, k, action)
           \/ \E t \in Turns : TurnEnds(t)
           \/ UNCHANGED vars
  <2>1. UNCHANGED backlog
    BY <1>7 DEF CallStarts, CallEnds, Expire, Enable, Revoke, Decide, TurnEnds, vars, brokerVars, deferVars
  <2> QED BY <2>1
<1>8. CASE Close
  BY <1>8 DEF Close, D!Close
<1> QED BY <1>5, <1>6, <1>7, <1>8 DEF Next

-----------------------------------------------------------------------------
(* What the invariant says.                                                 *)

LEMMA EmptyLists ==
  ASSUME backlog = <<>>, hold = [c \in Conversations |-> <<>>], deferred = [k \in Calls |-> <<>>]
  PROVE  /\ OnTheWay = {} /\ Waits = {} /\ ToSet(backlog) = {} /\ InOrder(backlog)
         /\ \A c \in Conversations : ToSet(hold[c]) = {} /\ InOrder(hold[c])
         /\ \A k \in Calls : ToSet(deferred[k]) = {} /\ InOrder(deferred[k])
<1>1. ToSet(<<>>) = {} /\ InOrder(<<>>)
  BY DEF ToSet, InOrder
<1> QED BY <1>1 DEF OnTheWay, Waits

LEMMA InitMessages == ToolsAssumption /\ Init => MessagesInv
<1> SUFFICES ASSUME ToolsAssumption, Init PROVE MessagesInv
  OBVIOUS
<1>1. PICK w \in Workloads :
        /\ D!Init(w.messages) /\ R!Init(Turns \ {BatchTurn[b] : b \in w.batches})
        /\ stricter = w.stricter /\ user = w.user
        /\ covered = {} /\ automatic = {}
        /\ run = [k \in Calls |-> "no"]
  BY DEF Init
<1>2. w.stricter \subseteq Calls /\ w.user \in BOOLEAN
  BY DEF ToolsAssumption
<1>3. /\ scopes = [c \in Conversations |-> 0] /\ worker = "idle" /\ force = {} /\ claim = {}
      /\ deferred = [k \in Calls |-> <<>>] /\ hold = [c \in Conversations |-> <<>>] /\ backlog = <<>>
      /\ fate \in [Messages -> {"unseen", "passed"}] /\ operation = [m \in Messages |-> "none"]
      /\ phase = [m \in Messages |-> "queued"] /\ released = [m \in Messages |-> 0]
  BY <1>1 DEF D!Init
<1>4. ListInv
  BY <1>3, EmptyLists DEF ListInv, ListTypes, ListsInOrder, Homes, Ahead
<1>5. MessageInv
  <2>1. MessageTypes /\ Tracked /\ OneCall /\ SunkInOrder
    BY <1>3, EmptyLists DEF MessageTypes, D!Fates, Tracked, OneCall, SunkInOrder
  <2>2. SeenInOrder
    BY <1>3 DEF SeenInOrder
  <2>3. IsFiniteSet({}) /\ Cardinality({}) = 0
    BY FS_EmptySet
  <2>4. OnTheWay = {} /\ 0 <= Capacity
    BY <1>3, EmptyLists DEF ToolsAssumption
  <2>5. HasRoom
    BY <2>3, <2>4 DEF HasRoom
  <2> QED BY <2>1, <2>2, <2>5 DEF MessageInv
<1>6. GrantTypes
  BY <1>1 DEF R!Init, GrantTypes
<1>7. DeliveryTypes /\ Called
  BY <1>3 DEF DeliveryTypes, Called
<1>8. BatchTypes
  BY <1>1, <1>2 DEF BatchTypes
<1> QED BY <1>4, <1>5, <1>6, <1>7, <1>8 DEF MessagesInv

LEMMA MessagesInvariance ==
  ToolsAssumption /\ RequestInv /\ MessagesInv /\ [Next]_vars => MessagesInv'
<1> SUFFICES ASSUME ToolsAssumption, RequestInv, MessagesInv, [Next]_vars PROVE MessagesInv'
  OBVIOUS
<1>1. claim \subseteq Messages
  BY DEF MessagesInv, DeliveryTypes
<1>2. ListInv /\ MessageInv /\ GrantTypes /\ DeliveryTypes /\ BatchTypes /\ Called
  BY DEF MessagesInv
<1>3. ListInv' /\ MessageInv'
  BY <1>1, <1>2, NextPreservesMessages
<1>4. GrantTypes' /\ DeliveryTypes' /\ BatchTypes' /\ Called'
  BY <1>2, NextPreservesGrants, NextPreservesDeliveries, NextPreservesBatches, NextPreservesCalled
<1> QED BY <1>3, <1>4 DEF MessagesInv

\* A message that is kept is on one list.
LEMMA OwnedOnce ==
  ASSUME pending \in Seq(Calls), ListInv, MessageInv
  PROVE  D!OneOwner
<1> SUFFICES ASSUME NEW m \in Messages
             PROVE  IF fate[m] = "kept" THEN D!Places(m) = 1
                    ELSE D!Places(m) = 0 \/ (m = Head(backlog) /\ operation[m] = "ok")
  BY DEF D!OneOwner
<1> DEFINE A == {k \in Calls : m \in ToSet(deferred[k])}
           B == {c \in Conversations : m \in ToSet(hold[c])}
           C == IF m \in ToSet(backlog) THEN 1 ELSE 0
<1>1. D!Places(m) = Cardinality(A) + Cardinality(B) + C
  <2>1. /\ {k \in Calls : m \in D!ToSet(deferred[k])} = A
        /\ {c \in Conversations : m \in D!ToSet(hold[c])} = B
        /\ (IF m \in D!ToSet(backlog) THEN 1 ELSE 0) = C
    BY DEF D!ToSet, ToSet
  <2>2. D!Cardinality(A) = Cardinality(A) /\ D!Cardinality(B) = Cardinality(B)
    BY Zenon DEF D!Cardinality, Cardinality
  <2> HIDE DEF A, B, C
  <2> QED BY <2>1, <2>2 DEF D!Places
<1>2. Cardinality({}) = 0 /\ \A x : Cardinality({x}) = 1
  BY FS_EmptySet, FS_Singleton
<1>3. \A k, q \in A : k = q
  BY Apart
<1>4. \A c, d \in B : c = d
  BY Apart
<1>5. (A = {} /\ Cardinality(A) = 0) \/ (A # {} /\ Cardinality(A) = 1)
  BY <1>2, <1>3
<1>6. (B = {} /\ Cardinality(B) = 0) \/ (B # {} /\ Cardinality(B) = 1)
  BY <1>2, <1>4
<1>7. /\ A = {} \/ B = {}
      /\ m \in ToSet(backlog) => A = {} /\ B = {}
      /\ m \in OnTheWay <=> A # {} \/ B # {} \/ m \in ToSet(backlog)
      /\ m \in Waits <=> A # {} \/ B # {}
  <2>1. A = {} \/ B = {}
    BY DEF ListInv, ListsInOrder, Ahead
  <2>2. m \in Waits <=> A # {} \/ B # {}
    BY DEF Waits
  <2>3. m \in ToSet(backlog) => m \notin Waits
    BY BacklogIsApart
  <2> QED BY <2>1, <2>2, <2>3 DEF OnTheWay
<1> HIDE DEF A, B
<1>8. CASE fate[m] = "kept"
  <2>1. m \in OnTheWay
    BY <1>8 DEF MessageInv, Tracked
  <2>2. Cardinality(A) + Cardinality(B) + C = 1
    BY <1>5, <1>6, <1>7, <2>1
  <2> QED BY <1>1, <1>8, <2>2
<1>9. CASE fate[m] # "kept"
  <2>1. m \notin Waits /\ (m \in ToSet(backlog) => operation[m] = "ok")
    BY <1>9 DEF MessageInv, Tracked
  <2>2. CASE m \in ToSet(backlog)
    <3>1. operation[m] = "ok" /\ backlog # <<>> /\ m = backlog[1]
      BY <2>1, <2>2 DEF MessageInv, OneCall
    <3>2. Head(backlog) = backlog[1]
      <4>1. backlog \in Seq(Messages)
        BY DEF ListInv, ListTypes
      <4> QED BY <3>1, <4>1
    <3> QED BY <1>9, <3>1, <3>2
  <2>3. CASE m \notin ToSet(backlog)
    <3>1. Cardinality(A) + Cardinality(B) + C = 0
      BY <1>5, <1>6, <1>7, <2>1, <2>3
    <3> QED BY <1>1, <1>9, <3>1
  <2> QED BY <2>2, <2>3
<1> QED BY <1>8, <1>9

LEMMA InvariantsHold ==
  ASSUME RequestInv, ScopeInv, MessagesInv
  PROVE  BrokerInv
<1>1. /\ ListInv /\ MessageInv /\ GrantTypes /\ DeliveryTypes /\ BatchTypes
      /\ RequestTypes /\ R!NoGrantAfterTurn /\ ScopesAreBatches
  BY DEF MessagesInv, RequestInv, ScopeInv
<1>2. R!TypeOK
  BY <1>1 DEF RequestTypes, GrantTypes, R!TypeOK
<1>3. released \in [Messages -> Nat] /\ D!ReleasedOnce
  BY <1>1 DEF DeliveryTypes, D!ReleasedOnce
<1>4. D!TypeOK
  BY <1>1, <1>3 DEF RequestTypes, GrantTypes, DeliveryTypes, ListInv, ListTypes, MessageInv, MessageTypes,
     D!TypeOK
<1>5. TypeOK
  BY <1>1, <1>2, <1>4 DEF RequestTypes, BatchTypes, TypeOK
<1>6. D!OneOwner
  BY <1>1, OwnedOnce DEF RequestTypes
<1>7. D!BacklogHasRoom
  <2>1. HasRoom
    BY <1>1 DEF MessageInv
  <2>2. D!DeferredCount <= Capacity
    BY <1>1, <2>1, Counting DEF HasRoom
  <2> QED BY <2>2 DEF D!BacklogHasRoom, D!DeferredCount
<1> QED BY <1>1, <1>3, <1>4, <1>5, <1>6, <1>7 DEF BrokerInv, D!DeferInv

-----------------------------------------------------------------------------
(* What a step may not do to a message.                                     *)

\* What has been handled stays handled, in the order of the conversation.
LEMMA HandledInOrder ==
  ASSUME RequestInv, MessagesInv, [Next]_vars, NEW m \in Messages
  PROVE  /\ fate[m] \notin {"unseen", "kept"} => fate'[m] = fate[m]
         /\ fate[m] # "sunk" /\ fate'[m] = "sunk" =>
              \A n \in Messages : n > m /\ DeferredIn[n] = DeferredIn[m] => fate[n] # "sunk"
<1>1. ListInv /\ MessageInv /\ claim \subseteq Messages /\ fate \in [Messages -> D!Fates]
  BY DEF MessagesInv, DeliveryTypes, MessageInv, MessageTypes
<1>2. \/ UNCHANGED fate
      \/ \E n \in Messages, x \in {"kept", "passed"} : fate[n] = "unseen" /\ fate' = [fate EXCEPT ![n] = x]
      \/ \E n \in Messages, x \in {"sunk", "failed"} : fate[n] = "kept" /\ fate' = [fate EXCEPT ![n] = x]
      \/ \E taken \in SUBSET Messages :
           /\ \A n \in taken : fate[n] = "kept"
           /\ fate' = [n \in Messages |-> IF n \in taken THEN "extracted" ELSE fate[n]]
  BY <1>1, FateSteps
<1>3. fate[m] \notin {"unseen", "kept"} => fate'[m] = fate[m]
  BY <1>1, <1>2
<1>4. fate[m] # "sunk" /\ fate'[m] = "sunk" => fate[m] = "kept"
  BY <1>1, <1>2
<1>5. fate[m] = "kept" =>
        \A n \in Messages : n > m /\ DeferredIn[n] = DeferredIn[m] => fate[n] # "sunk"
  <2>1. \A n \in Messages : fate[n] = "sunk" /\ m < n /\ DeferredIn[m] = DeferredIn[n] => fate[m] # "kept"
    BY <1>1 DEF MessageInv, SunkInOrder
  <2>2. \A n \in Messages : n > m <=> m < n
    OBVIOUS
  <2> QED BY <2>1, <2>2
<1> QED BY <1>3, <1>4, <1>5

\* A cancellation ends when none of its deliveries is on its way.
LEMMA SettledFacts ==
  ASSUME MessagesInv, [Next]_vars, claim # {}, claim' = {}, NEW m \in claim, m \in ToSet(backlog)
  PROVE  fate'[m] # "kept"
<1>1. /\ ListInv /\ MessageInv /\ claim \subseteq Messages /\ Called
      /\ phase \in [Messages -> {"queued", "sink", "failure"}]
  BY DEF MessagesInv, DeliveryTypes
<1>2. CASE D!Settle
  <2>1. D!InProgress(claim) = {} /\ D!TakeOut(D!ExtractableOf(claim))
    BY <1>2 DEF D!Settle
  <2>2. fate' = [n \in Messages |-> IF n \in D!ExtractableOf(claim) THEN "extracted" ELSE fate[n]]
    BY <2>1 DEF D!TakeOut
  <2>3. m \in Messages /\ m \in D!ToSet(backlog)
    BY <1>1 DEF D!ToSet, ToSet
  <2>4. CASE m \in D!ExtractableOf(claim)
    BY <2>2, <2>3, <2>4
  <2>5. CASE m \notin D!ExtractableOf(claim)
    <3>1. phase[m] # "failure" /\ ~(phase[m] = "sink" /\ operation[m] = "running")
      BY <2>1, <2>3 DEF D!InProgress
    <3>2. operation[m] = "ok"
      BY <1>1, <2>3, <2>5, <3>1 DEF D!ExtractableOf, D!Extractable, Called
    <3>3. fate[m] # "kept"
      BY <1>1, <2>3, <3>2 DEF MessageInv, OneCall
    <3> QED BY <2>2, <2>3, <2>5, <3>3
  <2> QED BY <2>4, <2>5
<1>3. CASE ~D!Settle
  <2>1. UNCHANGED claim
    <3>1. CASE DeliveryMoves
      BY <1>3, <3>1 DEF DeliveryMoves, DeliveryStep, D!WorkerStep, D!LoopStep, D!Deliver, D!OperationEnds,
         D!Finish, D!WorkerResumes, D!Defer, D!ExtractSession, D!ExtractTurn, D!Extract, D!deliveryVars
    <3>2. CASE \E b \in Batches : BatchStep(b)
      BY <3>2 DEF BatchStep, Deny, Begin, ReviewEnds, AutoApproved, Ask, Presented, RequestEnds, ScopeEnds,
         Executed, Interrupt, D!BeginScope, D!Register, D!Unregister, D!EndScope, D!deliveryVars,
         brokerVars, deferVars
    <3>3. CASE \/ \E k \in Calls : CallStarts(k) \/ CallEnds(k) \/ Expire(k)
               \/ \E c \in Conversations :
                    \/ Enable(c) \/ Revoke(c)
                    \/ \E k \in Calls, action \in R!Approvals \cup {"rejected"} : Decide(c, k, action)
               \/ \E t \in Turns : TurnEnds(t)
               \/ Close \/ UNCHANGED vars
      BY <3>3 DEF CallStarts, CallEnds, Expire, Enable, Revoke, Decide, TurnEnds, Close, D!Close,
         vars, brokerVars, deferVars
    <3> QED BY <3>1, <3>2, <3>3 DEF Next
  <2> QED BY <2>1
<1> QED BY <1>2, <1>3

\* While a batch of the conversation is being decided, nothing leaves its hold.
LEMMA NothingPasses ==
  ASSUME ToolsAssumption, MessagesInv, RequestInv', ScopeInv', [Next]_vars,
         NEW m \in Messages, m \notin ToSet(backlog), m \in ToSet(backlog'),
         NEW b \in Batches, step'[b] \in Deciding, ConversationOf[b] = ConversationOf[m]
  PROVE  closed'
<1> SUFFICES ASSUME ~closed' PROVE FALSE
  OBVIOUS
<1> DEFINE c == ConversationOf[m]
<1>1. c \in Conversations /\ scopes'[c] = 0
  BY BacklogGrows, MessageConversation DEF MessagesInv
<1>2. Cardinality({d \in Batches : ConversationOf[d] = c /\ step'[d] \in Deciding}) = 0
  BY <1>1 DEF ScopeInv, ScopesAreBatches
<1>3. IsFiniteSet({d \in Batches : ConversationOf[d] = c /\ step'[d] \in Deciding})
  BY FS_Subset DEF ToolsAssumption
<1>4. {d \in Batches : ConversationOf[d] = c /\ step'[d] \in Deciding} = {}
  BY <1>2, <1>3, FS_EmptySet
<1> QED BY <1>4

-----------------------------------------------------------------------------
(* The theorems.                                                            *)

LEMMA InitIInv == ToolsAssumption /\ Init => IInv
<1> SUFFICES ASSUME ToolsAssumption, Init PROVE IInv
  OBVIOUS
<1>1. PICK w \in Workloads :
        /\ D!Init(w.messages) /\ R!Init(Turns \ {BatchTurn[b] : b \in w.batches})
        /\ step = [b \in Batches |-> IF b \in w.batches THEN "new" ELSE "executed"]
        /\ revoked = {}
  BY DEF Init
<1>2. RequestTypes
  BY <1>1 DEF R!Init, RequestTypes, Ended
<1>3. \A k \in Calls : ~Asked(k)
  BY <1>1 DEF R!Init, Asked
<1>4. PendingIsAsked
  BY <1>1, <1>3 DEF R!Init, PendingIsAsked, ToSet
<1>5. OneAtATime
  BY <1>3 DEF OneAtATime
<1>6. LiveTurns /\ GivenUp
  BY <1>1 DEF LiveTurns, Live, Deciding, Approving, GivenUp
<1>7. R!NoGrantAfterTurn
  BY <1>1 DEF R!Init, R!NoGrantAfterTurn
<1>8. \A c \in Conversations :
        {b \in Batches : ConversationOf[b] = c /\ step[b] \in Deciding} = {}
  BY <1>1 DEF Deciding, Approving
<1>9. ScopeInv
  BY <1>1, <1>8, FS_EmptySet DEF D!Init, ScopeInv, ScopesAreBatches
<1> QED BY <1>2, <1>4, <1>5, <1>6, <1>7, <1>9, InitMessages DEF IInv, RequestInv

LEMMA Invariance == Spec => []IInv
<1>1. ToolsAssumption
  BY ToolsAssumption
<1>2. Init => IInv
  BY <1>1, InitIInv
<1>3. IInv /\ [Next]_vars => IInv'
  BY <1>1, NextPreservesRequests, NextPreservesScopes, MessagesInvariance DEF IInv
<1> QED BY <1>2, <1>3, PTL DEF Spec

\* A batch that waits for the user when its approvals are revoked, its session is
\* stopped or the broker closes runs none of its calls, whatever it had covered
\* before (tool_executor.py:221-255, intervention.py:560).
THEOREM RevokedBatchesStop == Spec => []RevocationStopsBatches
<1>1. IInv => RevocationStopsBatches
  BY DEF IInv, RequestInv, GivenUp, RevocationStopsBatches, Approving
<1> QED BY <1>1, Invariance, PTL

\* A turn that is over has no grant, and a decision that comes late gives it none.
THEOREM GrantsEndWithTurns == Spec => []R!NoGrantAfterTurn
<1>1. IInv => R!NoGrantAfterTurn
  BY DEF IInv, RequestInv
<1> QED BY <1>1, Invariance, PTL

\* The broker counts the batches of each conversation that are being decided,
\* with every number of nested and concurrent batches.
THEOREM ScopesAreCounted == Spec => []ScopesAreBatches
<1>1. IInv => ScopesAreBatches
  BY DEF IInv, ScopeInv
<1> QED BY <1>1, Invariance, PTL

\* A request ends, or waits on with its decision.
LEMMA DecisionsStay ==
  ASSUME ToolsAssumption, RequestInv, [Next]_vars, NEW k \in Calls,
         future[k] # "open", stage'[k] # "ended"
  PROVE  future'[k] = future[k]
<1>1. ASSUME NEW b \in Batches, BatchStep(b), RequestEnds(b) \/ Interrupt(b), ~UNCHANGED future
      PROVE  future'[k] = future[k]
  <2>1. PICK j \in AskedFor(b) : /\ stage' = [stage EXCEPT ![j] = "ended"]
                                 /\ future' = [future EXCEPT ![j] = "open"]
    BY <1>1 DEF RequestEnds, Interrupt, R!PromptFails, R!Decided, R!Interrupt, R!End,
                brokerVars, requestVars
  <2>2. k # j
    BY <2>1 DEF RequestInv, RequestTypes
  <2> QED BY <2>1, <2>2 DEF RequestInv, RequestTypes
<1>2. ASSUME NEW b \in Batches, BatchStep(b), ~(RequestEnds(b) \/ Interrupt(b))
      PROVE  UNCHANGED future
  BY <1>2 DEF BatchStep, Deny, Begin, ReviewEnds, AutoApproved, Ask, Presented, ScopeEnds, Executed,
       R!Suspend, R!Prompted, brokerVars, requestVars
<1>3. CASE \E c \in Conversations, j \in Calls, action \in R!Approvals \cup {"rejected"} :
             Decide(c, j, action)
  <2>1. PICK j \in Calls, x \in R!Decisions : future[j] = "open" /\ future' = [future EXCEPT ![j] = x]
    BY <1>3 DEF Decide, R!ResolvePending, R!IsCurrent, R!OpenRequests, R!Decisions
  <2> QED BY <2>1 DEF RequestInv, RequestTypes
<1>4. CASE \/ \E c \in Conversations : Revoke(c)
           \/ \E t \in Turns : TurnEnds(t)
           \/ Close
  <2>1. \E S : R!Settle(S)
    BY <1>4 DEF Revoke, R!Revoke, R!CancelSession, TurnEnds, R!CancelTurn, R!SettleTurn, Close, R!Close
  <2> QED BY <2>1, SettleFacts
<1>5. CASE \/ \E j \in Calls : CallStarts(j) \/ CallEnds(j) \/ Expire(j)
           \/ \E c \in Conversations : Enable(c)
           \/ DeliveryMoves
           \/ UNCHANGED vars
  BY <1>5 DEF CallStarts, CallEnds, Expire, R!Expire, Enable, R!ResolveIdle, DeliveryMoves, vars,
       brokerVars, requestVars
<1> QED BY <1>1, <1>2, <1>3, <1>4, <1>5 DEF Next

\* A request has one decision: neither a second answer, a revocation nor close()
\* takes back what the user was told while suspend() is about to return it.
THEOREM DecisionsAreFinal == Spec => R!DecidedOnce
<1>1. RequestInv /\ [Next]_vars =>
        \A r \in Calls : future[r] # "open" /\ stage'[r] # "ended" => future'[r] = future[r]
  BY ToolsAssumption, DecisionsStay
<1>2. IInv => RequestInv
  BY DEF IInv
<1>3. IInv /\ [Next]_vars =>
        [\A r \in Calls : future[r] # "open" /\ stage'[r] # "ended" => future'[r] = future[r]]_R!vars
  BY <1>1, <1>2
<1> QED BY <1>3, Invariance, PTL DEF Spec, R!DecidedOnce, R!vars

\* An approval that the user was told of while suspend() waits covers its call,
\* unless the task of the batch is cancelled before it reads the answer
\* (intervention.py:431-443).
THEOREM ApprovalsCount == Spec => AnswersCount
<1> DEFINE Counts ==
      \A k \in Calls :
        /\ stage[k] = "waiting" /\ stage'[k] = "ended" /\ k \notin stricter
        /\ future[k] \in R!Approvals
        => k \in covered' \/ step'[BatchOf[k]] = "cancelling"
<1>1. ASSUME ToolsAssumption, RequestInv, [Next]_vars, NEW k \in Calls,
             stage[k] = "waiting", stage'[k] = "ended", k \notin stricter, future[k] \in R!Approvals
      PROVE  k \in covered' \/ step'[BatchOf[k]] = "cancelling"
  <2>1. PICK b \in Batches : BatchStep(b) /\ (RequestEnds(b) \/ Interrupt(b) \/ Ask(b) \/ Presented(b))
                             /\ ~UNCHANGED stage
    <3>1. ~UNCHANGED stage
      BY <1>1
    <3> QED BY <1>1, <3>1 DEF Next, BatchStep, Deny, Begin, ReviewEnds, AutoApproved, ScopeEnds, Executed,
         CallStarts, CallEnds, Expire, R!Expire, Enable, R!ResolveIdle, DeliveryMoves,
         Decide, R!ResolvePending, Revoke, R!Revoke, R!CancelSession, TurnEnds, R!CancelTurn, Close,
         R!Close, vars, brokerVars, requestVars
  <2>2. /\ k \in AskedFor(b) /\ step[b] \in Approving
        /\ \/ R!Decided(k) /\ IF R!DecisionOf(k) \in R!Approvals
                              THEN Recheck(b, k)
                              ELSE step' = [step EXCEPT ![b] = "aborting"] /\ UNCHANGED covered
           \/ step' = [step EXCEPT ![b] = "cancelling"]
    <3>1. CASE RequestEnds(b)
      <4>1. PICK j \in AskedFor(b) :
              \/ R!PromptFails(j)
              \/ R!Decided(j) /\ IF R!DecisionOf(j) \in R!Approvals
                                 THEN Recheck(b, j)
                                 ELSE step' = [step EXCEPT ![b] = "aborting"] /\ UNCHANGED covered
        BY <3>1 DEF RequestEnds
      <4>2. stage' = [stage EXCEPT ![j] = "ended"]
        BY <4>1 DEF R!PromptFails, R!Decided, R!End
      <4>3. j = k /\ ~R!PromptFails(j)
        BY <1>1, <4>2 DEF RequestInv, RequestTypes, R!PromptFails
      <4> QED BY <3>1, <4>1, <4>3 DEF RequestEnds
    <3>2. CASE Interrupt(b)
      <4>1. PICK j \in AskedFor(b) : R!Interrupt(j)
        BY <2>1, <3>2 DEF Interrupt, brokerVars, requestVars
      <4>2. step[b] \in Approving /\ step' = [step EXCEPT ![b] = "cancelling"]
        BY <2>1, <3>2 DEF Interrupt, brokerVars, requestVars
      <4>3. stage' = [stage EXCEPT ![j] = "ended"]
        BY <4>1 DEF R!Interrupt, R!End
      <4>4. j = k
        BY <1>1, <4>3 DEF RequestInv, RequestTypes
      <4> QED BY <4>1, <4>2, <4>4
    <3>3. CASE Ask(b)
      <4>1. PICK j : \/ stage[j] = "new" /\ stage' = [stage EXCEPT ![j] = "ended"]
                     \/ stage[j] = "new" /\ stage' = [stage EXCEPT ![j] = "prompting"]
        BY <3>3 DEF Ask, R!Suspend
      <4> QED BY <1>1, <4>1 DEF RequestInv, RequestTypes
    <3>4. CASE Presented(b)
      <4>1. PICK j : stage' = [stage EXCEPT ![j] = "waiting"]
        BY <3>4 DEF Presented, R!Prompted
      <4> QED BY <1>1, <4>1 DEF RequestInv, RequestTypes
    <3> QED BY <2>1, <3>1, <3>2, <3>3, <3>4
  <2>3. BatchOf[k] = b /\ step \in [Batches -> Steps]
    <3>1. k \in CallsIn[b]
      BY <1>1, <2>2, AskedForFacts
    <3>2. BatchOf[k] = b
      BY <1>1, <3>1, BatchFacts
    <3>3. step \in [Batches -> Steps]
      BY <1>1 DEF RequestInv, RequestTypes, Steps
    <3> QED BY <3>2, <3>3
  <2>4. CASE step' = [step EXCEPT ![b] = "cancelling"]
    BY <2>3, <2>4
  <2>5. CASE R!Decided(k) /\ R!DecisionOf(k) \in R!Approvals /\ Recheck(b, k)
    BY <1>1, <2>5 DEF Recheck
  <2>6. R!DecisionOf(k) \in R!Approvals
    BY <1>1 DEF R!DecisionOf, R!Approvals
  <2> QED BY <2>2, <2>4, <2>5, <2>6
<1>2. RequestInv /\ [Next]_vars => Counts
  BY <1>1, ToolsAssumption
<1>3. IInv => RequestInv
  BY DEF IInv
<1>4. IInv /\ [Next]_vars => [Counts]_vars
  BY <1>2, <1>3
<1> QED BY <1>4, Invariance, PTL DEF Spec, AnswersCount

\* Every ordinary message that is deferred has one owner at any time, there is
\* room for all of them, each gives its admission back once, and the broker
\* counts the batches that hold them back, for any capacity, any number of
\* messages and batches and any interleaving with answers, cancellations,
\* failing sinks and close().
THEOREM BrokerIsCorrect == Spec => []BrokerInv
<1>1. IInv => BrokerInv
  BY InvariantsHold DEF IInv
<1> QED BY <1>1, Invariance, PTL

\* What the sink, the failure handler or a canceller got no other gets too,
\* whichever of them is faster (intervention.py:590-760).
THEOREM MessagesAreHandledOnce == Spec => D!HandledOnce
<1>1. IInv /\ [Next]_vars =>
        [\A m \in Messages : fate[m] \notin {"unseen", "kept"} => fate'[m] = fate[m]]_D!vars
  BY HandledInOrder DEF IInv
<1> QED BY <1>1, Invariance, PTL DEF Spec, D!HandledOnce, D!vars

\* The messages of a conversation reach the bus in the order in which they were
\* deferred, also when several requests and a batch held them in turn.
THEOREM MessagesKeepTheirOrder == Spec => D!DeferredInOrder
<1>1. IInv /\ [Next]_vars =>
        [\A m \in Messages : fate[m] # "sunk" /\ fate'[m] = "sunk" =>
           \A n \in Messages : n > m /\ DeferredIn[n] = DeferredIn[m] => fate[n] # "sunk"]_D!vars
  BY HandledInOrder DEF IInv
<1> QED BY <1>1, Invariance, PTL DEF Spec, D!DeferredInOrder, D!vars

\* A cancellation that has settled the deliveries of its turn or session leaves
\* none of them on its way.
THEOREM CancellationsSettle == Spec => D!SettledIsOver
<1>1. IInv /\ [Next]_vars =>
        [claim # {} /\ claim' = {} =>
           \A m \in claim : m \in D!ToSet(backlog) => fate'[m] # "kept"]_D!vars
  <2>1. D!ToSet(backlog) = ToSet(backlog)
    BY DEF D!ToSet, ToSet
  <2> QED BY <2>1, SettledFacts DEF IInv
<1> QED BY <1>1, Invariance, PTL DEF Spec, D!SettledIsOver, D!vars

\* While calls of a conversation are being decided no ordinary message of it goes
\* back to the bus, with any number of nested and concurrent batches.
THEOREM MessagesWaitForDecisions == Spec => HeldUntilDecided
<1>1. IInv /\ IInv' /\ [Next]_vars =>
        [\A m \in Messages : m \notin ToSet(backlog) /\ m \in ToSet(backlog') =>
           closed' \/ \A b \in Batches : step'[b] \in Deciding => ConversationOf[b] # ConversationOf[m]]_vars
  BY NothingPasses, ToolsAssumption DEF IInv
<1> QED BY <1>1, Invariance, PTL DEF Spec, HeldUntilDecided

\* A request has one decision, a message one owner and its place in the order,
\* and waits for the decisions.
THEOREM DecidedAndHandled == Spec => DecidedAndHandledOnce
BY DecisionsAreFinal, ApprovalsCount, MessagesAreHandledOnce, MessagesKeepTheirOrder,
   CancellationsSettle, MessagesWaitForDecisions, PTL DEF DecidedAndHandledOnce
=============================================================================
