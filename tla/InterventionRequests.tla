------------------------ MODULE InterventionRequests ------------------------
(***************************************************************************)
(* nanocat/application/intervention.py: tool calls that wait for the       *)
(* user's decision.                                                        *)
(*                                                                         *)
(* suspend() registers a request, awaits the prompt's delivery, then the   *)
(* decision or the timeout; resolve() and the cancellations complete the   *)
(* request's future from other tasks.  The broker's lock is never held     *)
(* across an await, so each locked block is one action.  The messages      *)
(* deferred meanwhile are modelled by DeferredDelivery, the tool executor  *)
(* that calls suspend() by ToolBatches, which composes the three.          *)
(*                                                                         *)
(* There is one principal; a request is the identity of one suspend() call.*)
(***************************************************************************)
EXTENDS Integers, FiniteSets, SequencesExt

CONSTANTS
  Requests,       \* suspend() calls
  Conversations,
  Turns,
  Capabilities,
  ConversationOf, \* [Requests -> Conversations]
  TurnOf,         \* [Requests -> Turns]
  CapabilityOf    \* [Requests -> Capabilities]

RequestsAssumption ==
  /\ ConversationOf \in [Requests -> Conversations]
  /\ TurnOf \in [Requests -> Turns]
  /\ CapabilityOf \in [Requests -> Capabilities]

VARIABLES
  pending,     \* _pending, in the order of the dict
  stage,       \* how far each suspend() call is
  future,      \* the decision in each request's future
  reviewed,    \* requests made after an automatic review
  late,        \* requests whose expires_at has passed
  turnGrants,  \* _turn_grants
  yolo,        \* conversations with a "tool:*" session grant
  closed,      \* _closed
  over         \* history: turns whose cancel_turn() ran

grantVars == <<turnGrants, yolo>>
vars == <<pending, stage, future, reviewed, late, grantVars, closed, over>>

Approvals == {"once", "turn", "forever"}
Decisions == Approvals \cup {"rejected", "cancelled", "expired"}

TypeOK ==
  /\ pending \in Seq(Requests)
  /\ stage \in [Requests -> {"new", "prompting", "waiting", "ended"}]
  /\ future \in [Requests -> Decisions \cup {"open"}]
  /\ reviewed \subseteq Requests
  /\ late \subseteq Requests
  /\ turnGrants \subseteq Turns \X Capabilities
  /\ yolo \subseteq Conversations
  /\ closed \in BOOLEAN
  /\ over \subseteq Turns

\* Turns that are over before.
Init(past) ==
  /\ pending = <<>>
  /\ stage = [r \in Requests |-> "new"]
  /\ future = [r \in Requests |-> "open"]
  /\ reviewed = {}
  /\ late = {}
  /\ turnGrants = {}
  /\ yolo = {}
  /\ closed = FALSE
  /\ over = past

-----------------------------------------------------------------------------
(* Requests.                                                               *)

\* suspend() registers the request and presents the prompt; a closed broker
\* refuses at once.
Suspend(r, afterReview) ==
  /\ stage[r] = "new"
  /\ IF closed
     THEN stage' = [stage EXCEPT ![r] = "ended"] /\ UNCHANGED <<pending, reviewed>>
     ELSE /\ stage' = [stage EXCEPT ![r] = "prompting"]
          /\ pending' = Append(pending, r)
          /\ reviewed' = IF afterReview THEN reviewed \cup {r} ELSE reviewed
  /\ UNCHANGED <<future, late, grantVars, closed, over>>

\* The clock passes expires_at.
Expire(r) ==
  /\ stage[r] \in {"prompting", "waiting"} /\ r \notin late
  /\ late' = late \cup {r}
  /\ UNCHANGED <<pending, stage, future, reviewed, grantVars, closed, over>>

Position(r) == CHOOSE i \in DOMAIN pending : pending[i] = r

\* The end of suspend(): its finally block forgets the request.
End(r) ==
  /\ stage' = [stage EXCEPT ![r] = "ended"]
  /\ pending' = RemoveAt(pending, Position(r))
  /\ future' = [future EXCEPT ![r] = "open"]
  /\ reviewed' = reviewed \ {r} /\ late' = late \ {r}
  /\ UNCHANGED <<grantVars, closed, over>>

\* _request_user() returned: the prompt is with the user.
Prompted(r) ==
  /\ stage[r] = "prompting" /\ r \notin late
  /\ stage' = [stage EXCEPT ![r] = "waiting"]
  /\ UNCHANGED <<pending, future, reviewed, late, grantVars, closed, over>>

\* A failed delivery, or an expired prompt, ends the request whatever its
\* future holds.
PromptFails(r) == stage[r] = "prompting" /\ End(r)

\* The wait for the decision returns it; a timeout decides "expired" if the
\* future is still open when the lock is taken.
DecisionOf(r) == IF future[r] = "open" THEN "expired" ELSE future[r]
Over(r) == future[r] # "open" \/ r \in late
Decided(r) == stage[r] = "waiting" /\ Over(r) /\ End(r)

\* The task that called suspend() is cancelled.
Interrupt(r) == stage[r] \in {"prompting", "waiting"} /\ End(r)

-----------------------------------------------------------------------------
(* Decisions of the user.                                                  *)

InConversation(c) == {r \in Requests : ConversationOf[r] = c}
OpenRequests(S) == {r \in S : r \in ToSet(pending) /\ future[r] = "open"}

\* The first open request of the conversation.
IsCurrent(r, c) ==
  LET open == OpenRequests(InConversation(c)) IN
  r \in open /\ \A q \in open : Position(r) <= Position(q)

BadSettle(S) ==     \* the requests whose prompt the user has got
  future' = [r \in Requests |-> IF r \in OpenRequests(S) /\ stage[r] = "waiting" THEN "cancelled"
                                ELSE future[r]]
Settle(S) == future' = [r \in Requests |-> IF r \in OpenRequests(S) THEN "cancelled" ELSE future[r]]

\* Approval for the whole turn is not offered after an automatic review.
Allowed(r) == (Approvals \cup {"rejected"}) \ (IF r \in reviewed THEN {"turn"} ELSE {})

\* resolve() for the current request: too late, or decided with its grant.
ResolvePending(c, r, action) ==
  /\ ~closed /\ IsCurrent(r, c) /\ action \in Allowed(r)
  /\ IF r \in late
     THEN future' = [future EXCEPT ![r] = "expired"] /\ UNCHANGED grantVars
     ELSE /\ future' = [future EXCEPT ![r] = action]
          /\ turnGrants' = IF action = "turn" THEN turnGrants \cup {<<TurnOf[r], CapabilityOf[r]>>}
                                            ELSE turnGrants
          /\ yolo' = IF action = "forever" THEN yolo \cup {c} ELSE yolo
  /\ UNCHANGED <<pending, stage, reviewed, late, closed, over>>

\* resolve() with nothing to decide: only a standing approval has an effect.
ResolveIdle(c) ==
  /\ ~closed /\ OpenRequests(InConversation(c)) = {}
  /\ yolo' = yolo \cup {c}
  /\ UNCHANGED <<pending, stage, future, reviewed, late, turnGrants, closed, over>>

\* The turn grants given in a conversation, or to a turn.
GrantsIn(c) == {TurnOf[r] : r \in InConversation(c)} \X Capabilities
GrantsTo(t) == {t} \X Capabilities

\* _revoke_session_locked(), by command, by toggling off, by rejecting while idle.
Revoke(c) ==
  /\ ~closed
  /\ yolo' = yolo \ {c}
  /\ turnGrants' = turnGrants \ GrantsIn(c)
  /\ Settle(InConversation(c))
  /\ UNCHANGED <<pending, stage, reviewed, late, closed, over>>

\* cancel_turn(), finish_turn(): nothing stays granted to the turn.
SettleTurn(t) == Settle({r \in Requests : TurnOf[r] = t})
BadGrantsLeft(t) == turnGrants
GrantsLeft(t) == turnGrants \ GrantsTo(t)
CancelTurn(t) ==
  /\ t \notin over
  /\ turnGrants' = GrantsLeft(t)
  /\ SettleTurn(t)
  /\ over' = over \cup {t}
  /\ UNCHANGED <<pending, stage, reviewed, late, yolo, closed>>

\* cancel_session()
CancelSession(c) ==
  /\ yolo' = yolo \ {c}
  /\ turnGrants' = turnGrants \ GrantsIn(c)
  /\ Settle(InConversation(c))
  /\ UNCHANGED <<pending, stage, reviewed, late, closed, over>>

-----------------------------------------------------------------------------

\* close(): every request is settled, every grant forgotten.
Close ==
  /\ ~closed
  /\ closed' = TRUE
  /\ turnGrants' = {} /\ yolo' = {}
  /\ Settle(Requests)
  /\ UNCHANGED <<pending, stage, reviewed, late, over>>

-----------------------------------------------------------------------------
(* Properties.                                                             *)

\* A turn that was cancelled or finished has no grant, and a decision that
\* arrives late gives it none.
NoGrantAfterTurn == \A t \in over : turnGrants \cap GrantsTo(t) = {}

\* A request is decided once: neither a second answer, a revocation nor close()
\* takes back what the user was told while suspend() is about to return it.
DecidedOnce ==
  [][\A r \in Requests : future[r] # "open" /\ stage'[r] # "ended" => future'[r] = future[r]]_vars

=============================================================================
