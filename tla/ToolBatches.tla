---------------------------- MODULE ToolBatches ----------------------------
(***************************************************************************)
(* nanocat/application/tool_executor.py: the batches of tool calls of turns *)
(* and subagents, over the intervention broker.                             *)
(*                                                                         *)
(* execute_batch() looks for grants, has the other calls reviewed by a      *)
(* model, asks the user for what is left, one call after the other, and     *)
(* runs the calls when all of them are covered.  Ordinary messages of the   *)
(* conversation are held back meanwhile.  The broker is the composition of  *)
(* InterventionRequests (R) and DeferredDelivery (D), which share pending   *)
(* and closed: suspend() is a step of both, and so is close().              *)
(*                                                                         *)
(* The steps between two awaits of a batch (one request's end, the next     *)
(* one's registration, the end of the scope) are actions of their own: more *)
(* interleavings than the event loop has.                                   *)
(***************************************************************************)
EXTENDS Integers, FiniteSets, SequencesExt

CONSTANTS
  Calls,          \* tool calls; a call asks at most once
  Batches,
  Messages,
  Conversations,
  Turns,          \* turns and runs of subagents
  Capabilities,
  NoTurn, NoCall,
  CallsOf,        \* [Batches -> Seq(Calls)]
  BatchTurn,      \* [Batches -> Turns]
  ParentOf,       \* [Batches -> Calls \cup {NoCall}]: the call whose subagent runs the batch
  Asking,         \* calls for which the policy requires a decision
  CapabilityOf,   \* [Calls -> Capabilities]
  ConversationOf, \* [Batches \cup Messages -> Conversations]
  MessageTurn,    \* [Messages -> Turns \cup {NoTurn}]
  Capacity,       \* _MAX_DEFERRED_MESSAGES
  Slots,          \* max_concurrent_calls
  Workloads       \* bound: batches, messages, changes of policy and whether the user acts

ToolsAssumption ==
  /\ NoTurn \notin Turns /\ NoCall \notin Calls /\ IsFiniteSet(Batches)
  /\ Calls \cap Messages = {}
  /\ CallsOf \in [Batches -> Seq(Calls)] /\ BatchTurn \in [Batches -> Turns]
  /\ \A a, b \in Batches : a # b => ToSet(CallsOf[a]) \cap ToSet(CallsOf[b]) = {}
  /\ ParentOf \in [Batches -> Calls \cup {NoCall}]
  /\ Asking \subseteq Calls /\ CapabilityOf \in [Calls -> Capabilities]
  /\ ConversationOf \in [Batches \cup Messages -> Conversations]
  /\ MessageTurn \in [Messages -> Turns \cup {NoTurn}]
  /\ Capacity \in Nat \ {0} /\ Slots \in Nat \ {0}
  /\ Workloads \subseteq [batches : SUBSET Batches, messages : SUBSET Messages,
                           stricter : SUBSET Calls, user : BOOLEAN]
ASSUME ToolsAssumption

CallsIn == [b \in Batches |-> ToSet(CallsOf[b])]
BatchOf == [k \in Calls |-> CHOOSE b \in Batches : k \in CallsIn[b]]
Place == [k \in Calls |-> CHOOSE i \in DOMAIN CallsOf[BatchOf[k]] : CallsOf[BatchOf[k]][i] = k]
CallConversation == [k \in Calls |-> ConversationOf[BatchOf[k]]]
CallTurn == [k \in Calls |-> BatchTurn[BatchOf[k]]]
DeferredIn == [x \in Calls \cup Messages |->
                 IF x \in Calls THEN CallConversation[x] ELSE ConversationOf[x]]

VARIABLES
  pending, closed,                                                  \* of R and D
  stage, future, reviewed, late, turnGrants, yolo, over,    \* of R
  scopes, deferred, hold, backlog, phase, operation, force, released, worker,
  claim, fate,                                                      \* of D
  step,       \* where execute_batch() is
  covered,    \* calls with an entry in approval_scopes
  automatic,  \* calls that the reviewer approved
  run,        \* the task of each call
  stricter,   \* calls that the policy judges otherwise when asked again
  user,       \* the user acts
  revoked     \* history: batches with an open request when it was revoked

requestVars == <<stage, future, reviewed, late, turnGrants, yolo, over>>
deferVars == <<scopes, deferred, hold, backlog, phase, operation, force, released, worker,
               claim, fate>>
brokerVars == <<pending, closed, requestVars, deferVars>>
historyVars == <<stricter, user, revoked>>
batchVars == <<step, covered, automatic, run, historyVars>>
vars == <<brokerVars, batchVars>>

R == INSTANCE InterventionRequests WITH
       Requests <- Calls, ConversationOf <- CallConversation, TurnOf <- CallTurn
D == INSTANCE DeferredDelivery WITH
       Requests <- Calls, TurnOf <- MessageTurn,
       ConversationOf <- DeferredIn

ASSUME BrokerAssumption == R!RequestsAssumption /\ D!DeliveryAssumption

Approving == {"approving", "reviewed"}   \* without and after an automatic review
Deciding == {"reviewing", "aborting", "cancelling"} \cup Approving   \* the scope is open
Ended == {"executed", "aborted", "cancelled"}

TypeOK ==
  /\ R!TypeOK /\ D!TypeOK
  /\ step \in [Batches -> {"new", "running"} \cup Deciding \cup Ended]
  /\ covered \subseteq Calls /\ automatic \subseteq Calls
  /\ run \in [Calls -> {"no", "running", "ended"}]
  /\ user \in BOOLEAN /\ stricter \subseteq Calls /\ revoked \subseteq Batches

\* What the workload leaves out has been before.
Init ==
  \E w \in Workloads :
    /\ D!Init(w.messages) /\ R!Init(Turns \ {BatchTurn[b] : b \in w.batches})
    /\ step = [b \in Batches |-> IF b \in w.batches THEN "new" ELSE "executed"]
    /\ stricter = w.stricter /\ user = w.user
    /\ covered = {} /\ automatic = {}
    /\ run = [k \in Calls |-> "no"]
    /\ revoked = {}

-----------------------------------------------------------------------------
(* Approval of a batch.                                                    *)

Live(b) == step[b] \in Deciding \cup {"running"}
Undecided(b) == {k \in CallsIn[b] : k \in Asking /\ k \notin covered}

\* The call to be decided next, if there is one, and if it waits for the user.
Current(b) == {k \in Undecided(b) : \A j \in Undecided(b) : Place[k] <= Place[j]}
AskedFor(b) == {k \in Current(b) : stage[k] \in {"prompting", "waiting"}}

\* has_session_grant() or has_turn_grant().
Granted(k) ==
  CallConversation[k] \in yolo \/ <<CallTurn[k], CapabilityOf[k]>> \in turnGrants

\* A turn, or a run of a subagent, has one batch at a time, and none after its
\* end or its cancellation.
MayBegin(b) ==
  /\ step[b] = "new" /\ BatchTurn[b] \notin over
  /\ \A a \in Batches : BatchTurn[a] = BatchTurn[b] => ~Live(a) /\ step[a] # "cancelled"
  /\ ParentOf[b] # NoCall => run[ParentOf[b]] = "running"

\* The policy denies a call: nothing of the batch runs.
Deny(b) ==
  /\ MayBegin(b)
  /\ step' = [step EXCEPT ![b] = "aborted"]
  /\ UNCHANGED <<brokerVars, covered, automatic, run, historyVars>>

\* execute_batch() up to its first await: the scope, the grants there are, and
\* the reviewer if there is one and something to review.
Begin(b) ==
  LET asking == Asking \cap CallsIn[b]
      granted == {k \in asking : Granted(k)}
  IN
  /\ MayBegin(b)
  /\ covered' = covered \cup granted
  /\ IF asking = {}
     THEN step' = [step EXCEPT ![b] = "running"] /\ UNCHANGED <<pending, closed, deferVars>>
     ELSE /\ D!BeginScope(ConversationOf[b])
          /\ \/ step' = [step EXCEPT ![b] = "approving"]
             \/ granted # asking /\ step' = [step EXCEPT ![b] = "reviewing"]
  /\ UNCHANGED <<requestVars, automatic, run, historyVars>>

\* The reviews of all calls are there.
ReviewEnds(b) ==
  /\ step[b] = "reviewing"
  /\ step' = [step EXCEPT ![b] = "reviewed"]
  /\ \E approved \in SUBSET Undecided(b) : automatic' = automatic \cup approved
  /\ UNCHANGED <<brokerVars, covered, run, historyVars>>

\* The decision for a call has approved it: it is covered if the policy still
\* judges it the same, else the batch is given up.
Recheck(b, k) ==
  IF k \in stricter
  THEN step' = [step EXCEPT ![b] = "aborting"] /\ UNCHANGED covered
  ELSE covered' = covered \cup {k} /\ UNCHANGED step

\* The reviewer has approved the next call.
AutoApproved(b) ==
  /\ step[b] = "reviewed"
  /\ \E k \in Current(b) : k \in automatic /\ Recheck(b, k)
  /\ UNCHANGED <<brokerVars, automatic, run, historyVars>>

\* _request_approval() of the next call.
Ask(b) ==
  /\ step[b] \in Approving
  /\ \E k \in Current(b) \ automatic :
       /\ R!Suspend(k, step[b] = "reviewed")
       /\ IF closed
          THEN step' = [step EXCEPT ![b] = "aborting"] /\ UNCHANGED deferVars
          ELSE D!Register(k) /\ UNCHANGED step
  /\ UNCHANGED <<covered, automatic, run, historyVars>>

Presented(b) ==
  /\ step[b] \in Approving
  /\ \E k \in AskedFor(b) : R!Prompted(k)
  /\ UNCHANGED <<deferVars, batchVars>>

\* suspend() returns without a decision, with an approval, or with another.
RequestEnds(b) ==
  /\ step[b] \in Approving
  /\ \E k \in AskedFor(b) :
       /\ \/ R!PromptFails(k) /\ step' = [step EXCEPT ![b] = "aborting"] /\ UNCHANGED covered
          \/ /\ R!Decided(k)
             /\ IF R!DecisionOf(k) \in R!Approvals
                THEN Recheck(b, k)
                ELSE step' = [step EXCEPT ![b] = "aborting"] /\ UNCHANGED covered
       /\ D!Unregister(k)
  /\ UNCHANGED <<automatic, run, historyVars>>

\* approval_scopes and the tasks of the calls end with execute_batch().
Gone(b) ==
  /\ covered' = covered \ CallsIn[b] /\ automatic' = automatic \ CallsIn[b]
  /\ run' = [k \in Calls |-> IF k \in CallsIn[b] THEN "no" ELSE run[k]]

\* The finally block; what follows it depends on how the block was left.
ScopeEnds(b) ==
  /\ step[b] \in Deciding \ {"reviewing"}
  /\ step[b] \in Approving => Undecided(b) = {}
  /\ D!EndScope(ConversationOf[b])
  /\ IF step[b] \in Approving
     THEN step' = [step EXCEPT ![b] = "running"] /\ UNCHANGED <<covered, automatic, run>>
     ELSE /\ step' = [step EXCEPT ![b] = IF @ = "aborting" THEN "aborted" ELSE "cancelled"]
          /\ Gone(b)
  /\ UNCHANGED <<requestVars, historyVars>>

-----------------------------------------------------------------------------
(* Execution.                                                              *)

\* with_registry() gives every run of a subagent an executor with slots of its
\* own: the calls that share slots.
BadSharing(k) == Calls
Sharing(k) == {j \in Calls : CallTurn[j] = CallTurn[k]}

CallStarts(k) ==
  /\ step[BatchOf[k]] = "running" /\ run[k] = "no"
  /\ Cardinality({j \in Sharing(k) : run[j] = "running"}) < Slots
  /\ run' = [run EXCEPT ![k] = "running"]
  /\ UNCHANGED <<brokerVars, step, covered, automatic, historyVars>>

\* A call that runs subagents waits for them.
Children(k) == {b \in Batches : ParentOf[b] = k /\ step[b] \notin Ended /\ BatchTurn[b] \notin over}
CallEnds(k) ==
  /\ run[k] = "running" /\ Children(k) = {}
  /\ run' = [run EXCEPT ![k] = "ended"]
  /\ UNCHANGED <<brokerVars, step, covered, automatic, historyVars>>

Executed(b) ==
  /\ step[b] = "running" /\ \A k \in CallsIn[b] : run[k] = "ended"
  /\ step' = [step EXCEPT ![b] = "executed"]
  /\ Gone(b)
  /\ UNCHANGED <<brokerVars, historyVars>>

\* The task is cancelled: in a review, in suspend() or in the calls, the
\* innermost first.
Interrupt(b) ==
  /\ \A k \in CallsIn[b], a \in Batches : ParentOf[a] = k => ~Live(a)
  /\ \/ /\ step[b] = "reviewing"
        /\ step' = [step EXCEPT ![b] = "cancelling"]
        /\ UNCHANGED <<brokerVars, covered, automatic, run>>
     \/ /\ step[b] \in Approving
        /\ \E k \in AskedFor(b) : R!Interrupt(k) /\ D!Unregister(k)
        /\ step' = [step EXCEPT ![b] = "cancelling"]
        /\ UNCHANGED <<covered, automatic, run>>
     \/ /\ step[b] = "running"
        /\ step' = [step EXCEPT ![b] = "cancelled"]
        /\ Gone(b)
        /\ UNCHANGED brokerVars
  /\ UNCHANGED historyVars

-----------------------------------------------------------------------------
(* The user, the loop and the shutdown.                                    *)

\* Batches with an open request in the conversation.
Waiting(c) == {b \in Batches : ConversationOf[b] = c /\ \E k \in AskedFor(b) : future[k] = "open"}

Decide(c, k, action) ==
  user /\ R!ResolvePending(c, k, action) /\ UNCHANGED <<deferVars, batchVars>>
Enable(c) == user /\ R!ResolveIdle(c) /\ UNCHANGED <<deferVars, batchVars>>
Revoke(c) ==
  /\ user /\ (R!Revoke(c) \/ R!CancelSession(c))
  /\ revoked' = revoked \cup Waiting(c)
  /\ UNCHANGED <<deferVars, step, covered, automatic, run, stricter, user>>
Expire(k) == R!Expire(k) /\ UNCHANGED <<deferVars, batchVars>>

\* finish_turn() ends the turn; its task has ended before a canceller calls
\* cancel_turn().
TurnEnds(t) ==
  /\ \A b \in Batches : BatchTurn[b] = t => ~Live(b)
  /\ R!CancelTurn(t) /\ UNCHANGED <<deferVars, batchVars>>

DeliveryStep ==
  D!WorkerStep \/ D!LoopStep
DeliveryMoves == DeliveryStep /\ UNCHANGED <<requestVars, batchVars>>

Close ==
  /\ R!Close /\ D!Close
  /\ revoked' = revoked \cup UNION {Waiting(c) : c \in Conversations}
  /\ UNCHANGED <<step, covered, automatic, run, stricter, user>>

BatchStep(b) ==
  \/ Deny(b) \/ Begin(b) \/ ReviewEnds(b) \/ AutoApproved(b) \/ Ask(b) \/ Presented(b)
  \/ RequestEnds(b) \/ ScopeEnds(b) \/ Executed(b) \/ Interrupt(b)

Next ==
  \/ \E b \in Batches : BatchStep(b)
  \/ \E k \in Calls : CallStarts(k) \/ CallEnds(k) \/ Expire(k)
  \/ \E c \in Conversations :
       \/ Enable(c) \/ Revoke(c)
       \/ \E k \in Calls, action \in R!Approvals \cup {"rejected"} : Decide(c, k, action)
  \/ \E t \in Turns : TurnEnds(t)
  \/ DeliveryMoves \/ Close

Spec == Init /\ [][Next]_vars

\* What happens without the user: reviews, prompts and calls end, subagents go
\* on, the clock runs.  The worker's callbacks return, and the failure handler
\* succeeds when it is tried again and again.
Proceeds(b) ==
  \/ ReviewEnds(b) \/ AutoApproved(b) \/ Ask(b) \/ Presented(b) \/ RequestEnds(b)
  \/ ScopeEnds(b) \/ Executed(b)
  \/ ParentOf[b] # NoCall /\ Begin(b)
  \/ \E k \in CallsIn[b] : CallStarts(k) \/ CallEnds(k)
Delivers(A) == A /\ UNCHANGED <<requestVars, batchVars>>
Fairness ==
  /\ WF_vars(\E b \in Batches : Proceeds(b))
  /\ WF_vars(\E k \in Calls : Expire(k))
  /\ WF_vars(Delivers(D!Deliver \/ \E m \in Messages : D!WorkerResumes(m)))
  /\ SF_vars(Delivers(\E m \in Messages : D!Finish(m, "ok")))
  /\ WF_vars(Delivers(D!Settle))

FairSpec == Spec /\ Fairness

-----------------------------------------------------------------------------
(* Properties.                                                             *)

\* The broker counts the batches of a conversation that are being decided: one
\* count too few lets messages through, one too many keeps them for ever.
ScopesAreBatches ==
  ~closed => \A c \in Conversations :
    scopes[c] = Cardinality({b \in Batches : ConversationOf[b] = c /\ step[b] \in Deciding})

\* Requests, grants, held-back messages and batches in order, whatever answers,
\* cancellations, failures and the close do.
BrokerInv == TypeOK /\ R!NoGrantAfterTurn /\ D!DeferInv /\ ScopesAreBatches

\* A batch that waits for the user when the conversation's approvals are
\* revoked, its session is stopped or the broker closes runs none of its calls,
\* also not those that were covered before: by an earlier answer, by a grant for
\* the turn or by the reviewer (tool_executor.py:221-255, intervention.py:560).
RevocationStopsBatches == \A b \in revoked : step[b] \notin {"running", "executed"}

\* While calls of a conversation are being decided no ordinary message goes
\* back to the bus, also between two requests of one batch and when the batch
\* of a subagent ends before that of the turn.
HeldUntilDecided ==
  [][\A m \in Messages : m \notin ToSet(backlog) /\ m \in ToSet(backlog') =>
       closed' \/ \A b \in Batches : step'[b] \in Deciding => ConversationOf[b] # ConversationOf[m]]_vars

\* An approval that the user was told of while suspend() waits covers its call,
\* also when the timeout fires before the answer is read
\* (intervention.py:431-443).
AnswersCount ==
  [][\A k \in Calls :
       /\ stage[k] = "waiting" /\ stage'[k] = "ended" /\ k \notin stricter
       /\ future[k] \in R!Approvals
       => k \in covered' \/ step'[BatchOf[k]] = "cancelling"]_vars

\* A request has one decision, a message one owner and its place in the order,
\* and waits for the decisions.
DecidedAndHandledOnce ==
  /\ HeldUntilDecided /\ R!DecidedOnce /\ AnswersCount
  /\ D!HandledOnce /\ D!SettledIsOver /\ D!DeferredInOrder

\* Batches end although nobody answers and calls wait for subagents that need
\* slots and decisions too, held-back messages leave the broker, cancellations
\* get their messages: again and again nothing is under way.
Quiet ==
  /\ \A b \in Batches : ~Live(b)
  /\ \A m \in Messages : fate[m] # "kept"
  /\ backlog = <<>> /\ claim = {}
NothingIsStuck == []<>Quiet

=============================================================================
