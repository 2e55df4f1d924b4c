------------------------------- MODULE Outbox -------------------------------
(***************************************************************************)
(* The dispatcher of the e-mail outbox: process_outbox of application/     *)
(* event_service.py, as tools/process_outbox.py runs it again and again.   *)
(*                                                                         *)
(* Each element of Dispatcher is a process that an operator may start      *)
(* while others run.  A run claims a batch of due entries, row locks and   *)
(* all, works through it, talking to the SMTP server for each entry, and   *)
(* commits once at its end.  Letters cannot be taken back when the run is  *)
(* lost before that.                                                       *)
(*                                                                         *)
(* Time is counted in units of the base delay of a retry.  An entry keeps  *)
(* how long it still has to wait (available_at), a run how long it has     *)
(* lasted, because it reckons with the time of its start.                  *)
(*                                                                         *)
(* Entries are queued as pending, the default of queue_email.  Those of    *)
(* invitations are not: they are queued as suppressed and delivered by the *)
(* routes (module Household), and no dispatcher claims them.               *)
(***************************************************************************)
EXTENDS Integers, Sequences, FiniteSets

CONSTANTS
  Dispatcher,   \* processes
  EntryId,      \* email_outbox_entry rows in the order of created_at, a range 1..n
  Limit,        \* entries a run claims at most (--limit)
  MaxAttempts,  \* MAX_DELIVERY_ATTEMPTS
  MaxDelay,     \* the cap of the delay, in units of the base delay
  MaxMishaps,   \* bound on lost runs and lost answers: they are not lost for ever
  Nobody

ASSUME OutboxAssumption ==
  /\ EntryId \subseteq Nat /\ {Limit, MaxAttempts, MaxDelay} \subseteq Nat \ {0}
  /\ MaxMishaps \in Nat /\ Nobody \notin Dispatcher

VARIABLES
  outbox_entry,           \* email_outbox_entry: status, attempts, wait
  email_delivery_intent,  \* the outcomes recorded for each entry, in order
  lock,                   \* holders of the row locks
  stage,                  \* "idle" or "running"
  enabled,                \* settings.email_delivery_enabled of the run
  batch,                  \* entries the run has still to handle
  handled,                \* what the run has written of each entry, uncommitted
  elapsed,                \* time since the run began, up to MaxDelay
  letters,                \* letters the SMTP server took for each entry
  mishaps                 \* history: runs and answers that were lost

table == <<outbox_entry, email_delivery_intent>>
run == <<lock, stage, enabled, batch, handled, elapsed>>
outbox_vars == <<table, run, letters, mishaps>>

Status == {"pending", "sent", "suppressed", "failed"}
NoEntry == [status |-> "absent", attempts |-> 0, wait |-> 0]
Untouched == [status |-> "absent", wait |-> 0]
Sooner(a, b) == IF a < b THEN a ELSE b

\* decide_delivery and next_attempt_delay.
decide_delivery(delivery_enabled) == IF delivery_enabled THEN "send" ELSE "suppressed"
next_attempt_delay(attempt) == Sooner(2^(attempt - 1), MaxDelay)

OutboxInit ==
  /\ outbox_entry = [e \in EntryId |-> NoEntry]
  /\ email_delivery_intent = [e \in EntryId |-> <<>>]
  /\ lock = [e \in EntryId |-> Nobody]
  /\ stage = [d \in Dispatcher |-> "idle"]
  /\ enabled = [d \in Dispatcher |-> FALSE]
  /\ batch = [d \in Dispatcher |-> {}]
  /\ handled = [d \in Dispatcher |-> [e \in EntryId |-> Untouched]]
  /\ elapsed = [d \in Dispatcher |-> 0]
  /\ letters = [e \in EntryId |-> 0]
  /\ mishaps = 0

\* queue_email: an entry that exists is left as it is.
Queue(e) ==
  /\ outbox_entry[e] = NoEntry
  /\ \A f \in EntryId : f < e => outbox_entry[f] # NoEntry
  /\ outbox_entry' = [outbox_entry EXCEPT ![e].status = "pending"]
  /\ UNCHANGED <<email_delivery_intent, run, letters, mishaps>>

(***************************************************************************)
(* The claim: pending, due and not locked (SKIP LOCKED), the oldest first. *)
(***************************************************************************)
ClaimableThoughLocked(e) ==
  outbox_entry[e].status = "pending" /\ outbox_entry[e].wait = 0
Claimable(e) ==
  /\ outbox_entry[e].status = "pending"
  /\ outbox_entry[e].wait = 0
  /\ lock[e] = Nobody

Due == {e \in EntryId : Claimable(e)}
Oldest(S) == {e \in S : Cardinality({f \in S : f < e}) < Limit}

Claim(d) ==
  LET claimed == Oldest(Due) IN
  /\ stage[d] = "idle"
  /\ claimed # {}
  /\ lock' = [e \in EntryId |-> IF e \in claimed THEN d ELSE lock[e]]
  /\ batch' = [batch EXCEPT ![d] = claimed]
  /\ stage' = [stage EXCEPT ![d] = "running"]
  /\ \E delivery_enabled \in BOOLEAN : enabled' = [enabled EXCEPT ![d] = delivery_enabled]
  /\ UNCHANGED <<table, handled, elapsed, letters, mishaps>>

\* The end of the transaction and of the run.
Ended(d) ==
  /\ lock' = [e \in EntryId |-> IF lock[e] = d THEN Nobody ELSE lock[e]]
  /\ stage' = [stage EXCEPT ![d] = "idle"]
  /\ batch' = [batch EXCEPT ![d] = {}]
  /\ handled' = [handled EXCEPT ![d] = [e \in EntryId |-> Untouched]]
  /\ enabled' = [enabled EXCEPT ![d] = FALSE]
  /\ elapsed' = [elapsed EXCEPT ![d] = 0]
-----------------------------------------------------------------------------
(***************************************************************************)
(* One entry of the batch, the oldest first.  Its row and its intent are   *)
(* flushed, not committed.                                                 *)
(***************************************************************************)
Attempt(e) == outbox_entry[e].attempts + 1

Handle(d, e, status, wait) ==
  /\ handled' = [handled EXCEPT ![d][e] = [status |-> status, wait |-> wait]]
  /\ batch' = [batch EXCEPT ![d] = @ \ {e}]
  /\ UNCHANGED <<table, lock, stage, enabled, elapsed>>

Decided(d, e, decision) ==
  /\ stage[d] = "running"
  /\ e \in batch[d] /\ \A f \in batch[d] : e <= f
  /\ decide_delivery(enabled[d]) = decision

Suppress(d, e) ==
  /\ Decided(d, e, "suppressed")
  /\ Handle(d, e, "suppressed", 0)
  /\ UNCHANGED <<letters, mishaps>>

Send(d, e) ==
  /\ Decided(d, e, "send")
  /\ Handle(d, e, "sent", 0)
  /\ letters' = [letters EXCEPT ![e] = @ + 1]
  /\ UNCHANGED mishaps

\* A failure at the cap is final; an earlier one is tried again after a delay.
HandleFailureRaised(d, e) == Ended(d) /\ UNCHANGED table
HandleFailureOnceMore(d, e) ==
  IF Attempt(e) > MaxAttempts
  THEN Handle(d, e, "failed", 0)
  ELSE Handle(d, e, "pending", next_attempt_delay(Attempt(e)))
HandleFailure(d, e) ==
  IF Attempt(e) >= MaxAttempts
  THEN Handle(d, e, "failed", 0)
  ELSE Handle(d, e, "pending", next_attempt_delay(Attempt(e)))

SendFails(d, e) ==
  /\ Decided(d, e, "send")
  /\ HandleFailure(d, e)
  /\ UNCHANGED <<letters, mishaps>>

\* The server took the letter and its answer was lost.
AnswerLost(d, e) ==
  /\ Decided(d, e, "send")
  /\ mishaps < MaxMishaps
  /\ HandleFailure(d, e)
  /\ letters' = [letters EXCEPT ![e] = @ + 1]
  /\ mishaps' = mishaps + 1

(***************************************************************************)
(* The commit of the whole batch, and a run that is lost before it.        *)
(***************************************************************************)
WrittenBy(d) == {e \in EntryId : handled[d][e] # Untouched}

Remaining(d, wait) == IF wait > elapsed[d] THEN wait - elapsed[d] ELSE 0

\* An entry that waits for its next attempt has failed for now.
Outcome(status) == IF status = "pending" THEN "failed" ELSE status

Commit(d) ==
  /\ stage[d] = "running" /\ batch[d] = {}
  /\ outbox_entry' = [e \in EntryId |->
       IF e \in WrittenBy(d)
       THEN [status |-> handled[d][e].status, attempts |-> Attempt(e),
             wait |-> Remaining(d, handled[d][e].wait)]
       ELSE outbox_entry[e]]
  /\ email_delivery_intent' = [e \in EntryId |->
       IF e \in WrittenBy(d)
       THEN Append(email_delivery_intent[e], Outcome(handled[d][e].status))
       ELSE email_delivery_intent[e]]
  /\ Ended(d)
  /\ UNCHANGED <<letters, mishaps>>

RunLost(d) ==
  /\ stage[d] = "running"
  /\ mishaps < MaxMishaps
  /\ mishaps' = mishaps + 1
  /\ Ended(d)
  /\ UNCHANGED <<table, letters>>

Tick ==
  /\ outbox_entry' = [e \in EntryId |->
       [outbox_entry[e] EXCEPT !.wait = IF @ = 0 THEN 0 ELSE @ - 1]]
  /\ elapsed' = [d \in Dispatcher |->
       IF stage[d] = "running" THEN Sooner(elapsed[d] + 1, MaxDelay) ELSE 0]
  /\ UNCHANGED <<email_delivery_intent, lock, stage, enabled, batch, handled, letters, mishaps>>

Dispatch(d) == \E e \in EntryId : Suppress(d, e) \/ Send(d, e) \/ SendFails(d, e)

OutboxNext ==
  \/ \E e \in EntryId : Queue(e)
  \/ \E d \in Dispatcher :
       \/ Claim(d) \/ Dispatch(d) \/ Commit(d) \/ RunLost(d)
       \/ \E e \in EntryId : AnswerLost(d, e)
  \/ Tick

\* The dispatcher is started again and again, and a run goes on unless it is
\* lost: a letter is sent, refused or given up when smtp_timeout_seconds are
\* over.  Time passes.
Fairness ==
  /\ WF_outbox_vars(\E d \in Dispatcher : Claim(d))
  /\ \A d \in Dispatcher : WF_outbox_vars(Dispatch(d)) /\ WF_outbox_vars(Commit(d))
  /\ WF_outbox_vars(Tick)

OutboxSpec == OutboxInit /\ [][OutboxNext]_outbox_vars /\ Fairness
-----------------------------------------------------------------------------
\* The columns of the rows and the state of the runs.
OutboxTypeOK ==
  /\ outbox_entry \in
       [EntryId -> [status : Status \cup {"absent"}, attempts : Nat, wait : Int]]
  /\ email_delivery_intent \in [EntryId -> Seq({"sent", "suppressed", "failed"})]
  /\ lock \in [EntryId -> Dispatcher \cup {Nobody}]
  /\ stage \in [Dispatcher -> {"idle", "running"}]
  /\ enabled \in [Dispatcher -> BOOLEAN]
  /\ batch \in [Dispatcher -> SUBSET EntryId]
  /\ handled \in [Dispatcher -> [EntryId -> [status : Status \cup {"absent"}, wait : Int]]]
  /\ elapsed \in [Dispatcher -> Int]
  /\ letters \in [EntryId -> Nat]
  /\ mishaps \in 0..MaxMishaps

Last(s) == s[Len(s)]

\* FR-003 and FR-004: every claim that was committed has left one intent; an
\* entry is given up only at the cap, and what its row says is what its last
\* intent says, whichever run wrote it.
IntentsExplainTheEntry ==
  \A e \in EntryId :
    LET row == outbox_entry[e]
        intents == email_delivery_intent[e]
    IN
    /\ row.attempts = Len(intents) /\ row.attempts <= MaxAttempts
    /\ row.status = "failed" <=> Len(intents) = MaxAttempts /\ Last(intents) = "failed"
    /\ row.status \in {"sent", "suppressed"} => Last(intents) = row.status
    /\ row.status = "pending" => \A i \in DOMAIN intents : intents[i] = "failed"

\* US4: although runs overlap, a letter goes out once, except for every run
\* that was lost before its commit and every answer that was lost.
MailedOnceUnlessLost == \A e \in EntryId : letters[e] <= 1 + mishaps

\* FR-004: every entry is sent, suppressed or given up in the end.
EveryEntryIsSettled ==
  \A e \in EntryId :
    outbox_entry[e].status = "pending" ~> outbox_entry[e].status # "pending"
=============================================================================
