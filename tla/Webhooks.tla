------------------------------ MODULE Webhooks ------------------------------
(***************************************************************************)
(* Webhook deliveries (services/webhook_service.ts): dispatch inserts a    *)
(* delivery and sends it; runs of tenant:webhooks:retry, which cron starts *)
(* and nothing keeps from overlapping, read the due ones and send them in  *)
(* slices; an admin may send one again. A send works from the copy it was  *)
(* given: request, answer, save.                                           *)
(***************************************************************************)
EXTENDS Naturals, FiniteSets

CONSTANTS
  Deliveries,
  OldSecret,   \* deliveries whose hook's secret a new APP_KEY cannot decrypt
  Runs,        \* retry runs that may overlap
  MaxAttempts, \* MAX_ATTEMPTS
  Concurrency, \* RETRY_CONCURRENCY
  BatchLimit,  \* limit of the query for due deliveries
  MaxFaults    \* bound on the sends that die in a behaviour

ASSUME WebhooksAssumption ==
  /\ OldSecret \subseteq Deliveries
  /\ MaxAttempts \in Nat \ {0}
  /\ Concurrency \in Nat \ {0}
  /\ BatchLimit \in Nat \ {0}
  /\ MaxFaults \in Nat

\* The senders that are no retry run.
ASSUME SendersDiffer == "dispatch" \notin Runs /\ "admin" \notin Runs

VARIABLES
  status,   \* the rows' status; "retrying" is "due" once next_retry_at has passed
  attempt,  \* the rows' attempt
  sends,    \* sends in flight, each with the copy it works from
  rotated,  \* whether APP_KEY has changed
  run,      \* the copies, with their attempt, that each retry run still has to send
  requests, \* history: HTTP requests made for each delivery, until mixed
  mixed,    \* history: whether two runs overlapped, or an admin retried
  faults    \* faults so far

vars == <<status, attempt, sends, rotated, run, requests, mixed, faults>>

Statuses == {"absent", "pending", "retrying", "due", "success", "failed", "deleted"}
Senders  == Runs \cup {"dispatch", "admin"}

Send == [by : Senders, delivery : Deliveries, status : Statuses, attempt : 1..MaxAttempts]

\* Where the count of a delivery's requests stops: above what AttemptBudget allows.
MaxRequests == MaxAttempts + MaxFaults + 1

TypeOK ==
  /\ status \in [Deliveries -> Statuses]
  /\ attempt \in [Deliveries -> 1..MaxAttempts]
  /\ sends \subseteq Send
  /\ rotated \in BOOLEAN
  /\ run \in [Runs -> SUBSET (Deliveries \X (1..MaxAttempts))]
  /\ requests \in [Deliveries -> 0..MaxRequests]
  /\ mixed \in {"no", "overlap", "admin"}
  /\ faults \in 0..MaxFaults

Init ==
  /\ status = [d \in Deliveries |-> "absent"]
  /\ attempt = [d \in Deliveries |-> 1]
  /\ sends = {}
  /\ rotated = FALSE
  /\ run = [r \in Runs |-> {}]
  /\ requests = [d \in Deliveries |-> 0]
  /\ mixed = "no"
  /\ faults = 0

-----------------------------------------------------------------------------
(* Sending.                                                                *)

NewSend(by, d, s, a) == [by |-> by, delivery |-> d, status |-> s, attempt |-> a]

InFlight(by) == {s \in sends : s.by = by}

\* The deliveries of hooks whose secret send cannot decrypt. It decrypts outside
\* its try block: for these it throws, sends nothing and saves nothing.
Undecryptable == IF rotated THEN OldSecret ELSE {}
Sendable(ds) == ds \ Undecryptable

\* dispatch: insert the delivery, then send it.
Dispatch(d) ==
  /\ status[d] = "absent"
  /\ status' = [status EXCEPT ![d] = "pending"]
  /\ sends' = sends \cup {NewSend("dispatch", e, "pending", 1) : e \in Sendable({d})}
  /\ UNCHANGED <<attempt, rotated, run, requests, mixed, faults>>

\* The HTTP requests of some sends: the receivers get them. What follows up to the
\* save of an outcome shares no state and is one step with it.
Request(made) ==
  requests' = [d \in Deliveries |->
                 IF d \in {s.delivery : s \in made} /\ mixed = "no" /\ requests[d] < MaxRequests
                 THEN requests[d] + 1 ELSE requests[d]]

\* The status column of a row that is due says "retrying".
Column(s) == IF s = "due" THEN "retrying" ELSE s

\* delivery.save(): Lucid writes the columns the send changed in its copy, and
\* next_retry_at always changes when a retry is scheduled. A delivery whose
\* hook was deleted has no row to write.
Save(s, new, a) ==
  LET d == s.delivery
  IN  /\ status' = IF \/ status[d] = "deleted"
                      \/ new = Column(s.status) /\ ~(new = "retrying" /\ status[d] = "due")
                   THEN status ELSE [status EXCEPT ![d] = new]
      /\ attempt' = IF status[d] = "deleted" \/ a = s.attempt THEN attempt
                     ELSE [attempt EXCEPT ![d] = a]

\* The end of a send: its outcome is saved.
End(s, new, a) ==
  /\ Request({s})
  /\ Save(s, new, a)
  /\ sends' = sends \ {s}
  /\ UNCHANGED <<rotated, run, mixed, faults>>

\* 2xx
Succeed(s) == End(s, "success", s.attempt)

\* Variants of ScheduleRetry: every column is written; one attempt too many.
ScheduleRetryInFull(s) ==
  /\ s.attempt < MaxAttempts
  /\ Request({s})
  /\ status[s.delivery] # "deleted"
  /\ status' = [status EXCEPT ![s.delivery] = "retrying"]
  /\ attempt' = [attempt EXCEPT ![s.delivery] = s.attempt + 1]
  /\ sends' = sends \ {s}
  /\ UNCHANGED <<rotated, run, mixed, faults>>
\* Another status, an error or a timeout, with attempts left and without.
ScheduleRetry(s) == s.attempt < MaxAttempts /\ End(s, "retrying", s.attempt + 1)
GiveUp(s) == s.attempt = MaxAttempts /\ End(s, "failed", s.attempt)

\* What sends are made besides dispatch and one run; ends the count of requests.
Mix(what) ==
  /\ mixed' = IF mixed = "admin" THEN "admin" ELSE what
  /\ requests' = [d \in Deliveries |-> 0]

-----------------------------------------------------------------------------
(* tenant:webhooks:retry.                                                  *)

\* Variants of DueDeliveries: the last attempt counts as made; next_retry_at
\* alone is asked for, which failed deliveries still have.
DueDeliveriesBelow == {d \in Deliveries : status[d] = "due" /\ attempt[d] < MaxAttempts}
DueDeliveriesAnyStatus == {d \in Deliveries : status[d] \in {"due", "failed"}}

DueDeliveries == {d \in Deliveries : status[d] = "due"}

AtMost(n, S) == {T \in SUBSET S : Cardinality(T) = n \/ (T = S /\ Cardinality(S) < n)}

\* The run reads due deliveries, in no particular order.
StartRun(r) ==
  /\ run[r] = {}
  /\ InFlight(r) = {}
  /\ DueDeliveries # {}
  /\ \E batch \in AtMost(BatchLimit, DueDeliveries) :
       run' = [run EXCEPT ![r] = {<<d, attempt[d]>> : d \in batch}]
  /\ IF \E q \in Runs : run[q] # {} \/ InFlight(q) # {}
     THEN Mix("overlap") ELSE UNCHANGED <<mixed, requests>>
  /\ UNCHANGED <<status, attempt, sends, rotated, faults>>

\* mapConcurrent: the next slice starts when the last one has settled; one
\* send that throws rejects the whole run, and the rest of it is not sent.
StartSlice(r) ==
  /\ InFlight(r) = {}
  /\ run[r] # {}
  /\ \E slice \in AtMost(Concurrency, run[r]) :
       LET sent == {c \in slice : c[1] \notin Undecryptable}
       IN  /\ sends' = sends \cup {NewSend(r, c[1], "due", c[2]) : c \in sent}
           /\ run' = [run EXCEPT ![r] = IF sent = slice THEN @ \ slice ELSE {}]
  /\ UNCHANGED <<status, attempt, rotated, requests, mixed, faults>>

\* POST .../deliveries/:deliveryId/retry, whatever the delivery's status (once,
\* a bound).
RetryDelivery(d) ==
  /\ status[d] \notin {"absent", "deleted"}
  /\ mixed # "admin"
  /\ sends' = sends \cup {NewSend("admin", e, status[d], attempt[d]) : e \in Sendable({d})}
  /\ Mix("admin")
  /\ UNCHANGED <<status, attempt, rotated, run, faults>>

\* deleteWebhook: the foreign key deletes the hook's deliveries with it.
DeleteWebhook(d) ==
  /\ status[d] \notin {"absent", "deleted"}
  /\ status' = [status EXCEPT ![d] = "deleted"]
  /\ attempt' = [attempt EXCEPT ![d] = 1]
  /\ UNCHANGED <<sends, rotated, run, requests, mixed, faults>>

-----------------------------------------------------------------------------
\* next_retry_at passes.
BecomeDue(d) ==
  /\ status[d] = "retrying"
  /\ status' = [status EXCEPT ![d] = "due"]
  /\ UNCHANGED <<attempt, sends, rotated, run, requests, mixed, faults>>

\* An operator deploys a new APP_KEY.
RotateKey ==
  /\ ~rotated
  /\ OldSecret # {}
  /\ rotated' = TRUE
  /\ UNCHANGED <<status, attempt, sends, run, requests, mixed, faults>>

\* The save throws: the outcome is not stored, and a retry run rejects as it does
\* for a secret. The sends of its slice go on.
Fail(s) ==
  /\ faults < MaxFaults
  /\ faults' = faults + 1
  /\ Request({s})
  /\ sends' = sends \ {s}
  /\ run' = [r \in Runs |-> IF r = s.by THEN {} ELSE run[r]]
  /\ UNCHANGED <<status, attempt, rotated, mixed>>

\* A process dies, and with it some sends, each before or after its request.
Die(dying) ==
  /\ faults < MaxFaults
  /\ faults' = faults + 1
  /\ \E made \in SUBSET dying : Request(made)
  /\ sends' = sends \ dying
  /\ run' = [r \in Runs |-> IF \E s \in dying : s.by = r THEN {} ELSE run[r]]
  /\ UNCHANGED <<status, attempt, rotated, mixed>>

Settle(s) == Succeed(s) \/ ScheduleRetry(s) \/ GiveUp(s)

Next ==
  \/ \E d \in Deliveries : Dispatch(d) \/ BecomeDue(d) \/ RetryDelivery(d) \/ DeleteWebhook(d)
  \/ \E s \in sends : Settle(s) \/ Fail(s) \/ (s.by \notin Runs /\ Die({s}))
  \/ \E r \in Runs : StartRun(r) \/ StartSlice(r) \/ (InFlight(r) # {} /\ Die(InFlight(r)))
  \/ RotateKey

Spec == Init /\ [][Next]_vars

\* A step of retry run r, or cron starting it anew.
RunStep(r) == StartRun(r) \/ StartSlice(r) \/ \E s \in InFlight(r) : Settle(s)

\* Cron starts the retry runs, whose sends have a timeout; time passes.
FairSpec ==
  /\ Spec
  /\ \A r \in Runs : WF_vars(RunStep(r))
  /\ WF_vars(\E d \in Deliveries : BecomeDue(d))

-----------------------------------------------------------------------------
(* Properties.                                                             *)

\* While no two runs overlap and no admin retries, a receiver gets a delivery at
\* most MAX_ATTEMPTS times, and once more for each send that died before its
\* outcome was stored.
AttemptBudget == mixed = "no" => \A d \in Deliveries : requests[d] <= MaxAttempts + faults

\* However retry runs overlap, a delivery that succeeded is not scheduled
\* again: the late save of a failed duplicate leaves the status column alone.
\* (An admin's retry of a pending delivery may: the status it saves differs.)
SuccessIsNotRetried ==
  [][\A d \in Deliveries : mixed # "admin" /\ status[d] = "success" => status'[d] \notin {"retrying", "due"}]_vars

\* A delivery whose first attempt failed ends as success or failed, or with its
\* hook, however retry runs overlap and whichever sends die, as long as APP_KEY
\* decrypts the secrets of the hooks.
EveryRetrySettles ==
  \A d \in Deliveries :
    (status[d] \in {"retrying", "due"})
      ~> (rotated \/ status[d] \in {"success", "failed", "deleted"})

\* "Process pending webhook retries for all tenants"
\* (commands/tenant_webhooks_retry.ts): no due delivery waits forever while
\* the command runs from cron.
RetriesReachEveryone ==
  \A d \in Deliveries \ OldSecret : (status[d] = "due") ~> (status[d] # "due")
=============================================================================
