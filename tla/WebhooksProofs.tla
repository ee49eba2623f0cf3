--------------------------- MODULE WebhooksProofs ---------------------------
(***************************************************************************)
(* Proofs about Webhooks, for any number of deliveries, retry runs and     *)
(* attempts: its types; that a delivery that succeeded is not scheduled    *)
(* again, however runs overlap; and the budget of attempts.                *)
(***************************************************************************)
EXTENDS Webhooks, TLAPS

-----------------------------------------------------------------------------
(* Types.                                                                  *)

\* What a send in flight, and a copy that a run holds, consist of.
LEMMA SendFields ==
  ASSUME TypeOK, NEW s \in sends
  PROVE  /\ s \in Send
         /\ s.by \in Senders /\ s.delivery \in Deliveries
         /\ s.status \in Statuses /\ s.attempt \in 1..MaxAttempts
BY DEF TypeOK, Send

LEMMA CopyFields ==
  ASSUME TypeOK, NEW r \in Runs, NEW c \in run[r]
  PROVE  c[1] \in Deliveries /\ c[2] \in 1..MaxAttempts /\ c = <<c[1], c[2]>>
BY DEF TypeOK

LEMMA NewSendFields ==
  ASSUME NEW by \in Senders, NEW d \in Deliveries, NEW st \in Statuses, NEW a \in 1..MaxAttempts
  PROVE  /\ NewSend(by, d, st, a) \in Send
         /\ NewSend(by, d, st, a).by = by /\ NewSend(by, d, st, a).delivery = d
         /\ NewSend(by, d, st, a).status = st /\ NewSend(by, d, st, a).attempt = a
BY DEF NewSend, Send

AtMostOneMore == \A d \in Deliveries : requests'[d] \in Nat /\ requests'[d] <= requests[d] + 1
OthersKeep(made) ==
  \A d \in Deliveries : (\A s \in made : s.delivery # d) => requests'[d] = requests[d]

\* The counts of requests, of which some are one higher.
LEMMA RequestCounts ==
  ASSUME TypeOK, NEW made \in SUBSET sends, Request(made)
  PROVE  /\ requests' \in [Deliveries -> 0..MaxRequests]
         /\ AtMostOneMore /\ OthersKeep(made)
<1>1. MaxRequests \in Nat
  BY WebhooksAssumption DEF MaxRequests
<1>2. \A d \in Deliveries : /\ requests[d] \in 0..MaxRequests /\ requests'[d] \in 0..MaxRequests
                           /\ requests'[d] \in Nat /\ requests'[d] <= requests[d] + 1
  BY <1>1 DEF TypeOK, Request
<1>4. \A d \in Deliveries : (\A s \in made : s.delivery # d) => requests'[d] = requests[d]
  BY DEF Request
<1>3. requests' = [d \in Deliveries |-> requests'[d]]
  BY Zenon DEF Request
<1>5. requests' \in [Deliveries -> 0..MaxRequests]
  BY <1>2, <1>3
<1> QED
  BY <1>2, <1>4, <1>5 DEF AtMostOneMore, OthersKeep

\* What the save of an outcome leaves.
LEMMA SaveTypes ==
  ASSUME TypeOK, NEW s \in sends, NEW new \in Statuses, NEW a \in 1..MaxAttempts,
         End(s, new, a)
  PROVE  /\ status' \in [Deliveries -> Statuses]
         /\ attempt' \in [Deliveries -> 1..MaxAttempts]
         /\ requests' \in [Deliveries -> 0..MaxRequests]
         /\ sends' = sends \ {s}
         /\ UNCHANGED <<rotated, run, mixed, faults>>
<1>1. s.delivery \in Deliveries
  BY SendFields
<1>2. requests' \in [Deliveries -> 0..MaxRequests]
  BY RequestCounts DEF End
<1> QED
  BY <1>1, <1>2 DEF TypeOK, End, Save

LEMMA Constants ==
  /\ MaxAttempts \in Nat \ {0} /\ MaxFaults \in Nat /\ MaxRequests \in Nat
  /\ MaxRequests = MaxAttempts + MaxFaults + 1
  /\ 1 \in 1..MaxAttempts
BY WebhooksAssumption DEF MaxRequests

LEMMA SettleTypes ==
  ASSUME TypeOK, NEW s \in sends, Settle(s)
  PROVE  \E new \in {"success", "retrying", "failed"}, a \in 1..MaxAttempts :
           /\ End(s, new, a)
           /\ new = "retrying" => a = s.attempt + 1
           /\ new # "retrying" => a = s.attempt
<1>1. s.attempt \in 1..MaxAttempts
  BY SendFields
<1>2. CASE Succeed(s)
  BY <1>1, <1>2 DEF Succeed
<1>3. CASE ScheduleRetry(s)
  <2>1. s.attempt + 1 \in 1..MaxAttempts
    BY <1>1, <1>3, Constants DEF ScheduleRetry
  <2> QED
    BY <1>3, <2>1 DEF ScheduleRetry
<1>4. CASE GiveUp(s)
  BY <1>1, <1>4 DEF GiveUp
<1> QED
  BY <1>2, <1>3, <1>4 DEF Settle

LEMMA InitTypes == Init => TypeOK
<1> SUFFICES ASSUME Init PROVE TypeOK
  OBVIOUS
<1>1. 0 \in 0..MaxFaults /\ 0 \in 0..MaxRequests /\ "absent" \in Statuses
  BY Constants DEF Statuses
<1>2. requests \in [Deliveries -> 0..MaxRequests] /\ attempt \in [Deliveries -> 1..MaxAttempts]
  BY <1>1, Constants DEF Init
<1>3. status \in [Deliveries -> Statuses] /\ run \in [Runs -> SUBSET (Deliveries \X (1..MaxAttempts))]
  BY <1>1 DEF Init
<1> QED
  BY <1>1, <1>2, <1>3 DEF Init, TypeOK

LEMMA MixTypes ==
  ASSUME TypeOK, NEW what \in {"overlap", "admin"}, Mix(what)
  PROVE  /\ mixed' \in {"overlap", "admin"} /\ requests' \in [Deliveries -> 0..MaxRequests]
BY Constants DEF Mix, TypeOK

\* Every step keeps the types.
LEMMA NextTypes == TypeOK /\ [Next]_vars => TypeOK'
<1> SUFFICES ASSUME TypeOK, [Next]_vars PROVE TypeOK'
  OBVIOUS
<1>1. ASSUME NEW d \in Deliveries, Dispatch(d) PROVE TypeOK'
  <2>1. \A e \in Sendable({d}) : NewSend("dispatch", e, "pending", 1) \in Send
    BY Constants, NewSendFields DEF Sendable, Senders, Statuses
  <2> QED
    BY <1>1, <2>1 DEF TypeOK, Dispatch, Statuses
<1>2. ASSUME NEW d \in Deliveries, BecomeDue(d) PROVE TypeOK'
  BY <1>2 DEF TypeOK, BecomeDue, Statuses
<1>3. ASSUME NEW d \in Deliveries, RetryDelivery(d) PROVE TypeOK'
  <2>1. \A e \in Sendable({d}) : NewSend("admin", e, status[d], attempt[d]) \in Send
    BY NewSendFields DEF Sendable, Senders, TypeOK
  <2> QED
    BY <1>3, <2>1, MixTypes DEF TypeOK, RetryDelivery
<1>4. ASSUME NEW d \in Deliveries, DeleteWebhook(d) PROVE TypeOK'
  BY <1>4, Constants DEF TypeOK, DeleteWebhook, Statuses
<1>5. ASSUME NEW s \in sends, Settle(s) PROVE TypeOK'
  <2>1. PICK new \in {"success", "retrying", "failed"}, a \in 1..MaxAttempts : End(s, new, a)
    BY <1>5, SettleTypes
  <2>2. new \in Statuses
    BY DEF Statuses
  <2> QED
    BY <2>1, <2>2, SaveTypes DEF TypeOK
<1>6. ASSUME NEW s \in sends, Fail(s) PROVE TypeOK'
  <2>1. requests' \in [Deliveries -> 0..MaxRequests]
    BY <1>6, RequestCounts DEF Fail
  <2> QED
    BY <1>6, <2>1, Constants DEF TypeOK, Fail
<1>11. ASSUME NEW dying \in SUBSET sends, Die(dying) PROVE TypeOK'
  <2>1. requests' \in [Deliveries -> 0..MaxRequests]
    BY <1>11, RequestCounts DEF Die
  <2> QED
    BY <1>11, <2>1, Constants DEF TypeOK, Die
<1>7. ASSUME NEW r \in Runs, StartRun(r) PROVE TypeOK'
  <2>1. PICK batch \in AtMost(BatchLimit, DueDeliveries) :
          run' = [run EXCEPT ![r] = {<<d, attempt[d]>> : d \in batch}]
    BY <1>7 DEF StartRun
  <2>2. batch \subseteq Deliveries
    BY DEF AtMost, DueDeliveries
  <2>3. {<<d, attempt[d]>> : d \in batch} \subseteq Deliveries \X (1..MaxAttempts)
    BY <2>2 DEF TypeOK
  <2>4. run' \in [Runs -> SUBSET (Deliveries \X (1..MaxAttempts))]
    BY <2>1, <2>3 DEF TypeOK
  <2>5. /\ mixed' \in {"no", "overlap", "admin"}
        /\ requests' \in [Deliveries -> 0..MaxRequests]
    BY <1>7, MixTypes DEF StartRun, TypeOK
  <2> QED
    BY <1>7, <2>4, <2>5 DEF TypeOK, StartRun
<1>8. ASSUME NEW r \in Runs, StartSlice(r) PROVE TypeOK'
  <2>1. PICK slice \in AtMost(Concurrency, run[r]) :
          LET sent == {c \in slice : c[1] \notin Undecryptable}
          IN  /\ sends' = sends \cup {NewSend(r, c[1], "due", c[2]) : c \in sent}
              /\ run' = [run EXCEPT ![r] = IF sent = slice THEN @ \ slice ELSE {}]
    BY <1>8 DEF StartSlice
  <2>2. slice \subseteq run[r]
    BY DEF AtMost
  <2>3. \A c \in slice : NewSend(r, c[1], "due", c[2]) \in Send
    BY <2>2, CopyFields, NewSendFields DEF Senders, Statuses
  <2> QED
    BY <1>8, <2>1, <2>3 DEF TypeOK, StartSlice
<1>9. CASE RotateKey
  BY <1>9 DEF TypeOK, RotateKey
<1>10. CASE UNCHANGED vars
  BY <1>10 DEF TypeOK, vars
<1> QED
  BY <1>1, <1>2, <1>3, <1>4, <1>5, <1>6, <1>7, <1>8, <1>9, <1>10, <1>11 DEF Next, InFlight

\* The rows, the copies of sends and runs, and the counters keep their types, whatever
\* the deliveries, the runs and the bounds.
THEOREM TypeCorrect == Spec => []TypeOK
BY InitTypes, NextTypes, PTL DEF Spec

-----------------------------------------------------------------------------
(* Who holds a copy of a delivery, until an admin retries one.             *)

\* A send of dispatch works on a delivery that is pending, and a retry run on one that
\* has been due, unless it was deleted meanwhile.
SentBy(s) ==
  \/ /\ s.by = "dispatch" /\ s.status = "pending" /\ s.attempt = 1
     /\ status[s.delivery] \in {"pending", "deleted"}
  \/ /\ s.by \in Runs /\ s.status = "due"
     /\ status[s.delivery] \notin {"absent", "pending"}

HolderInv ==
  mixed # "admin" =>
    /\ \A s \in sends : SentBy(s)
    /\ \A r \in Runs : \A c \in run[r] : status[c[1]] \notin {"absent", "pending"}

\* What the end of a send leaves in the rows: those of other deliveries as they were, its
\* own unless it was deleted with the outcome, but for a due copy that another has settled.
LEMMA EndOfSend ==
  ASSUME TypeOK, HolderInv, mixed # "admin", NEW s \in sends,
         NEW new \in {"success", "retrying", "failed"}, NEW a \in 1..MaxAttempts,
         End(s, new, a)
  PROVE  /\ \A d \in Deliveries \ {s.delivery} : status'[d] = status[d] /\ attempt'[d] = attempt[d]
         /\ status[s.delivery] = "deleted" => status'[s.delivery] = "deleted"
         /\ status[s.delivery] # "deleted" =>
              \/ status'[s.delivery] = new
              \/ /\ new = "retrying" /\ s.by \in Runs /\ status[s.delivery] # "due"
                 /\ status'[s.delivery] = status[s.delivery]
         /\ status[s.delivery] # "deleted" /\ a # s.attempt => attempt'[s.delivery] = a
<1>1. s.delivery \in Deliveries /\ SentBy(s) /\ Save(s, new, a)
  BY SendFields DEF HolderInv, End
<1>2. status \in [Deliveries -> Statuses] /\ attempt \in [Deliveries -> 1..MaxAttempts]
  BY DEF TypeOK
<1> QED
  BY <1>1, <1>2, SendersDiffer DEF SentBy, Save, Column

LEMMA HolderInit == Init => HolderInv
BY DEF Init, HolderInv

LEMMA HolderNext == TypeOK /\ HolderInv /\ [Next]_vars => HolderInv'
<1> SUFFICES ASSUME TypeOK, HolderInv, [Next]_vars, mixed' # "admin" PROVE HolderInv'
  BY DEF HolderInv
<1> USE DEF SentBy
<1>1. ASSUME NEW d \in Deliveries, Dispatch(d) PROVE HolderInv'
  <2>1. mixed # "admin" /\ HolderInv
    BY <1>1 DEF Dispatch
  <2>2. status'[d] = "pending" /\ \A e \in Deliveries \ {d} : status'[e] = status[e]
    BY <1>1 DEF Dispatch, TypeOK
  <2>3. ASSUME NEW s \in sends' PROVE SentBy(s)'
    <3>1. CASE s \in sends
      BY <1>1, <2>1, <2>2, <3>1, SendFields DEF HolderInv, Dispatch
    <3>2. CASE s = NewSend("dispatch", d, "pending", 1)
      BY <2>2, <3>2 DEF NewSend
    <3> QED
      BY <1>1, <3>1, <3>2 DEF Dispatch, Sendable
  <2>4. ASSUME NEW r \in Runs, NEW c \in run'[r] PROVE status'[c[1]] \notin {"absent", "pending"}
    BY <1>1, <2>1, <2>2, CopyFields DEF HolderInv, Dispatch
  <2> QED
    BY <2>3, <2>4 DEF HolderInv
<1>2. ASSUME NEW d \in Deliveries, BecomeDue(d) PROVE HolderInv'
  BY <1>2, SendFields, CopyFields DEF HolderInv, BecomeDue, TypeOK
<1>3. ASSUME NEW d \in Deliveries, RetryDelivery(d) PROVE HolderInv'
  BY <1>3 DEF RetryDelivery, Mix
<1>4. ASSUME NEW d \in Deliveries, DeleteWebhook(d) PROVE HolderInv'
  BY <1>4, SendFields, CopyFields DEF HolderInv, DeleteWebhook, TypeOK
<1>5. ASSUME NEW s \in sends, Settle(s) PROVE HolderInv'
  <2>1. PICK new \in {"success", "retrying", "failed"}, a \in 1..MaxAttempts : End(s, new, a)
    BY <1>5, SettleTypes
  <2>2. mixed # "admin" /\ sends' = sends \ {s} /\ run' = run
    BY <2>1 DEF End
  <2>3. \A d \in Deliveries \ {s.delivery} : status'[d] = status[d]
    BY <2>1, <2>2, EndOfSend
  <2>4. /\ status'[s.delivery] \in {"success", "retrying", "failed", status[s.delivery]}
        /\ status[s.delivery] = "deleted" => status'[s.delivery] = "deleted"
    BY <2>1, <2>2, EndOfSend
  <2>5. ASSUME NEW t \in sends, t # s PROVE SentBy(t)'
    <3>1. SentBy(s) /\ SentBy(t)
      BY <2>2 DEF HolderInv
    <3>2. CASE t.delivery # s.delivery
      BY <2>3, <3>1, <3>2, SendFields
    <3>3. CASE t.delivery = s.delivery /\ t.by \in Runs
      BY <2>4, <3>1, <3>3, SendersDiffer
    <3>4. CASE t.delivery = s.delivery /\ t.by = "dispatch"
      <4>1. s.by # "dispatch"
        BY <2>5, <3>1, <3>4, SendersDiffer, SendFields DEF Send
      <4> QED
        BY <2>4, <3>1, <3>4, <4>1
    <3> QED
      BY <3>1, <3>2, <3>3, <3>4
  <2>6. ASSUME NEW r \in Runs, NEW c \in run[r] PROVE status'[c[1]] \notin {"absent", "pending"}
    BY <2>2, <2>3, <2>4, CopyFields DEF HolderInv
  <2> QED
    BY <2>2, <2>5, <2>6 DEF HolderInv
<1>6. ASSUME NEW s \in sends, Fail(s) PROVE HolderInv'
  BY <1>6 DEF HolderInv, Fail
<1>11. ASSUME NEW dying \in SUBSET sends, Die(dying) PROVE HolderInv'
  BY <1>11 DEF HolderInv, Die
<1>7. ASSUME NEW r \in Runs, StartRun(r) PROVE HolderInv'
  <2>1. PICK batch \in AtMost(BatchLimit, DueDeliveries) :
          run' = [run EXCEPT ![r] = {<<d, attempt[d]>> : d \in batch}]
    BY <1>7 DEF StartRun
  <2>2. \A d \in batch : status[d] = "due"
    BY DEF AtMost, DueDeliveries
  <2>3. mixed # "admin" /\ UNCHANGED <<status, sends>>
    BY <1>7 DEF StartRun, Mix
  <2>4. ASSUME NEW q \in Runs, NEW c \in run'[q] PROVE status[c[1]] \notin {"absent", "pending"}
    BY <2>1, <2>2, <2>3 DEF HolderInv, TypeOK
  <2> QED
    BY <2>3, <2>4 DEF HolderInv
<1>8. ASSUME NEW r \in Runs, StartSlice(r) PROVE HolderInv'
  <2>1. PICK slice \in AtMost(Concurrency, run[r]) :
          LET sent == {c \in slice : c[1] \notin Undecryptable}
          IN  /\ sends' = sends \cup {NewSend(r, c[1], "due", c[2]) : c \in sent}
              /\ run' = [run EXCEPT ![r] = IF sent = slice THEN @ \ slice ELSE {}]
    BY <1>8 DEF StartSlice
  <2>2. slice \subseteq run[r]
    BY DEF AtMost
  <2>3. mixed # "admin" /\ UNCHANGED <<status, mixed>>
    BY <1>8 DEF StartSlice
  <2>4. ASSUME NEW s \in sends' PROVE SentBy(s)'
    BY <2>1, <2>2, <2>3 DEF HolderInv, NewSend
  <2>5. ASSUME NEW q \in Runs, NEW c \in run'[q] PROVE c \in run[q]
    BY <2>1 DEF TypeOK
  <2> QED
    BY <2>3, <2>4, <2>5 DEF HolderInv
<1>9. CASE RotateKey
  BY <1>9 DEF HolderInv, RotateKey
<1>10. CASE UNCHANGED vars
  BY <1>10 DEF HolderInv, vars
<1> QED
  BY <1>1, <1>2, <1>3, <1>4, <1>5, <1>6, <1>7, <1>8, <1>9, <1>10, <1>11 DEF Next, InFlight

\* However retry runs overlap, a delivery that succeeded is not scheduled again: a run
\* saves its late outcome over a copy that says "due", and leaves the status column.
LEMMA SuccessStep ==
  ASSUME TypeOK, HolderInv, [Next]_vars, NEW d \in Deliveries, mixed # "admin", status[d] = "success"
  PROVE  status'[d] \notin {"retrying", "due"}
<1>1. ASSUME NEW s \in sends, Settle(s) PROVE status'[d] \notin {"retrying", "due"}
  <2>1. PICK new \in {"success", "retrying", "failed"}, a \in 1..MaxAttempts : End(s, new, a)
    BY <1>1, SettleTypes
  <2>2. CASE s.delivery # d
    BY <2>1, <2>2, EndOfSend
  <2>3. CASE s.delivery = d
    <3>1. SentBy(s) /\ Save(s, new, a)
      BY <2>1 DEF HolderInv, End
    <3>2. s.status = "due"
      BY <2>3, <3>1 DEF SentBy
    <3> QED
      BY <2>3, <3>1, <3>2 DEF Save, Column, TypeOK
  <2> QED
    BY <2>2, <2>3
<1>2. ASSUME NEW e \in Deliveries, Dispatch(e) \/ BecomeDue(e) \/ RetryDelivery(e) \/ DeleteWebhook(e)
      PROVE  status'[d] \notin {"retrying", "due"}
  BY <1>2 DEF Dispatch, BecomeDue, RetryDelivery, DeleteWebhook, TypeOK
<1>3. ASSUME NEW s \in sends, Fail(s) PROVE status'[d] \notin {"retrying", "due"}
  BY <1>3 DEF Fail
<1>6. ASSUME NEW dying \in SUBSET sends, Die(dying) PROVE status'[d] \notin {"retrying", "due"}
  BY <1>6 DEF Die
<1>4. ASSUME NEW r \in Runs, StartRun(r) \/ StartSlice(r) PROVE status'[d] \notin {"retrying", "due"}
  BY <1>4 DEF StartRun, StartSlice
<1>5. CASE RotateKey \/ UNCHANGED vars
  BY <1>5 DEF RotateKey, vars
<1> QED
  BY <1>1, <1>2, <1>3, <1>4, <1>5, <1>6 DEF Next, InFlight

\* SuccessIsNotRetried, for any number of overlapping retry runs.
THEOREM SuccessStays == Spec => SuccessIsNotRetried
<1>1. TypeOK /\ HolderInv /\ [Next]_vars =>
        [\A d \in Deliveries : mixed # "admin" /\ status[d] = "success" => status'[d] \notin {"retrying", "due"}]_vars
  BY SuccessStep
<1> QED
  BY <1>1, InitTypes, NextTypes, HolderInit, HolderNext, PTL DEF Spec, SuccessIsNotRetried

-----------------------------------------------------------------------------
(* The budget of attempts, while one run at a time retries and no admin.   *)

\* Nobody else holds what a send works on, or a run has still to send, and for a run it
\* is due as long as it is there.
SingleHolder ==
  /\ \A s, t \in sends : s.delivery = t.delivery => s = t
  /\ \A r \in Runs : \A c \in run[r] : \A s \in sends : s.delivery # c[1]
  /\ \A q, r \in Runs : \A b \in run[q], c \in run[r] : b[1] = c[1] => q = r /\ b = c
  /\ \A s \in sends : s.by \in Runs => status[s.delivery] \in {"due", "deleted"}
  /\ \A r \in Runs : \A c \in run[r] : status[c[1]] \in {"due", "deleted"}

\* The request that is to come is still within the budget of its attempt: of one in
\* flight, of one that a run holds, and of one that waits.
RoomForAttempt ==
  /\ \A d \in Deliveries : requests[d] <= MaxAttempts + faults
  /\ \A s \in sends : requests[s.delivery] < s.attempt + faults
  /\ \A r \in Runs : \A c \in run[r] : requests[c[1]] < c[2] + faults
  /\ \A d \in Deliveries : status[d] = "absent" => requests[d] = 0
  /\ \A d \in Deliveries : status[d] \in {"retrying", "due"} => requests[d] < attempt[d] + faults

BudgetInv == mixed = "no" => SingleHolder /\ RoomForAttempt

LEMMA BudgetInit == Init => BudgetInv
BY Constants DEF Init, BudgetInv, SingleHolder, RoomForAttempt

\* Dispatch: the first request of a delivery that is nowhere yet.
LEMMA BudgetDispatch ==
  ASSUME TypeOK, HolderInv, mixed = "no", SingleHolder, RoomForAttempt,
         NEW d \in Deliveries, Dispatch(d)
  PROVE  SingleHolder' /\ RoomForAttempt'
<1>1. /\ status[d] = "absent" /\ requests[d] = 0 /\ faults \in Nat
      /\ status'[d] = "pending" /\ \A e \in Deliveries \ {d} : status'[e] = status[e]
      /\ UNCHANGED <<attempt, run, requests, faults>>
  BY Constants DEF Dispatch, TypeOK, RoomForAttempt
<1>2. /\ \A s \in sends : s.delivery # d
      /\ \A r \in Runs : \A c \in run[r] : c[1] # d
  BY <1>1 DEF HolderInv, SentBy
<1>3. ASSUME NEW s \in sends' PROVE s \in sends \/ s = NewSend("dispatch", d, "pending", 1)
  BY DEF Dispatch, Sendable
<1>4. LET s == NewSend("dispatch", d, "pending", 1)
      IN  s.delivery = d /\ s.by = "dispatch" /\ s.attempt = 1
  BY DEF NewSend
<1>5. SingleHolder'
  BY <1>1, <1>2, <1>3, <1>4, SendFields, CopyFields, SendersDiffer DEF SingleHolder
<1>6. RoomForAttempt'
  BY <1>1, <1>2, <1>3, <1>4, SendFields, CopyFields DEF RoomForAttempt, TypeOK
<1> QED
  BY <1>5, <1>6

\* A send ends: its request is counted, and an attempt further a retry is scheduled.
LEMMA BudgetSettle ==
  ASSUME TypeOK, HolderInv, mixed = "no", SingleHolder, RoomForAttempt,
         NEW s \in sends, Settle(s)
  PROVE  SingleHolder' /\ RoomForAttempt'
<1>1. PICK new \in {"success", "retrying", "failed"}, a \in 1..MaxAttempts :
        /\ End(s, new, a)
        /\ new = "retrying" => a = s.attempt + 1
        /\ new # "retrying" => a = s.attempt
  BY SettleTypes
<1>2. /\ s.delivery \in Deliveries /\ s.attempt \in 1..MaxAttempts /\ faults \in Nat
      /\ requests \in [Deliveries -> Nat] /\ attempt \in [Deliveries -> Nat]
  BY SendFields, Constants DEF TypeOK
<1>3. /\ sends' = sends \ {s} /\ UNCHANGED <<run, faults, mixed>>
      /\ \A d \in Deliveries \ {s.delivery} :
           requests'[d] = requests[d] /\ status'[d] = status[d] /\ attempt'[d] = attempt[d]
      /\ requests'[s.delivery] <= requests[s.delivery] + 1
      /\ requests'[s.delivery] \in Nat
  <2>1. \A d \in Deliveries : requests'[d] \in Nat /\ requests'[d] <= requests[d] + 1
    BY <1>1, RequestCounts DEF End, AtMostOneMore
  <2>6. OthersKeep({s})
    BY <1>1, RequestCounts DEF End
  <2>2. \A d \in Deliveries \ {s.delivery} : status'[d] = status[d] /\ attempt'[d] = attempt[d]
    BY <1>1, EndOfSend
  <2>3. sends' = sends \ {s} /\ UNCHANGED <<run, faults, mixed>>
    BY <1>1 DEF End
  <2>4. requests'[s.delivery] <= requests[s.delivery] + 1 /\ requests'[s.delivery] \in Nat
    BY <1>2, <2>1
  <2>5. \A d \in Deliveries \ {s.delivery} : requests'[d] = requests[d]
    BY <2>6 DEF OthersKeep
  <2> QED
    BY <2>2, <2>3, <2>4, <2>5
<1>4. /\ \A t \in sends' : t \in sends /\ t.delivery \in Deliveries \ {s.delivery}
      /\ \A r \in Runs : \A c \in run'[r] : c \in run[r] /\ c[1] \in Deliveries \ {s.delivery}
  BY <1>3, SendFields, CopyFields DEF SingleHolder
<1>5. SingleHolder'
  BY <1>3, <1>4 DEF SingleHolder
<1>6. requests'[s.delivery] <= s.attempt + faults /\ SentBy(s)
  BY <1>2, <1>3 DEF RoomForAttempt, HolderInv
<1>7. status'[s.delivery] # "absent"
  BY <1>1, <1>6, EndOfSend DEF SentBy
<1>8. status'[s.delivery] \in {"retrying", "due"} => requests'[s.delivery] < attempt'[s.delivery] + faults
  <2>1. SUFFICES ASSUME status'[s.delivery] \in {"retrying", "due"}
                 PROVE  requests'[s.delivery] < attempt'[s.delivery] + faults
    OBVIOUS
  <2>2. status[s.delivery] # "deleted" /\ new = "retrying"
    BY <1>1, <2>1, EndOfSend
  <2>3. attempt'[s.delivery] = s.attempt + 1
    BY <1>1, <1>2, <2>2, EndOfSend
  <2> QED
    BY <1>2, <1>3, <1>6, <2>3
<1>9. RoomForAttempt'
  <2>1. \A d \in Deliveries : requests'[d] <= MaxAttempts + faults
    BY <1>2, <1>3, <1>6, Constants DEF RoomForAttempt
  <2>2. /\ \A t \in sends' : requests'[t.delivery] < t.attempt + faults
        /\ \A r \in Runs : \A c \in run'[r] : requests'[c[1]] < c[2] + faults
    BY <1>3, <1>4 DEF RoomForAttempt
  <2>3. \A d \in Deliveries : status'[d] = "absent" => requests'[d] = 0
    BY <1>3, <1>7 DEF RoomForAttempt
  <2>4. \A d \in Deliveries : status'[d] \in {"retrying", "due"} => requests'[d] < attempt'[d] + faults
    BY <1>3, <1>8 DEF RoomForAttempt
  <2> QED
    BY <1>3, <2>1, <2>2, <2>3, <2>4 DEF RoomForAttempt
<1> QED
  BY <1>5, <1>9

\* Sends are lost, and what their runs still had: the request each may have made is
\* what the fault allows for.
LEMMA BudgetLost ==
  ASSUME TypeOK, HolderInv, mixed = "no", SingleHolder, RoomForAttempt,
         NEW made \in SUBSET sends, Request(made),
         faults' = faults + 1, sends' \subseteq sends,
         \A r \in Runs : run'[r] \subseteq run[r],
         UNCHANGED <<status, attempt>>
  PROVE  SingleHolder' /\ RoomForAttempt'
<1>1. /\ faults \in Nat
      /\ requests \in [Deliveries -> Nat] /\ attempt \in [Deliveries -> Nat]
  BY Constants DEF TypeOK
<1>2. \A d \in Deliveries : requests'[d] \in Nat /\ requests'[d] <= requests[d] + 1
  BY RequestCounts DEF AtMostOneMore
<1>3. /\ \A t \in sends' : t \in sends /\ t.delivery \in Deliveries /\ t.attempt \in Nat
      /\ \A r \in Runs : \A c \in run'[r] : c \in run[r] /\ c[1] \in Deliveries /\ c[2] \in Nat
  BY SendFields, CopyFields, Constants
<1>4. SingleHolder'
  BY <1>3 DEF SingleHolder
<1>5. \A s \in made : status[s.delivery] # "absent"
  BY DEF HolderInv, SentBy
<1>6. RoomForAttempt'
  <2>1. \A d \in Deliveries : requests'[d] <= MaxAttempts + faults'
    BY <1>1, <1>2, Constants DEF RoomForAttempt
  <2>2. /\ \A t \in sends' : requests'[t.delivery] < t.attempt + faults'
        /\ \A r \in Runs : \A c \in run'[r] : requests'[c[1]] < c[2] + faults'
    BY <1>1, <1>2, <1>3 DEF RoomForAttempt
  <2>3. \A d \in Deliveries : status'[d] = "absent" => requests'[d] = 0
    <3>1. SUFFICES ASSUME NEW d \in Deliveries, status[d] = "absent" PROVE requests'[d] = 0
      OBVIOUS
    <3>2. \A s \in made : s.delivery # d
      BY <1>5, <3>1
    <3>3. requests'[d] = requests[d]
      BY <3>2, RequestCounts DEF OthersKeep
    <3> QED
      BY <3>1, <3>3 DEF RoomForAttempt
  <2>4. \A d \in Deliveries : status'[d] \in {"retrying", "due"} => requests'[d] < attempt'[d] + faults'
    BY <1>1, <1>2 DEF RoomForAttempt
  <2> QED
    BY <2>1, <2>2, <2>3, <2>4 DEF RoomForAttempt
<1> QED
  BY <1>4, <1>6

\* A run reads what is due, when no other is under way.
LEMMA BudgetStartRun ==
  ASSUME TypeOK, HolderInv, mixed = "no", mixed' = "no", SingleHolder, RoomForAttempt,
         NEW r \in Runs, StartRun(r)
  PROVE  SingleHolder' /\ RoomForAttempt'
<1>1. PICK batch \in AtMost(BatchLimit, DueDeliveries) :
        run' = [run EXCEPT ![r] = {<<d, attempt[d]>> : d \in batch}]
  BY DEF StartRun
<1>2. \A d \in batch : d \in Deliveries /\ status[d] = "due"
  BY DEF AtMost, DueDeliveries
<1>3. \A q \in Runs : run[q] = {} /\ InFlight(q) = {}
  BY DEF StartRun, Mix
<1>4. UNCHANGED <<status, attempt, sends, requests, faults>>
  BY <1>3 DEF StartRun
<1>5. \A s \in sends : status[s.delivery] # "due"
  BY <1>3 DEF InFlight, HolderInv, SentBy
<1>6. ASSUME NEW q \in Runs, NEW c \in run'[q]
      PROVE  q = r /\ \E d \in batch : c = <<d, attempt[d]>>
  BY <1>1, <1>3 DEF TypeOK
<1>7. SingleHolder'
  BY <1>2, <1>4, <1>5, <1>6 DEF SingleHolder
<1>8. RoomForAttempt'
  BY <1>2, <1>4, <1>6 DEF RoomForAttempt
<1> QED
  BY <1>7, <1>8

\* What a run has held until now is in flight, or it holds it still.
LEMMA BudgetStartSlice ==
  ASSUME TypeOK, SingleHolder, RoomForAttempt, NEW r \in Runs, StartSlice(r)
  PROVE  SingleHolder' /\ RoomForAttempt'
<1>1. PICK slice \in AtMost(Concurrency, run[r]) :
        LET sent == {c \in slice : c[1] \notin Undecryptable}
        IN  /\ sends' = sends \cup {NewSend(r, c[1], "due", c[2]) : c \in sent}
            /\ run' = [run EXCEPT ![r] = IF sent = slice THEN @ \ slice ELSE {}]
  BY DEF StartSlice
<1>2. slice \subseteq run[r]
  BY DEF AtMost
<1>3. UNCHANGED <<status, attempt, requests, faults>>
  BY DEF StartSlice
<1>4. ASSUME NEW s \in sends'
      PROVE  \/ s \in sends
             \/ \E c \in slice : /\ s = NewSend(r, c[1], "due", c[2])
                                 /\ s.by = r /\ s.delivery = c[1] /\ s.attempt = c[2]
  BY <1>1 DEF NewSend
<1>5. ASSUME NEW q \in Runs, NEW c \in run'[q] PROVE c \in run[q] /\ (q = r => c \notin slice)
  BY <1>1 DEF TypeOK
<1>6. SingleHolder'
  <2>1. \A s, t \in sends' : s.delivery = t.delivery => s = t
    BY <1>2, <1>4 DEF SingleHolder
  <2>2. \A q \in Runs : \A c \in run'[q] : \A s \in sends' : s.delivery # c[1]
    BY <1>2, <1>4, <1>5 DEF SingleHolder
  <2>3. \A p, q \in Runs : \A b \in run'[p], c \in run'[q] : b[1] = c[1] => p = q /\ b = c
    BY <1>5 DEF SingleHolder
  <2>4. /\ \A s \in sends' : s.by \in Runs => status[s.delivery] \in {"due", "deleted"}
        /\ \A q \in Runs : \A c \in run'[q] : status[c[1]] \in {"due", "deleted"}
    BY <1>2, <1>4, <1>5 DEF SingleHolder
  <2> QED
    BY <1>3, <2>1, <2>2, <2>3, <2>4 DEF SingleHolder
<1>7. RoomForAttempt'
  <2>1. /\ \A s \in sends' : requests[s.delivery] < s.attempt + faults
        /\ \A q \in Runs : \A c \in run'[q] : requests[c[1]] < c[2] + faults
    BY <1>2, <1>4, <1>5 DEF RoomForAttempt
  <2> QED
    BY <1>3, <2>1 DEF RoomForAttempt
<1> QED
  BY <1>6, <1>7

LEMMA BudgetNext == TypeOK /\ HolderInv /\ BudgetInv /\ [Next]_vars => BudgetInv'
<1> SUFFICES ASSUME TypeOK, HolderInv, BudgetInv, [Next]_vars, mixed' = "no"
             PROVE  SingleHolder' /\ RoomForAttempt'
  BY DEF BudgetInv
<1>1. mixed = "no" /\ SingleHolder /\ RoomForAttempt
  BY DEF Next, vars, Dispatch, BecomeDue, RetryDelivery, DeleteWebhook, Settle, Succeed, ScheduleRetry,
         GiveUp, End, Fail, Die, StartRun, StartSlice, RotateKey, Mix, BudgetInv, TypeOK
<1>2. ASSUME NEW d \in Deliveries, Dispatch(d) PROVE SingleHolder' /\ RoomForAttempt'
  BY <1>1, <1>2, BudgetDispatch
<1>3. ASSUME NEW d \in Deliveries, BecomeDue(d) PROVE SingleHolder' /\ RoomForAttempt'
  <2>1. /\ status[d] = "retrying" /\ status'[d] = "due"
        /\ \A e \in Deliveries \ {d} : status'[e] = status[e]
        /\ UNCHANGED <<attempt, sends, run, requests, faults>>
    BY <1>3 DEF BecomeDue, TypeOK
  <2>2. SingleHolder'
    BY <1>1, <2>1, SendFields, CopyFields DEF SingleHolder
  <2>3. RoomForAttempt'
    BY <1>1, <2>1, SendFields, CopyFields DEF RoomForAttempt
  <2> QED
    BY <2>2, <2>3
<1>4. ASSUME NEW d \in Deliveries, RetryDelivery(d) PROVE FALSE
  BY <1>4 DEF RetryDelivery, Mix
<1>5. ASSUME NEW d \in Deliveries, DeleteWebhook(d) PROVE SingleHolder' /\ RoomForAttempt'
  <2>1. /\ status'[d] = "deleted"
        /\ \A e \in Deliveries \ {d} : status'[e] = status[e] /\ attempt'[e] = attempt[e]
        /\ UNCHANGED <<sends, run, requests, faults>>
    BY <1>5 DEF DeleteWebhook, TypeOK
  <2>2. SingleHolder'
    BY <1>1, <2>1, SendFields, CopyFields DEF SingleHolder
  <2>3. RoomForAttempt'
    BY <1>1, <2>1, SendFields, CopyFields DEF RoomForAttempt
  <2> QED
    BY <2>2, <2>3
<1>6. ASSUME NEW s \in sends, Settle(s) PROVE SingleHolder' /\ RoomForAttempt'
  BY <1>1, <1>6, BudgetSettle
<1>7. ASSUME NEW s \in sends, Fail(s) PROVE SingleHolder' /\ RoomForAttempt'
  BY <1>1, <1>7, BudgetLost, {s} \in SUBSET sends DEF Fail
<1>12. ASSUME NEW dying \in SUBSET sends, Die(dying) PROVE SingleHolder' /\ RoomForAttempt'
  <2>1. PICK made \in SUBSET dying : Request(made)
    BY <1>12 DEF Die
  <2> QED
    BY <1>1, <1>12, <2>1, BudgetLost, made \in SUBSET sends DEF Die
<1>8. ASSUME NEW r \in Runs, StartRun(r) PROVE SingleHolder' /\ RoomForAttempt'
  BY <1>1, <1>8, BudgetStartRun
<1>9. ASSUME NEW r \in Runs, StartSlice(r) PROVE SingleHolder' /\ RoomForAttempt'
  BY <1>1, <1>9, BudgetStartSlice
<1>10. CASE RotateKey
  BY <1>1, <1>10 DEF SingleHolder, RoomForAttempt, RotateKey
<1>11. CASE UNCHANGED vars
  BY <1>1, <1>11 DEF SingleHolder, RoomForAttempt, vars
<1> QED
  BY <1>2, <1>3, <1>4, <1>5, <1>6, <1>7, <1>8, <1>9, <1>10, <1>11, <1>12 DEF Next, InFlight

\* AttemptBudget, for any number of deliveries, attempts and faults: a receiver gets a
\* delivery MAX_ATTEMPTS times at the most, and once more for each send that died.
THEOREM BudgetHolds == Spec => []AttemptBudget
<1>1. BudgetInv => AttemptBudget
  BY DEF BudgetInv, RoomForAttempt, AttemptBudget
<1> QED
  BY <1>1, InitTypes, NextTypes, HolderInit, HolderNext, BudgetInit, BudgetNext, PTL DEF Spec
=============================================================================
