----------------------------- MODULE ScopesProofs -----------------------------
(***************************************************************************)
(* Proofs about tenant scopes and what tenants have of their own:          *)
(* BootstrapperScope, RowScope, TenantResources, Hooks, ReadReplicas and   *)
(* DatabaseDriver, for all values of their constants.                      *)
(***************************************************************************)
EXTENDS BootstrapperScope, RowScope, TenantResources, Hooks, ReadReplicas,
        DatabaseDriver, Integers, SequenceTheorems, TLAPS

-----------------------------------------------------------------------------
(***************************************************************************)
(* Tenant scopes, for any bootstrappers, registrations and scopes. What a  *)
(* scope has entered and not left is a stack over the registry's array,    *)
(* which registrations only lengthen: BootInv keeps, while nothing is      *)
(* removed under the scope, that the stack holds exactly the bootstrappers *)
(* with a leave in the array's first places, the last place on top.        *)
(***************************************************************************)

\* What is due is what has a leave in the first places of a list, the last place first.
Stacked(list, due, count) ==
  \E place \in [1..Len(due) -> 1..count] :
    /\ \A i, j \in 1..Len(due) : i < j => place[j] < place[i]
    /\ \A i \in 1..Len(due) : due[i] = list[place[i]] /\ due[i] \in WithLeave
    /\ \A p \in 1..count : list[p] \in WithLeave => \E i \in 1..Len(due) : place[i] = p

IsScope(r) ==
  r = [phase |-> r.phase, next |-> r.next, busy |-> r.busy, name |-> r.name,
       completed |-> r.completed, due |-> r.due, disturbed |-> r.disturbed]

EnteringInv(r, list) ==
  /\ r.completed \in 0..Len(list)
  /\ r.next = r.completed + 1
  /\ Stacked(list, r.due, r.completed)
  /\ r.busy => r.next <= Len(list) /\ r.name = list[r.next]

RunningInv(r, list) ==
  /\ r.completed \in 0..Len(list)
  /\ Stacked(list, r.due, r.completed)

LeavingInv(r, list) ==
  /\ r.next \in 0..Len(list)
  /\ Stacked(list, r.due, r.next)
  /\ r.busy => r.next > 0 /\ r.name = list[r.next] /\ r.name \in WithLeave

\* A scope under which nothing was removed has entered the first bootstrappers, and is to
\* leave those it has not left.
OrderInv(r, list) ==
  ~r.disturbed /\ r.phase # "idle" =>
    /\ r.due \in Seq(Names)
    /\ r.phase = "entering" => EnteringInv(r, list)
    /\ r.phase = "running" => RunningInv(r, list)
    /\ r.phase = "leaving" => LeavingInv(r, list)

BootInv ==
  /\ order \in Seq(Names)
  /\ scope = [s \in Scopes |-> scope[s]]
  /\ \A s \in Scopes : IsScope(scope[s]) /\ OrderInv(scope[s], order)

-----------------------------------------------------------------------------
(* What is due.                                                            *)

LEMMA NothingIsDue ==
  ASSUME NEW list
  PROVE  Stacked(list, <<>>, 0)
<1>1. PICK place : place = [i \in 1..Len(<<>>) |-> 0]
  OBVIOUS
<1>2. place \in [1..Len(<<>>) -> 1..0] /\ Len(<<>>) = 0
  BY <1>1
<1>3. \A i \in 1..Len(<<>>) : FALSE
  BY <1>2
<1>4. /\ \A i, j \in 1..Len(<<>>) : i < j => place[j] < place[i]
      /\ \A i \in 1..Len(<<>>) : <<>>[i] = list[place[i]] /\ <<>>[i] \in WithLeave
      /\ \A p \in 1..0 : list[p] \in WithLeave => \E i \in 1..Len(<<>>) : place[i] = p
  BY <1>3
<1> QED
  BY <1>2, <1>4, Zenon DEF Stacked

LEMMA NoPlaceNothingDue ==
  ASSUME NEW list, NEW due \in Seq(Names), Stacked(list, due, 0)
  PROVE  due = <<>>
<1>1. Len(due) = 0
  BY DEF Stacked
<1> QED
  BY <1>1, EmptySeq

\* A list that grows leaves what is due.
LEMMA StackedStays ==
  ASSUME NEW list, NEW more, NEW due \in Seq(Names), NEW count \in Nat,
         \A p \in 1..count : more[p] = list[p], Stacked(list, due, count)
  PROVE  Stacked(more, due, count)
<1>1. PICK place \in [1..Len(due) -> 1..count] :
        /\ \A i, j \in 1..Len(due) : i < j => place[j] < place[i]
        /\ \A i \in 1..Len(due) : due[i] = list[place[i]] /\ due[i] \in WithLeave
        /\ \A p \in 1..count : list[p] \in WithLeave => \E i \in 1..Len(due) : place[i] = p
  BY DEF Stacked
<1>2. /\ \A i \in 1..Len(due) : due[i] = more[place[i]]
      /\ \A p \in 1..count : more[p] \in WithLeave => \E i \in 1..Len(due) : place[i] = p
  BY <1>1
<1> QED
  BY <1>1, <1>2 DEF Stacked

\* A bootstrapper without a leave changes nothing, entered or passed.
LEMMA PassedIsNotDue ==
  ASSUME NEW list, NEW due \in Seq(Names), NEW count \in Nat, list[count + 1] \notin WithLeave
  PROVE  Stacked(list, due, count) <=> Stacked(list, due, count + 1)
<1>1. ASSUME Stacked(list, due, count) PROVE Stacked(list, due, count + 1)
  <2>1. PICK place \in [1..Len(due) -> 1..count] :
          /\ \A i, j \in 1..Len(due) : i < j => place[j] < place[i]
          /\ \A i \in 1..Len(due) : due[i] = list[place[i]] /\ due[i] \in WithLeave
          /\ \A p \in 1..count : list[p] \in WithLeave => \E i \in 1..Len(due) : place[i] = p
    BY <1>1 DEF Stacked
  <2>2. place \in [1..Len(due) -> 1..(count + 1)]
    BY <2>1
  <2>3. \A p \in 1..(count + 1) : list[p] \in WithLeave => \E i \in 1..Len(due) : place[i] = p
    BY <2>1
  <2> QED
    BY <2>1, <2>2, <2>3 DEF Stacked
<1>2. ASSUME Stacked(list, due, count + 1) PROVE Stacked(list, due, count)
  <2>1. PICK place \in [1..Len(due) -> 1..(count + 1)] :
          /\ \A i, j \in 1..Len(due) : i < j => place[j] < place[i]
          /\ \A i \in 1..Len(due) : due[i] = list[place[i]] /\ due[i] \in WithLeave
          /\ \A p \in 1..(count + 1) : list[p] \in WithLeave => \E i \in 1..Len(due) : place[i] = p
    BY <1>2 DEF Stacked
  <2>2. \A i \in 1..Len(due) : place[i] # count + 1
    BY <2>1
  <2>3. place \in [1..Len(due) -> 1..count]
    BY <2>1, <2>2
  <2> QED
    BY <2>1, <2>3 DEF Stacked
<1> QED
  BY <1>1, <1>2

\* A bootstrapper with one comes on top.
LEMMA EnteredIsDue ==
  ASSUME NEW list, NEW due \in Seq(Names), NEW count \in Nat, NEW name \in WithLeave, name = list[count + 1],
         Stacked(list, due, count)
  PROVE  Stacked(list, <<name>> \o due, count + 1)
<1>1. PICK place \in [1..Len(due) -> 1..count] :
        /\ \A i, j \in 1..Len(due) : i < j => place[j] < place[i]
        /\ \A i \in 1..Len(due) : due[i] = list[place[i]] /\ due[i] \in WithLeave
        /\ \A p \in 1..count : list[p] \in WithLeave => \E i \in 1..Len(due) : place[i] = p
  BY DEF Stacked
<1>2. PICK more : more = <<name>> \o due
  OBVIOUS
<1>3. name \in Names /\ <<name>> \in Seq(Names) /\ Len(<<name>>) = 1 /\ <<name>>[1] = name
  BY BootstrapperAssumption
<1>4. /\ Len(more) = Len(due) + 1 /\ Len(due) \in Nat
      /\ more[1] = name
      /\ \A i \in 2..Len(more) : more[i] = due[i - 1] /\ i - 1 \in 1..Len(due)
  BY <1>2, <1>3, ConcatProperties, LenProperties
<1>5. PICK at : at = [i \in 1..Len(more) |-> IF i = 1 THEN count + 1 ELSE place[i - 1]]
  OBVIOUS
<1>6. \A i \in 1..Len(due) : place[i] \in 1..count
  BY <1>1
<1>7. /\ at[1] = count + 1
      /\ \A i \in 2..Len(more) : at[i] = place[i - 1] /\ place[i - 1] \in 1..count
  <2>1. at[1] = count + 1
    BY <1>4, <1>5
  <2>2. ASSUME NEW i \in 2..Len(more) PROVE at[i] = place[i - 1] /\ place[i - 1] \in 1..count
    <3>1. i \in 1..Len(more) /\ i # 1 /\ i - 1 \in 1..Len(due)
      BY <1>4
    <3>2. place[i - 1] \in 1..count
      BY <1>6, <3>1
    <3> QED
      BY <1>5, <3>1, <3>2
  <2> QED
    BY <2>1, <2>2
<1>11. at \in [1..Len(more) -> 1..(count + 1)]
  <2>1. \A i \in 1..Len(more) : at[i] \in 1..(count + 1)
    BY <1>4, <1>7
  <2> QED
    BY <1>5, <2>1
<1>8. \A i, j \in 1..Len(more) : i < j => at[j] < at[i]
  <2> SUFFICES ASSUME NEW i \in 1..Len(more), NEW j \in 1..Len(more), i < j PROVE at[j] < at[i]
    OBVIOUS
  <2>1. CASE i = 1
    BY <1>4, <1>7, <2>1
  <2>2. CASE i # 1
    <3>1. i \in 2..Len(more) /\ j \in 2..Len(more) /\ i - 1 < j - 1
      BY <1>4, <2>2
    <3> QED
      BY <1>1, <1>4, <1>7, <3>1
  <2> QED
    BY <2>1, <2>2
<1>9. ASSUME NEW i \in 1..Len(more) PROVE more[i] = list[at[i]] /\ more[i] \in WithLeave
  <2>1. CASE i = 1
    BY <1>4, <1>7, <2>1
  <2>2. CASE i # 1
    <3>1. i \in 2..Len(more)
      BY <1>4, <2>2
    <3>2. at[i] = place[i - 1] /\ more[i] = due[i - 1] /\ i - 1 \in 1..Len(due)
      BY <1>4, <1>7, <3>1
    <3> QED
      BY <1>1, <3>2
  <2> QED
    BY <2>1, <2>2
<1>10. ASSUME NEW p \in 1..(count + 1), list[p] \in WithLeave PROVE \E i \in 1..Len(more) : at[i] = p
  <2>1. CASE p = count + 1
    BY <1>4, <1>7, <2>1
  <2>2. CASE p # count + 1
    <3>1. PICK i \in 1..Len(due) : place[i] = p
      BY <1>1, <1>10, <2>2
    <3>2. PICK n : n = i + 1
      OBVIOUS
    <3>3. n \in 2..Len(more) /\ n \in 1..Len(more) /\ n - 1 = i
      BY <1>4, <3>1, <3>2
    <3>4. at[n] = place[n - 1]
      BY <1>7, <3>3
    <3> QED
      BY <3>1, <3>3, <3>4
  <2> QED
    BY <2>1, <2>2
<1>12. Stacked(list, more, count + 1)
  BY <1>8, <1>9, <1>10, <1>11 DEF Stacked
<1> QED
  BY <1>2, <1>12

\* And leaves first.
LEMMA LeftIsTop ==
  ASSUME NEW list, NEW due \in Seq(Names), NEW count \in Nat, count > 0, list[count] \in WithLeave,
         Stacked(list, due, count)
  PROVE  /\ due # <<>> /\ Head(due) = list[count]
         /\ SubSeq(due, 2, Len(due)) \in Seq(Names)
         /\ Stacked(list, SubSeq(due, 2, Len(due)), count - 1)
<1>1. PICK place \in [1..Len(due) -> 1..count] :
        /\ \A i, j \in 1..Len(due) : i < j => place[j] < place[i]
        /\ \A i \in 1..Len(due) : due[i] = list[place[i]] /\ due[i] \in WithLeave
        /\ \A p \in 1..count : list[p] \in WithLeave => \E i \in 1..Len(due) : place[i] = p
  BY DEF Stacked
<1>2. Len(due) \in Nat /\ \A i \in 1..Len(due) : due[i] \in Names
  BY LenProperties, ElementOfSeq
<1>3. PICK top \in 1..Len(due) : place[top] = count
  BY <1>1
<1>4. top = 1
  BY <1>1, <1>2, <1>3
<1>5. due # <<>> /\ Head(due) = due[1]
  BY <1>2, <1>3
<1>6. PICK rest : rest = SubSeq(due, 2, Len(due))
  OBVIOUS
<1>7. rest \in Seq(Names) /\ Len(rest) = Len(due) - 1 /\ \A i \in 1..Len(rest) : rest[i] = due[i + 1]
  <2>1. rest = Tail(due)
    BY <1>5, <1>6, TailIsSubSeq
  <2> QED
    BY <1>5, <2>1, HeadTailProperties
<1>8. PICK at : at = [i \in 1..Len(rest) |-> place[i + 1]]
  OBVIOUS
<1>9. \A i \in 1..Len(rest) : at[i] = place[i + 1] /\ i + 1 \in 1..Len(due) /\ at[i] \in 1..(count - 1)
  <2> SUFFICES ASSUME NEW i \in 1..Len(rest)
               PROVE  at[i] = place[i + 1] /\ i + 1 \in 1..Len(due) /\ at[i] \in 1..(count - 1)
    OBVIOUS
  <2>1. at[i] = place[i + 1]
    BY <1>8
  <2>2. PICK n : n = i + 1
    OBVIOUS
  <2>3. n \in 1..Len(due) /\ 1 < n
    BY <1>2, <1>7, <2>2
  <2>4. place[n] < place[1] /\ place[n] \in 1..count /\ place[1] = count
    BY <1>1, <1>2, <1>3, <1>4, <2>3
  <2>5. place[n] \in 1..(count - 1)
    BY <2>4
  <2> QED
    BY <2>1, <2>2, <2>3, <2>5
<1>10. at \in [1..Len(rest) -> 1..(count - 1)]
  BY <1>8, <1>9
<1>11. \A i, j \in 1..Len(rest) : i < j => at[j] < at[i]
  <2> SUFFICES ASSUME NEW i \in 1..Len(rest), NEW j \in 1..Len(rest), i < j PROVE at[j] < at[i]
    OBVIOUS
  <2>1. i + 1 < j + 1 /\ i + 1 \in 1..Len(due) /\ j + 1 \in 1..Len(due)
    BY <1>9
  <2> QED
    BY <1>1, <1>9, <2>1
<1>12. \A i \in 1..Len(rest) : rest[i] = list[at[i]] /\ rest[i] \in WithLeave
  <2> SUFFICES ASSUME NEW i \in 1..Len(rest) PROVE rest[i] = list[at[i]] /\ rest[i] \in WithLeave
    OBVIOUS
  <2>1. PICK n \in 1..Len(due) : n = i + 1 /\ at[i] = place[n] /\ rest[i] = due[n]
    BY <1>7, <1>9
  <2> QED
    BY <1>1, <2>1
<1>13. ASSUME NEW p \in 1..(count - 1), list[p] \in WithLeave PROVE \E i \in 1..Len(rest) : at[i] = p
  <2>1. p \in 1..count
    OBVIOUS
  <2>2. PICK i \in 1..Len(due) : place[i] = p
    BY <1>1, <1>13, <2>1
  <2>3. i # 1
    BY <1>3, <1>4, <2>2
  <2>4. i - 1 \in 1..Len(rest) /\ (i - 1) + 1 = i
    BY <1>2, <1>7, <2>2, <2>3
  <2> QED
    BY <1>9, <2>2, <2>4
<1>14. Stacked(list, rest, count - 1)
  BY <1>10, <1>11, <1>12, <1>13 DEF Stacked
<1> QED
  BY <1>1, <1>3, <1>4, <1>5, <1>6, <1>7, <1>14

-----------------------------------------------------------------------------
(* A step of one scope.                                                    *)

LEMMA OneScopeMoves ==
  ASSUME BootInv, NEW s \in Scopes, NEW n, Set(s, n), IsScope(n), OrderInv(n, order)
  PROVE  BootInv'
<1>1. /\ order' = order
      /\ scope' = [t \in Scopes |-> scope'[t]]
      /\ \A t \in Scopes : scope'[t] = IF t = s THEN n ELSE scope[t]
  BY DEF Set, BootInv
<1>2. \A t \in Scopes : IsScope(scope'[t]) /\ OrderInv(scope'[t], order)
  BY <1>1 DEF BootInv
<1> QED
  BY <1>1, <1>2 DEF BootInv

\* A scope that goes on, as a record.
Goes(r, to, next, busy, name, completed, due) ==
  [r EXCEPT !.phase = to, !.next = next, !.busy = busy, !.name = name, !.completed = completed, !.due = due]

LEMMA GoesSets ==
  ASSUME NEW r, IsScope(r), NEW to, NEW next, NEW busy, NEW name, NEW completed, NEW due, NEW n,
         n = Goes(r, to, next, busy, name, completed, due)
  PROVE  /\ IsScope(n) /\ n.phase = to /\ n.next = next /\ n.busy = busy /\ n.name = name
         /\ n.completed = completed /\ n.due = due /\ n.disturbed = r.disturbed
<1>1. PICK p, x, b, m, c, d, h :
        r = [phase |-> p, next |-> x, busy |-> b, name |-> m, completed |-> c, due |-> d, disturbed |-> h]
  BY DEF IsScope
<1>2. n = [phase |-> to, next |-> next, busy |-> busy, name |-> name,
           completed |-> completed, due |-> due, disturbed |-> h]
  BY <1>1 DEF Goes
<1> QED
  BY <1>1, <1>2 DEF IsScope

LEMMA BeginKeeps ==
  ASSUME BootInv, NEW s \in Scopes, Begin(s)
  PROVE  BootInv'
<1>1. PICK n : n = [NoScope EXCEPT !.phase = "entering"]
  OBVIOUS
<1>2. PICK name : name = CHOOSE m \in Names : TRUE
  OBVIOUS
<1>3. n = [phase |-> "entering", next |-> 1, busy |-> FALSE, name |-> name,
           completed |-> 0, due |-> <<>>, disturbed |-> FALSE]
  BY <1>1, <1>2 DEF NoScope
<1>4. IsScope(n)
  BY <1>3 DEF IsScope
<1>5. n.phase = "entering" /\ n.next = 1 /\ ~n.busy /\ n.completed = 0 /\ n.due = <<>>
  BY <1>3
<1>6. Len(order) \in Nat
  BY LenProperties DEF BootInv
<1>7. OrderInv(n, order)
  BY <1>5, <1>6, NothingIsDue DEF OrderInv, EnteringInv
<1>8. Set(s, n)
  BY <1>1 DEF Begin
<1> QED
  BY <1>4, <1>7, <1>8, OneScopeMoves

LEMMA EnterKeeps ==
  ASSUME BootInv, NEW s \in Scopes, Enter(s)
  PROVE  BootInv'
<1>1. PICK r : r = scope[s]
  OBVIOUS
<1>2. r.phase = "entering" /\ ~r.busy /\ IsScope(r) /\ OrderInv(r, order) /\ Len(order) \in Nat
  BY <1>1, LenProperties DEF Enter, BootInv
<1>3. CASE r.next <= Len(order)
  <2>1. PICK busy, name : busy = TRUE /\ name = order[r.next]
    BY Zenon
  <2>2. PICK n : n = [r EXCEPT !.busy = busy, !.name = name]
    OBVIOUS
  <2>3. n = Goes(r, r.phase, r.next, busy, name, r.completed, r.due)
    BY <1>2, <2>2 DEF Goes, IsScope
  <2>4. /\ IsScope(n) /\ n.phase = "entering" /\ n.next = r.next /\ n.name = name
        /\ n.completed = r.completed /\ n.due = r.due /\ n.disturbed = r.disturbed
    BY <1>2, <2>3, GoesSets
  <2>5. OrderInv(n, order)
    BY <1>2, <1>3, <2>1, <2>4 DEF OrderInv, EnteringInv
  <2>6. Set(s, n)
    BY <1>1, <1>3, <2>1, <2>2 DEF Enter
  <2> QED
    BY <2>4, <2>5, <2>6, OneScopeMoves
<1>4. CASE ~(r.next <= Len(order))
  <2>1. PICK n : n = [r EXCEPT !.phase = "running"]
    OBVIOUS
  <2>2. n = Goes(r, "running", r.next, r.busy, r.name, r.completed, r.due)
    BY <1>2, <2>1 DEF Goes, IsScope
  <2>3. /\ IsScope(n) /\ n.phase = "running" /\ n.completed = r.completed /\ n.due = r.due /\ n.disturbed = r.disturbed
    BY <1>2, <2>2, GoesSets
  <2>4. OrderInv(n, order)
    BY <1>2, <2>3 DEF OrderInv, EnteringInv, RunningInv
  <2>5. Set(s, n)
    BY <1>1, <1>4, <2>1 DEF Enter
  <2> QED
    BY <2>3, <2>4, <2>5, OneScopeMoves
<1> QED
  BY <1>3, <1>4

LEMMA EnteredKeeps ==
  ASSUME BootInv, NEW s \in Scopes, Entered(s)
  PROVE  BootInv'
<1>1. PICK r : r = scope[s]
  OBVIOUS
<1>2. r.phase = "entering" /\ r.busy /\ IsScope(r) /\ OrderInv(r, order) /\ Len(order) \in Nat
  BY <1>1, LenProperties DEF Entered, BootInv
<1>3. PICK due : due = (IF r.name \in WithLeave THEN <<r.name>> ELSE <<>>) \o r.due
  OBVIOUS
<1>4. PICK busy : busy = FALSE
  BY Zenon
<1>5. PICK n : n = [r EXCEPT !.busy = busy, !.next = r.next + 1, !.completed = r.completed + 1, !.due = due]
  OBVIOUS
<1>6. n = Goes(r, r.phase, r.next + 1, busy, r.name, r.completed + 1, due)
  BY <1>2, <1>5 DEF Goes, IsScope
<1>7. /\ IsScope(n) /\ n.phase = "entering" /\ n.next = r.next + 1 /\ n.busy = busy
      /\ n.completed = r.completed + 1 /\ n.due = due /\ n.disturbed = r.disturbed
  BY <1>2, <1>6, GoesSets
<1>8. ASSUME ~r.disturbed
      PROVE  due \in Seq(Names) /\ EnteringInv(n, order)
  <2>1. r.due \in Seq(Names) /\ EnteringInv(r, order)
    BY <1>2, <1>8 DEF OrderInv
  <2>2. /\ r.completed \in Nat /\ r.completed + 1 <= Len(order) /\ r.next = r.completed + 1
        /\ r.name = order[r.completed + 1] /\ Stacked(order, r.due, r.completed)
    BY <1>2, <2>1 DEF EnteringInv
  <2>3. due \in Seq(Names) /\ Stacked(order, due, r.completed + 1)
    <3>1. CASE r.name \in WithLeave
      <4>1. due = <<r.name>> \o r.due
        BY <1>3, <3>1
      <4>2. r.name \in Names /\ <<r.name>> \in Seq(Names)
        BY <3>1, BootstrapperAssumption
      <4>3. due \in Seq(Names)
        BY <2>1, <4>1, <4>2, ConcatProperties
      <4> QED
        BY <2>1, <2>2, <3>1, <4>1, <4>3, EnteredIsDue
    <3>2. CASE r.name \notin WithLeave
      <4>1. due = r.due
        BY <1>3, <2>1, <3>2, ConcatEmptySeq
      <4> QED
        BY <2>1, <2>2, <3>2, <4>1, PassedIsNotDue
    <3> QED
      BY <3>1, <3>2
  <2>4. ~n.busy
    BY <1>4, <1>7
  <2> QED
    BY <1>2, <1>7, <2>2, <2>3, <2>4 DEF EnteringInv
<1>9. OrderInv(n, order)
  BY <1>7, <1>8 DEF OrderInv
<1>10. Set(s, n)
  BY <1>1, <1>3, <1>4, <1>5 DEF Entered
<1> QED
  BY <1>7, <1>9, <1>10, OneScopeMoves

LEMMA LeaveBeginsKeeps ==
  ASSUME BootInv, NEW s \in Scopes, EnterFails(s) \/ FnEnds(s)
  PROVE  BootInv'
<1>1. PICK r : r = scope[s]
  OBVIOUS
<1>2. r.phase \in {"entering", "running"} /\ IsScope(r) /\ OrderInv(r, order) /\ Len(order) \in Nat
  BY <1>1, LenProperties DEF EnterFails, FnEnds, BootInv
<1>3. PICK next : next = Min({r.completed, Len(order)})
  OBVIOUS
<1>4. PICK busy : busy = FALSE
  BY Zenon
<1>5. PICK n : n = [r EXCEPT !.phase = "leaving", !.busy = busy, !.next = next]
  OBVIOUS
<1>6. n = Goes(r, "leaving", next, busy, r.name, r.completed, r.due)
  BY <1>2, <1>5 DEF Goes, IsScope
<1>7. /\ IsScope(n) /\ n.phase = "leaving" /\ n.next = next /\ n.busy = busy
      /\ n.due = r.due /\ n.disturbed = r.disturbed
  BY <1>2, <1>6, GoesSets
<1>8. ASSUME ~r.disturbed
      PROVE  r.due \in Seq(Names) /\ LeavingInv(n, order)
  <2>1. r.due \in Seq(Names) /\ r.completed \in 0..Len(order) /\ Stacked(order, r.due, r.completed)
    BY <1>2, <1>8 DEF OrderInv, EnteringInv, RunningInv
  <2>2. next = r.completed
    <3>1. /\ r.completed \in {r.completed, Len(order)}
          /\ \A y \in {r.completed, Len(order)} : r.completed <= y
      BY <1>2, <2>1
    <3>2. next \in {r.completed, Len(order)} /\ \A y \in {r.completed, Len(order)} : next <= y
      BY <1>3, <3>1, Zenon DEF Min
    <3> QED
      BY <1>2, <2>1, <3>2
  <2>3. ~n.busy
    BY <1>4, <1>7
  <2> QED
    BY <1>7, <2>1, <2>2, <2>3 DEF LeavingInv
<1>9. OrderInv(n, order)
  BY <1>7, <1>8 DEF OrderInv
<1>10. Set(s, n)
  <2>1. Set(s, LeaveFromCompleted(scope[s]))
    BY DEF EnterFails, FnEnds
  <2> QED
    BY <1>1, <1>3, <1>4, <1>5, <2>1 DEF LeaveFromCompleted
<1> QED
  BY <1>7, <1>9, <1>10, OneScopeMoves

LEMMA LeaveKeeps ==
  ASSUME BootInv, NEW s \in Scopes, Leave(s)
  PROVE  BootInv'
<1>1. PICK r : r = scope[s]
  OBVIOUS
<1>2. r.phase = "leaving" /\ ~r.busy /\ r.next > 0 /\ IsScope(r) /\ OrderInv(r, order) /\ Len(order) \in Nat
  BY <1>1, LenProperties DEF Leave, BootInv
<1>3. CASE LeaveAt(r.next) = {}
  <2>1. PICK n : n = [r EXCEPT !.next = r.next - 1]
    OBVIOUS
  <2>2. n = Goes(r, r.phase, r.next - 1, r.busy, r.name, r.completed, r.due)
    BY <1>2, <2>1 DEF Goes, IsScope
  <2>3. /\ IsScope(n) /\ n.phase = "leaving" /\ n.next = r.next - 1 /\ n.busy = r.busy
        /\ n.due = r.due /\ n.disturbed = r.disturbed
    BY <1>2, <2>2, GoesSets
  <2>4. ASSUME ~r.disturbed
        PROVE  r.due \in Seq(Names) /\ LeavingInv(n, order)
    <3>1. r.due \in Seq(Names) /\ r.next \in 1..Len(order) /\ Stacked(order, r.due, r.next)
      BY <1>2, <2>4 DEF OrderInv, LeavingInv
    <3>2. order[r.next] \notin WithLeave
      BY <1>3, <3>1 DEF LeaveAt
    <3>3. PICK count \in Nat : r.next = count + 1
      <4>1. r.next - 1 \in Nat /\ r.next = (r.next - 1) + 1
        BY <1>2, <3>1
      <4> QED
        BY <4>1
    <3>4. Stacked(order, r.due, count) /\ n.next = count
      BY <2>3, <3>1, <3>2, <3>3, PassedIsNotDue
    <3> QED
      BY <1>2, <2>3, <3>1, <3>3, <3>4 DEF LeavingInv
  <2>5. OrderInv(n, order)
    BY <2>3, <2>4 DEF OrderInv
  <2>6. Set(s, n)
    BY <1>1, <1>3, <2>1 DEF Leave
  <2> QED
    BY <2>3, <2>5, <2>6, OneScopeMoves
<1>4. CASE LeaveAt(r.next) # {}
  <2>1. PICK name \in LeaveAt(r.next) : Set(s, [r EXCEPT !.busy = TRUE, !.name = name])
    BY <1>1, <1>4 DEF Leave
  <2>2. name \in WithLeave /\ name = order[r.next]
    BY <2>1 DEF LeaveAt
  <2>3. PICK busy : busy = TRUE
    BY Zenon
  <2>4. PICK n : n = [r EXCEPT !.busy = busy, !.name = name]
    OBVIOUS
  <2>5. n = Goes(r, r.phase, r.next, busy, name, r.completed, r.due)
    BY <1>2, <2>4 DEF Goes, IsScope
  <2>6. /\ IsScope(n) /\ n.phase = "leaving" /\ n.next = r.next /\ n.name = name
        /\ n.due = r.due /\ n.disturbed = r.disturbed
    BY <1>2, <2>5, GoesSets
  <2>7. OrderInv(n, order)
    BY <1>2, <2>2, <2>6 DEF OrderInv, LeavingInv
  <2>8. Set(s, n)
    BY <2>1, <2>3, <2>4
  <2> QED
    BY <2>6, <2>7, <2>8, OneScopeMoves
<1> QED
  BY <1>3, <1>4

LEMMA LeftKeeps ==
  ASSUME BootInv, NEW s \in Scopes, Left(s)
  PROVE  BootInv'
<1>1. PICK r : r = scope[s]
  OBVIOUS
<1>2. r.phase = "leaving" /\ r.busy /\ IsScope(r) /\ OrderInv(r, order) /\ Len(order) \in Nat
  BY <1>1, LenProperties DEF Left, BootInv
<1>3. PICK due : due = SubSeq(r.due, 2, Len(r.due))
  OBVIOUS
<1>4. PICK busy : busy = FALSE
  BY Zenon
<1>5. PICK n : n = [r EXCEPT !.busy = busy, !.next = r.next - 1, !.due = due]
  OBVIOUS
<1>6. n = Goes(r, r.phase, r.next - 1, busy, r.name, r.completed, due)
  BY <1>2, <1>5 DEF Goes, IsScope
<1>7. /\ IsScope(n) /\ n.phase = "leaving" /\ n.next = r.next - 1 /\ n.busy = busy
      /\ n.due = due /\ n.disturbed = r.disturbed
  BY <1>2, <1>6, GoesSets
<1>8. ASSUME ~r.disturbed
      PROVE  due \in Seq(Names) /\ LeavingInv(n, order)
  <2>1. /\ r.due \in Seq(Names) /\ r.next \in Nat /\ r.next > 0 /\ r.next <= Len(order)
        /\ order[r.next] \in WithLeave /\ Stacked(order, r.due, r.next)
    BY <1>2, <1>8 DEF OrderInv, LeavingInv
  <2>2. due \in Seq(Names) /\ Stacked(order, due, r.next - 1)
    BY <1>3, <2>1, LeftIsTop
  <2>3. ~n.busy
    BY <1>4, <1>7
  <2>4. r.next - 1 \in 0..Len(order)
    BY <1>2, <2>1
  <2> QED
    BY <1>7, <2>2, <2>3, <2>4 DEF LeavingInv
<1>9. OrderInv(n, order)
  BY <1>7, <1>8 DEF OrderInv
<1>10. Set(s, n)
  BY <1>1, <1>3, <1>4, <1>5 DEF Left
<1> QED
  BY <1>7, <1>9, <1>10, OneScopeMoves

\* A scope that is not there.
LEMMA NoScopeIsRight ==
  ASSUME NEW n, n = NoScope, NEW list
  PROVE  IsScope(n) /\ OrderInv(n, list)
<1>1. PICK name : name = CHOOSE m \in Names : TRUE
  OBVIOUS
<1>2. n = [phase |-> "idle", next |-> 1, busy |-> FALSE, name |-> name,
           completed |-> 0, due |-> <<>>, disturbed |-> FALSE]
  BY <1>1 DEF NoScope
<1>3. n.phase = "idle" /\ n.due = <<>>
  BY <1>2
<1>4. IsScope(n)
  BY <1>2 DEF IsScope
<1> QED
  BY <1>3, <1>4 DEF OrderInv

LEMMA ScopeEndKeeps ==
  ASSUME BootInv, NEW s \in Scopes, End(s)
  PROVE  BootInv'
<1>1. PICK n : n = NoScope
  OBVIOUS
<1> QED
  BY <1>1, NoScopeIsRight, OneScopeMoves DEF End

-----------------------------------------------------------------------------
(* The registry.                                                           *)

\* A registration goes to the end, beyond what any scope has reached.
LEMMA RegisterKeeps ==
  ASSUME BootInv, NEW name \in Names, Register(name)
  PROVE  BootInv'
<1>1. order' = Append(order, name) /\ scope' = scope /\ order \in Seq(Names)
  BY DEF Register, BootInv
<1>2. PICK more : more = Append(order, name)
  OBVIOUS
<1>3. /\ more \in Seq(Names) /\ Len(order) \in Nat /\ Len(more) = Len(order) + 1
      /\ \A p \in 1..Len(order) : more[p] = order[p]
  BY <1>1, <1>2, AppendProperties, LenProperties
<1>4. ASSUME NEW r, OrderInv(r, order) PROVE OrderInv(r, more)
  <2> SUFFICES ASSUME ~r.disturbed, r.phase # "idle" PROVE OrderInv(r, more)
    BY DEF OrderInv
  <2>1. r.due \in Seq(Names)
    BY <1>4 DEF OrderInv
  <2>2. ASSUME NEW count \in 0..Len(order), Stacked(order, r.due, count) PROVE Stacked(more, r.due, count)
    BY <1>3, <2>1, <2>2, StackedStays
  <2>3. ASSUME r.phase = "entering" PROVE EnteringInv(r, more)
    <3>1. EnteringInv(r, order)
      BY <1>4, <2>3 DEF OrderInv
    <3> QED
      BY <1>3, <2>2, <3>1 DEF EnteringInv
  <2>4. ASSUME r.phase = "running" PROVE RunningInv(r, more)
    <3>1. RunningInv(r, order)
      BY <1>4, <2>4 DEF OrderInv
    <3> QED
      BY <1>3, <2>2, <3>1 DEF RunningInv
  <2>5. ASSUME r.phase = "leaving" PROVE LeavingInv(r, more)
    <3>1. LeavingInv(r, order)
      BY <1>4, <2>5 DEF OrderInv
    <3> QED
      BY <1>3, <2>2, <3>1 DEF LeavingInv
  <2> QED
    BY <2>1, <2>3, <2>4, <2>5 DEF OrderInv
<1>5. \A s \in Scopes : IsScope(scope[s]) /\ OrderInv(scope[s], more)
  BY <1>4 DEF BootInv
<1> QED
  BY <1>1, <1>2, <1>3, <1>5 DEF BootInv

\* A removal disturbs the scopes that run, and those that do not have reached nothing.
LEMMA RemovalKeeps ==
  ASSUME BootInv, Removal, order' \in Seq(Names)
  PROVE  BootInv'
<1>1. scope' = [s \in Scopes |-> [scope[s] EXCEPT !.disturbed = scope[s].phase # "idle"]]
  BY DEF Removal
<1>2. ASSUME NEW s \in Scopes, NEW n, n = scope'[s] PROVE IsScope(n) /\ OrderInv(n, order')
  <2>1. PICK r : r = scope[s]
    OBVIOUS
  <2>2. IsScope(r)
    BY <2>1 DEF BootInv
  <2>3. PICK p, x, b, m, c, d, h :
          r = [phase |-> p, next |-> x, busy |-> b, name |-> m, completed |-> c, due |-> d, disturbed |-> h]
    BY <2>2 DEF IsScope
  <2>4. n = [r EXCEPT !.disturbed = (r.phase # "idle")] /\ r.phase = p
    <3>1. n = [r EXCEPT !.disturbed = (r.phase # "idle")]
      BY <1>1, <1>2, <2>1, Zenon
    <3>2. r.phase = p
      BY <2>3
    <3> QED
      BY <3>1, <3>2
  <2>5. CASE p = "idle"
    <3>1. PICK now : now = (p # "idle")
      BY Zenon
    <3>2. n = [phase |-> p, next |-> x, busy |-> b, name |-> m, completed |-> c, due |-> d, disturbed |-> now]
      BY <2>3, <2>4, <3>1
    <3>3. IsScope(n) /\ n.phase = p
      BY <3>2 DEF IsScope
    <3> QED
      BY <2>5, <3>3 DEF OrderInv
  <2>6. CASE p # "idle"
    <3>1. PICK now : now = TRUE
      BY Zenon
    <3>2. n = [phase |-> p, next |-> x, busy |-> b, name |-> m, completed |-> c, due |-> d, disturbed |-> now]
      BY <2>3, <2>4, <2>6, <3>1
    <3>3. IsScope(n) /\ n.disturbed = now
      BY <3>2 DEF IsScope
    <3> QED
      BY <3>1, <3>3 DEF OrderInv
  <2> QED
    BY <2>5, <2>6
<1>3. scope' = [s \in Scopes |-> scope'[s]]
  BY <1>1
<1> QED
  BY <1>2, <1>3 DEF BootInv

LEMMA UnregisterKeeps ==
  ASSUME BootInv, NEW name \in Names, Unregister(name)
  PROVE  BootInv'
<1>1. PICK i \in DOMAIN order : order' = RemoveAt(order, i)
  BY DEF Unregister
<1>2. Len(order) \in Nat /\ i \in 1..Len(order) /\ \A p \in 1..Len(order) : order[p] \in Names
  BY <1>1, LenProperties, ElementOfSeq DEF BootInv
<1>3. SubSeq(order, 1, i - 1) \in Seq(Names)
  BY <1>2, SubSeqProperties
<1>4. SubSeq(order, i + 1, Len(order)) \in Seq(Names)
  BY <1>2, SubSeqProperties
<1>5. order' \in Seq(Names)
  BY <1>1, <1>3, <1>4, ConcatProperties DEF RemoveAt
<1> QED
  BY <1>5, RemovalKeeps DEF Unregister

LEMMA ClearKeeps ==
  ASSUME BootInv, Clear
  PROVE  BootInv'
<1>1. order' \in Seq(Names)
  BY DEF Clear
<1> QED
  BY <1>1, RemovalKeeps DEF Clear

-----------------------------------------------------------------------------
(* The theorem.                                                            *)

LEMMA NothingRegistered ==
  ASSUME Init
  PROVE  BootInv
<1>1. \A s \in Scopes : scope[s] = NoScope
  BY DEF Init
<1>2. \A s \in Scopes : IsScope(scope[s]) /\ OrderInv(scope[s], order)
  BY <1>1, NoScopeIsRight
<1>3. order \in Seq(Names) /\ scope = [s \in Scopes |-> scope[s]]
  BY DEF Init
<1> QED
  BY <1>2, <1>3 DEF BootInv

LEMMA EveryStepKeepsTheScopes ==
  ASSUME BootInv, [Next]_vars
  PROVE  BootInv'
<1>1. CASE UNCHANGED vars
  BY <1>1 DEF vars, BootInv
<1>2. CASE \E n \in Names : Register(n) \/ Unregister(n)
  BY <1>2, RegisterKeeps, UnregisterKeeps
<1>3. CASE Clear
  BY <1>3, ClearKeeps
<1>4. CASE \E s \in Scopes : Begin(s) \/ Step(s)
  <2>1. PICK s \in Scopes : Begin(s) \/ Step(s)
    BY <1>4
  <2> QED
    BY <2>1, BeginKeeps, EnterKeeps, EnteredKeeps, LeaveBeginsKeeps, LeaveKeeps, LeftKeeps, ScopeEndKeeps DEF Step
<1> QED
  BY <1>1, <1>2, <1>3, <1>4 DEF Next

LEMMA ScopesMatch ==
  ASSUME BootInv
  PROVE  LeavesMatchEnters
<1> SUFFICES ASSUME NEW s \in Scopes, ~scope[s].disturbed
             PROVE  LeavesAreReversed(s) /\ EveryEnterIsLeft(s)
  BY DEF LeavesMatchEnters
<1>1. PICK r : r = scope[s]
  OBVIOUS
<1>2. OrderInv(r, order) /\ ~r.disturbed /\ Len(order) \in Nat
  BY <1>1, LenProperties DEF BootInv
<1>3. ASSUME r.phase = "leaving", r.busy PROVE r.due # <<>> /\ r.name = Head(r.due)
  <2>1. /\ r.due \in Seq(Names) /\ r.next \in Nat /\ r.next > 0 /\ r.name = order[r.next]
        /\ order[r.next] \in WithLeave /\ Stacked(order, r.due, r.next)
    BY <1>2, <1>3 DEF OrderInv, LeavingInv
  <2> QED
    BY <2>1, LeftIsTop
<1>4. ASSUME r.phase = "leaving", r.next = 0 PROVE r.due = <<>>
  <2>1. r.due \in Seq(Names) /\ Stacked(order, r.due, 0)
    BY <1>2, <1>4 DEF OrderInv, LeavingInv
  <2> QED
    BY <2>1, NoPlaceNothingDue
<1> QED
  BY <1>1, <1>3, <1>4 DEF LeavesAreReversed, EveryEnterIsLeft, IsOver

\* A scope leaves what it entered and has not left, the last first, and all of it
\* (bootstrapper_registry.ts, runScoped and #runLeaveUpTo), whatever is registered while
\* it runs, unless bootstrappers are removed under it.
THEOREM LeavesMatch == Spec => []LeavesMatchEnters
<1>1. Init => BootInv
  BY NothingRegistered
<1>2. BootInv /\ [Next]_vars => BootInv'
  BY EveryStepKeepsTheScopes
<1>3. BootInv => LeavesMatchEnters
  BY ScopesMatch
<1> QED
  BY <1>1, <1>2, <1>3, PTL DEF Spec

-----------------------------------------------------------------------------
(***************************************************************************)
(* Row scoping, for any tables, tenants, works and alternatives: the first *)
(* alternative of a query is that of the scope it was built in.            *)
(***************************************************************************)

\* What work w has built is a query, whose first alternative is that of its scope.
QueryIsKept(w) ==
  /\ builder[w] = [table |-> builder[w].table, clauses |-> builder[w].clauses, scope |-> builder[w].scope]
  /\ \E C : builder[w].clauses \in Seq(C)
  /\ builder[w].clauses # <<>> /\ builder[w].scope # Nobody => builder[w].scope \in builder[w].clauses[1]

RowsArePlain ==
  /\ rowsOf = [b \in ScopedTables |-> rowsOf[b]]
  /\ \A b \in ScopedTables : Nobody \notin rowsOf[b]
  /\ drop = [tenant |-> drop.tenant, left |-> drop.left, added |-> drop.added]

RowInv ==
  /\ builder = [w \in Works |-> builder[w]]
  /\ \A w \in Works : QueryIsKept(w)
  /\ RowsArePlain
  /\ RowsAreScoped

\* A query that has no tenant adds none, and one that has adds it to the last alternative.
LEMMA WhereAdds ==
  ASSUME NEW C, NEW c \in Seq(C), c # <<>>, NEW id
  PROVE  /\ Len(c) \in Nat /\ Len(c) >= 1
         /\ DOMAIN Where(c, id) = 1 .. Len(c)
         /\ \A i \in 1 .. Len(c) : c[i] \subseteq Where(c, id)[i]
         /\ id # Nobody => id \in Where(c, id)[Len(c)]
<1>1. Len(c) \in Nat /\ Len(c) >= 1 /\ DOMAIN c = 1 .. Len(c)
  BY EmptySeq, LenProperties
<1>2. CASE id = Nobody
  BY <1>1, <1>2 DEF Where
<1>3. CASE id # Nobody
  <2> DEFINE n == Len(c)
  <2>1. Where(c, id) = [c EXCEPT ![n] = c[n] \cup {id}]
    BY <1>3 DEF Where
  <2>2. n \in 1 .. n
    BY <1>1
  <2>3. DOMAIN Where(c, id) = 1 .. n /\ Where(c, id)[n] = c[n] \cup {id}
    BY <1>1, <2>1, <2>2
  <2>4. ASSUME NEW i \in 1 .. n PROVE c[i] \subseteq Where(c, id)[i]
    BY <1>1, <2>1, <2>2
  <2> QED
    BY <1>1, <2>3, <2>4
<1> QED
  BY <1>2, <1>3

\* A query all of whose alternatives have a tenant reaches that one's rows only.
LEMMA OneTenantIsReached ==
  ASSUME NEW w, NEW clauses, NEW id, \A i \in DOMAIN clauses : id \in clauses[i]
  PROVE  Selected(w, clauses) \ {id} = {}
BY DEF Selected

\* What a step does to a query that stays as it is.
LEMMA QueriesStay ==
  ASSUME UNCHANGED builder, RowInv
  PROVE  builder' = [w \in Works |-> builder'[w]] /\ \A w \in Works : QueryIsKept(w)'
BY DEF RowInv, QueryIsKept

\* A query that is put in the place of another.
LEMMA QueryIsPut ==
  ASSUME RowInv, NEW w \in Works, NEW table, NEW C, NEW clauses \in Seq(C), NEW within,
         clauses # <<>> /\ within # Nobody => within \in clauses[1],
         builder' = [builder EXCEPT ![w] = [table |-> table, clauses |-> clauses, scope |-> within]]
  PROVE  builder' = [v \in Works |-> builder'[v]] /\ \A v \in Works : QueryIsKept(v)'
<1>1. builder' = [v \in Works |-> builder'[v]]
  BY DEF RowInv
<1>2. ASSUME NEW v \in Works, v # w PROVE QueryIsKept(v)'
  <2>1. builder'[v] = builder[v]
    BY <1>2 DEF RowInv
  <2> QED
    BY <2>1 DEF RowInv, QueryIsKept
<1>3. QueryIsKept(w)'
  <2>1. builder'[w] = [table |-> table, clauses |-> clauses, scope |-> within]
    BY DEF RowInv
  <2>2. /\ builder'[w].table = table /\ builder'[w].clauses = clauses /\ builder'[w].scope = within
        /\ builder'[w] = [table |-> builder'[w].table, clauses |-> builder'[w].clauses, scope |-> builder'[w].scope]
    BY <2>1
  <2> QED
    BY <2>2 DEF QueryIsKept
<1> QED
  BY <1>1, <1>2, <1>3

\* An empty query.
LEMMA QueryIsRun ==
  ASSUME RowInv, NEW w \in Works, builder' = [builder EXCEPT ![w] = NoBuilder]
  PROVE  builder' = [v \in Works |-> builder'[v]] /\ \A v \in Works : QueryIsKept(v)'
<1>1. <<>> \in Seq({})
  BY EmptySeq
<1> QED
  BY <1>1, QueryIsPut DEF NoBuilder

\* Rows that go leave the rest of the driver's state in order.
LEMMA RowsGo ==
  ASSUME RowInv, NEW b, NEW gone, rowsOf' = [rowsOf EXCEPT ![b] = @ \ gone], UNCHANGED drop
  PROVE  RowsArePlain' /\ DroppedTenantIsGone'
<1>1. rowsOf' = [c \in ScopedTables |-> rowsOf'[c]]
  BY DEF RowInv, RowsArePlain
<1>2. ASSUME NEW c \in ScopedTables PROVE rowsOf'[c] \subseteq rowsOf[c]
  BY DEF RowInv, RowsArePlain
<1> QED
  BY <1>1, <1>2 DEF RowInv, RowsArePlain, RowsAreScoped, DroppedTenantIsGone

LEMMA RowsStay ==
  ASSUME RowInv, UNCHANGED <<rowsOf, drop>>
  PROVE  RowsArePlain' /\ DroppedTenantIsGone'
BY DEF RowInv, RowsArePlain, RowsAreScoped, DroppedTenantIsGone

LEMMA StrayedStays ==
  ASSUME RowInv, UNCHANGED strayed
  PROVE  OnlyAlternativesStray'
BY DEF RowInv, RowsAreScoped, OnlyAlternativesStray

LEMMA QueryKeeps ==
  ASSUME RowInv, NEW w \in Works, NEW b \in ScopedTables, Query(w, b)
  PROVE  RowInv'
<1> DEFINE c == Where(<<{}>>, ScopeOf(w))
<1>1. ScopeOf(w) # Nobody => ScopeOf(w) \in c[1]
  BY DEF Where
<1>2. \E C : c \in Seq(C)
  <2>1. CASE ScopeOf(w) = Nobody
    <3>1. c = <<{}>>
      BY <2>1 DEF Where
    <3>2. <<{}>> \in Seq({{}})
      OBVIOUS
    <3> QED
      BY <3>1, <3>2
  <2>2. CASE ScopeOf(w) # Nobody
    <3>1. c = <<{ScopeOf(w)}>>
      BY <2>2 DEF Where
    <3>2. <<{ScopeOf(w)}>> \in Seq({{ScopeOf(w)}})
      OBVIOUS
    <3> QED
      BY <3>1, <3>2
  <2> QED
    BY <2>1, <2>2
<1>3. /\ builder' = [builder EXCEPT ![w] = [table |-> b, clauses |-> c, scope |-> ScopeOf(w)]]
      /\ UNCHANGED <<rowsOf, drop, strayed>>
  BY DEF Query
<1>4. PICK C : c \in Seq(C)
  BY <1>2
<1> HIDE DEF c
<1>5. builder' = [v \in Works |-> builder'[v]] /\ \A v \in Works : QueryIsKept(v)'
  BY <1>1, <1>3, <1>4, QueryIsPut
<1> QED
  BY <1>3, <1>5, RowsStay, StrayedStays DEF RowInv, RowsAreScoped

LEMMA OrWhereKeeps ==
  ASSUME RowInv, NEW w \in Works, OrWhere(w)
  PROVE  RowInv'
<1>1. QueryIsKept(w)
  BY DEF RowInv
<1>2. PICK C : builder[w].clauses \in Seq(C)
  BY <1>1 DEF QueryIsKept
<1> DEFINE c == builder[w].clauses
           next == Append(c, {})
<1>3. c # <<>> /\ c \in Seq(C \cup {{}})
  BY <1>2, EmptySeq DEF OrWhere
<1>4. next \in Seq(C \cup {{}}) /\ next[1] = c[1]
  <2>1. Len(c) \in Nat /\ Len(c) >= 1
    BY <1>3, EmptySeq, LenProperties
  <2> QED
    BY <1>3, <2>1, AppendProperties
<1>5. [builder[w] EXCEPT !.clauses = next]
        = [table |-> builder[w].table, clauses |-> next, scope |-> builder[w].scope]
  <2>1. PICK t, old, s : builder[w] = [table |-> t, clauses |-> old, scope |-> s]
    BY <1>1 DEF QueryIsKept
  <2> HIDE DEF next
  <2> QED
    BY <2>1
<1>6. /\ builder' = [builder EXCEPT ![w] = [table |-> builder[w].table, clauses |-> next, scope |-> builder[w].scope]]
      /\ UNCHANGED <<rowsOf, drop, strayed>>
  BY <1>5 DEF OrWhere
<1>7. builder[w].scope # Nobody => builder[w].scope \in next[1]
  BY <1>1, <1>3, <1>4 DEF QueryIsKept
<1>8. PICK table, within : table = builder[w].table /\ within = builder[w].scope
  OBVIOUS
<1>9. PICK clauses : clauses = next
  OBVIOUS
<1> HIDE DEF next, c
<1>10. builder' = [v \in Works |-> builder'[v]] /\ \A v \in Works : QueryIsKept(v)'
  BY <1>4, <1>6, <1>7, <1>8, <1>9, QueryIsPut
<1> QED
  BY <1>6, <1>10, RowsStay, StrayedStays DEF RowInv, RowsAreScoped

LEMMA FetchKeeps ==
  ASSUME RowInv, NEW w \in Works, Fetch(w)
  PROVE  RowInv'
<1> DEFINE c == builder[w].clauses
           id == ScopeOf(w)
           found == Selected(w, Where(c, id))
<1>1. QueryIsKept(w) /\ c # <<>>
  BY DEF RowInv, Fetch
<1>2. PICK C : c \in Seq(C)
  BY <1>1 DEF QueryIsKept
<1>3. builder' = [builder EXCEPT ![w] = NoBuilder] /\ UNCHANGED <<rowsOf, drop>> /\ Stray(w, "fetch", found)
  BY DEF Fetch
<1>4. ASSUME Strays(id, builder[w].scope, found) PROVE Len(c) > 2
  <2>1. id # Nobody /\ builder[w].scope = id /\ found \ {id} # {}
    BY <1>4 DEF Strays
  <2>2. id \in c[1]
    BY <1>1, <2>1 DEF QueryIsKept
  <2>3. /\ Len(c) \in Nat /\ Len(c) >= 1
        /\ DOMAIN Where(c, id) = 1 .. Len(c)
        /\ \A i \in 1 .. Len(c) : c[i] \subseteq Where(c, id)[i]
        /\ id \in Where(c, id)[Len(c)]
    BY <1>1, <1>2, <2>1, WhereAdds
  <2>4. ~(\A i \in DOMAIN Where(c, id) : id \in Where(c, id)[i])
    <3> HIDE DEF c, id
    <3>1. (\A i \in DOMAIN Where(c, id) : id \in Where(c, id)[i]) => Selected(w, Where(c, id)) \ {id} = {}
      BY OneTenantIsReached
    <3> QED
      BY <2>1, <3>1
  <2>5. PICK i \in 1 .. Len(c) : id \notin Where(c, id)[i]
    BY <2>3, <2>4
  <2>6. i # Len(c) /\ i # 1
    BY <2>2, <2>3, <2>5
  <2> QED
    BY <2>3, <2>6
<1>5. OnlyAlternativesStray'
  <2>1. strayed' = IF Strays(id, builder[w].scope, found) THEN strayed \cup {<<"fetch", Len(c)>>} ELSE strayed
    BY <1>3 DEF Stray
  <2> HIDE DEF c, id, found
  <2>2. ASSUME NEW s \in strayed'
        PROVE  (s[1] = "fetch" /\ s[2] > 2) \/ (s[1] = "bulk" /\ s[2] > 1) \/ s = <<"instance", 0>>
    <3>1. CASE s \in strayed
      BY <3>1 DEF RowInv, RowsAreScoped, OnlyAlternativesStray
    <3>2. CASE s \notin strayed
      BY <1>4, <2>1, <2>2, <3>2
    <3> QED
      BY <3>1, <3>2
  <2> QED
    BY <2>2 DEF OnlyAlternativesStray
<1> QED
  BY <1>3, <1>5, RowsStay, QueryIsRun DEF RowInv, RowsAreScoped

LEMMA BulkKeeps ==
  ASSUME RowInv, NEW w \in Works, BulkDelete(w)
  PROVE  RowInv'
<1> DEFINE c == builder[w].clauses
           id == ScopeOf(w)
           found == Selected(w, c)
<1>1. QueryIsKept(w) /\ c # <<>>
  BY DEF RowInv, BulkDelete
<1>2. PICK C : c \in Seq(C)
  BY <1>1 DEF QueryIsKept
<1>3. /\ builder' = [builder EXCEPT ![w] = NoBuilder] /\ UNCHANGED drop /\ Stray(w, "bulk", found)
      /\ rowsOf' = [rowsOf EXCEPT ![builder[w].table] = @ \ found]
  BY DEF BulkDelete
<1>4. ASSUME Strays(id, builder[w].scope, found) PROVE Len(c) > 1
  <2>1. id # Nobody /\ builder[w].scope = id /\ found \ {id} # {}
    BY <1>4 DEF Strays
  <2>2. id \in c[1]
    BY <1>1, <2>1 DEF QueryIsKept
  <2>3. Len(c) \in Nat /\ Len(c) >= 1 /\ DOMAIN c = 1 .. Len(c)
    BY <1>1, <1>2, EmptySeq, LenProperties
  <2>4. ~(\A i \in DOMAIN c : id \in c[i])
    <3> HIDE DEF c, id
    <3>1. (\A i \in DOMAIN c : id \in c[i]) => Selected(w, c) \ {id} = {}
      BY OneTenantIsReached
    <3> QED
      BY <2>1, <3>1
  <2>5. PICK i \in DOMAIN c : id \notin c[i]
    BY <2>4
  <2> QED
    <3>1. i \in 1 .. Len(c) /\ i # 1
      BY <2>2, <2>3, <2>5
    <3> QED
      BY <2>3, <3>1
<1>5. OnlyAlternativesStray'
  <2>1. strayed' = IF Strays(id, builder[w].scope, found) THEN strayed \cup {<<"bulk", Len(c)>>} ELSE strayed
    BY <1>3 DEF Stray
  <2> HIDE DEF c, id, found
  <2>2. ASSUME NEW s \in strayed'
        PROVE  (s[1] = "fetch" /\ s[2] > 2) \/ (s[1] = "bulk" /\ s[2] > 1) \/ s = <<"instance", 0>>
    <3>1. CASE s \in strayed
      BY <3>1 DEF RowInv, RowsAreScoped, OnlyAlternativesStray
    <3>2. CASE s \notin strayed
      BY <1>4, <2>1, <2>2, <3>2
    <3> QED
      BY <3>1, <3>2
  <2> QED
    BY <2>2 DEF OnlyAlternativesStray
<1>6. PICK b, gone : rowsOf' = [rowsOf EXCEPT ![b] = @ \ gone]
  BY <1>3
<1>7. RowsArePlain' /\ DroppedTenantIsGone'
  BY <1>3, <1>6, RowsGo
<1> QED
  BY <1>3, <1>5, <1>7, QueryIsRun DEF RowInv, RowsAreScoped

LEMMA CreateKeeps ==
  ASSUME RowInv, NEW w \in Works, NEW b \in ScopedTables, NEW owner, Create(w, b, owner)
  PROVE  RowInv'
<1> DEFINE filled == Filled(w, owner)
<1>1. /\ filled # Nobody /\ rowsOf' = [rowsOf EXCEPT ![b] = @ \cup {filled}]
      /\ drop' = IF filled = drop.tenant /\ b \notin drop.left THEN [drop EXCEPT !.added = @ \cup {b}] ELSE drop
      /\ UNCHANGED <<builder, strayed>>
  BY DEF Create
<1> HIDE DEF filled
<1>2. /\ rowsOf' = [c \in ScopedTables |-> rowsOf'[c]]
      /\ rowsOf'[b] = rowsOf[b] \cup {filled}
      /\ \A c \in ScopedTables : c # b => rowsOf'[c] = rowsOf[c]
  BY <1>1 DEF RowInv, RowsArePlain
<1>3. /\ drop' = [tenant |-> drop'.tenant, left |-> drop'.left, added |-> drop'.added]
      /\ drop'.tenant = drop.tenant /\ drop'.left = drop.left /\ drop.added \subseteq drop'.added
      /\ filled = drop.tenant /\ b \notin drop.left => b \in drop'.added
  BY <1>1 DEF RowInv, RowsArePlain
<1>4. RowsArePlain'
  BY <1>1, <1>2, <1>3 DEF RowInv, RowsArePlain
<1>5. DroppedTenantIsGone'
  BY <1>2, <1>3 DEF RowInv, RowsAreScoped, DroppedTenantIsGone
<1> QED
  BY <1>1, <1>4, <1>5, QueriesStay, StrayedStays DEF RowInv, RowsAreScoped

LEMMA InstanceKeeps ==
  ASSUME RowInv, NEW w \in Works, DeleteInstance(w)
  PROVE  RowInv'
<1>1. PICK b, gone : rowsOf' = [rowsOf EXCEPT ![b] = @ \ gone] /\ UNCHANGED <<builder, drop>>
  BY DEF DeleteInstance
<1>2. strayed' \subseteq strayed \cup {<<"instance", 0>>}
  BY DEF DeleteInstance, MayWrite
<1>3. OnlyAlternativesStray'
  BY <1>2 DEF RowInv, RowsAreScoped, OnlyAlternativesStray
<1> QED
  BY <1>1, <1>3, RowsGo, QueriesStay DEF RowInv, RowsAreScoped

LEMMA DropKeeps ==
  ASSUME RowInv,
         \/ \E t \in Tenants : BeginDrop(t)
         \/ \E b \in ScopedTables : DropTable(b)
  PROVE  RowInv'
<1>1. ASSUME NEW t \in Tenants, BeginDrop(t) PROVE RowsArePlain' /\ DroppedTenantIsGone' /\ UNCHANGED <<builder, strayed>>
  BY <1>1 DEF BeginDrop, RowInv, RowsArePlain, DroppedTenantIsGone
<1>2. ASSUME NEW b \in ScopedTables, DropTable(b)
      PROVE  RowsArePlain' /\ DroppedTenantIsGone' /\ UNCHANGED <<builder, strayed>>
  <2>1. rowsOf' = [rowsOf EXCEPT ![b] = @ \ {drop.tenant}] /\ UNCHANGED <<builder, strayed>>
    BY <1>2 DEF DropTable
  <2>2. /\ drop' = [tenant |-> drop'.tenant, left |-> drop'.left, added |-> drop'.added]
        /\ drop'.tenant = drop.tenant /\ drop'.left = drop.left \ {b} /\ drop'.added = drop.added
    BY <1>2 DEF DropTable, RowInv, RowsArePlain
  <2>3. /\ rowsOf' = [c \in ScopedTables |-> rowsOf'[c]]
        /\ rowsOf'[b] = rowsOf[b] \ {drop.tenant}
        /\ \A c \in ScopedTables : c # b => rowsOf'[c] = rowsOf[c]
    BY <2>1 DEF RowInv, RowsArePlain
  <2>4. RowsArePlain'
    BY <2>2, <2>3 DEF RowInv, RowsArePlain
  <2>5. DroppedTenantIsGone'
    BY <2>2, <2>3 DEF RowInv, RowsAreScoped, DroppedTenantIsGone
  <2> QED
    BY <2>1, <2>4, <2>5
<1> QED
  BY <1>1, <1>2, QueriesStay, StrayedStays DEF RowInv, RowsAreScoped

\* Row scoping (models/scoping.ts, rowscope_pg_driver.ts): what works in the scope of a
\* tenant reaches another's rows only through alternatives the caller added, or through an
\* instance without its column, and a destroyed tenant has no row but those that came after,
\* for any number of works, alternatives, tables and nested scopes.
THEOREM RowsStayScoped == RowScopeSpec => []RowsAreScoped
<1>1. ContextInit /\ RowScopeInit => RowInv
  <2> SUFFICES ASSUME RowScopeInit PROVE RowInv
    OBVIOUS
  <2>1. ASSUME NEW w \in Works PROVE QueryIsKept(w)
    <3>1. builder[w] = NoBuilder /\ <<>> \in Seq({})
      BY DEF RowScopeInit
    <3> QED
      BY <3>1 DEF QueryIsKept, NoBuilder
  <2>2. RowsArePlain /\ builder = [w \in Works |-> builder[w]]
    BY ContextAssumption DEF RowScopeInit, RowsArePlain, NoDrop
  <2>3. RowsAreScoped
    BY ContextAssumption DEF RowScopeInit, RowsAreScoped, OnlyAlternativesStray, DroppedTenantIsGone, NoDrop
  <2> QED
    BY <2>1, <2>2, <2>3 DEF RowInv
<1>2. RowInv /\ [RowScopeNext]_<<frames, scopeVars>> => RowInv'
  <2> SUFFICES ASSUME RowInv, [RowScopeNext]_<<frames, scopeVars>> PROVE RowInv'
    OBVIOUS
  <2>1. CASE UNCHANGED scopeVars
    BY <2>1, QueriesStay, RowsStay, StrayedStays DEF scopeVars, RowInv, RowsAreScoped
  <2>2. CASE DriverStep
    BY <2>2, DropKeeps, CreateKeeps DEF DriverStep
  <2>3. ASSUME NEW w \in Works, ModelStep(w) PROVE RowInv'
    BY <2>3, OrWhereKeeps, FetchKeeps, BulkKeeps, InstanceKeeps, QueryKeeps, CreateKeeps DEF ModelStep
  <2> QED
    BY <2>1, <2>2, <2>3 DEF RowScopeNext
<1>3. RowInv => RowsAreScoped
  BY DEF RowInv
<1> QED
  BY <1>1, <1>2, <1>3, PTL DEF RowScopeSpec

-----------------------------------------------------------------------------
(***************************************************************************)
(* The shared resources, for any tenants, names, scopes and handles.       *)
(***************************************************************************)

\* What a call leaves of the promise when it adds or takes away one key, in both or in none.
LEMMA KeysAgree ==
  ASSUME ResourcesArePrivate, NEW t \in Tenants \ spoiled, NEW n \in RelativeKeys, NEW u, NEW m
  PROVE  /\ <<prefix, t, n>> \in stored \cup {<<prefix, u, m>>} <=> <<t, n>> \in own \cup {<<u, m>>}
         /\ <<prefix, t, n>> \in stored \ {<<prefix, u, m>>} <=> <<t, n>> \in own \ {<<u, m>>}
         /\ u # t => (<<prefix, t, n>> \in stored \cup {<<prefix, u, m>>} <=> <<t, n>> \in own)
         /\ u # t => (<<prefix, t, n>> \in stored \ {<<prefix, u, m>>} <=> <<t, n>> \in own)
<1>1. <<prefix, t, n>> \in stored <=> <<t, n>> \in own
  BY DEF ResourcesArePrivate
<1>2. <<prefix, t, n>> = <<prefix, u, m>> <=> <<t, n>> = <<u, m>>
  OBVIOUS
<1>3. u # t => <<prefix, t, n>> # <<prefix, u, m>>
  OBVIOUS
<1> QED
  BY <1>1, <1>2, <1>3

\* A shared disk, cache, session, mailer and channels (services/bootstrappers/) have under
\* each tenant's name what it put there, for any nesting of scopes and any handles kept
\* across them, until a call reaches them that they do not keep apart.
THEOREM ResourcesStayPrivate == ResourcesSpec => []ResourcesArePrivate
<1> DEFINE ResourcesNext == ResourceStep \/ (UNCHANGED resourceVars /\ \E w \in Works : ContextStep(w))
<1>1. ContextInit /\ ResourcesInit => ResourcesArePrivate
  BY DEF ResourcesInit, ResourcesArePrivate
<1>2. ResourcesArePrivate /\ [ResourcesNext]_<<frames, resourceVars>> => ResourcesArePrivate'
  <2> SUFFICES ASSUME ResourcesArePrivate, [ResourcesNext]_<<frames, resourceVars>>
               PROVE  ResourcesArePrivate'
    OBVIOUS
  <2>1. CASE UNCHANGED resourceVars
    BY <2>1 DEF resourceVars, ResourcesArePrivate
  <2>2. ASSUME NEW w \in Works, NEW name \in RelativeKeys,
               PutKey(w, name) \/ ForgetKey(w, name) \/ PutUnprefixed(w, name) \/ SendInstance(w, name)
        PROVE  ResourcesArePrivate'
    <3>1. /\ prefix' = prefix /\ spoiled' = spoiled
          /\ \/ stored' = stored \cup {<<prefix, Caller(w), name>>} /\ own' = own \cup {<<Caller(w), name>>}
             \/ stored' = stored \ {<<prefix, Caller(w), name>>} /\ own' = own \ {<<Caller(w), name>>}
             \/ stored' = stored \cup {<<prefix, Nobody, name>>} /\ own' = own
      BY <2>2 DEF PutKey, ForgetKey, PutUnprefixed, SendInstance, Becomes, Prefixed
    <3>2. \A t \in Tenants : Nobody # t
      BY ContextAssumption
    <3> QED
      BY <3>1, <3>2, KeysAgree DEF ResourcesArePrivate
  <2>3. ASSUME NEW w \in Works, NEW from \in RelativeKeys, NEW to \in RelativeKeys, MoveKey(w, from, to)
        PROVE  ResourcesArePrivate'
    <3>1. /\ prefix' = prefix /\ spoiled' = spoiled
          /\ stored' = (stored \ {<<prefix, handle[w], from>>}) \cup {<<prefix, handle[w], to>>}
          /\ own' = (own \ {<<handle[w], from>>}) \cup {<<handle[w], to>>}
      BY <2>3 DEF MoveKey, Becomes, Prefixed, Destination, Caller, Handles
    <3>2. \A t \in Tenants \ spoiled, n \in RelativeKeys :
            <<prefix, t, n>> \in stored \ {<<prefix, handle[w], from>>} <=> <<t, n>> \in own \ {<<handle[w], from>>}
      BY KeysAgree
    <3>3. \A t \in Tenants, n \in RelativeKeys :
            <<prefix, t, n>> = <<prefix, handle[w], to>> <=> <<t, n>> = <<handle[w], to>>
      OBVIOUS
    <3> QED
      BY <3>1, <3>2, <3>3 DEF ResourcesArePrivate
  <2>4. ASSUME NEW w \in Works, TakeHandle(w)
        PROVE  ResourcesArePrivate'
    BY <2>4 DEF TakeHandle, ResourcesArePrivate
  <2>5. ASSUME NEW w \in Works, DeleteAll(w)
        PROVE  ResourcesArePrivate'
    <3>1. stored' = {} /\ own' = {k \in own : k[1] # handle[w]} /\ Tenants \ spoiled' \subseteq {handle[w]}
      BY <2>5 DEF DeleteAll, Becomes
    <3>2. \A t \in Tenants \ spoiled', n \in RelativeKeys : <<t, n>>[1] = handle[w]
      BY <3>1
    <3> QED
      BY <3>1, <3>2 DEF ResourcesArePrivate
  <2>6. ASSUME NEW w \in Works, NEW u \in Tenants, NEW name \in RelativeKeys, ClimbOut(w, u, name)
        PROVE  ResourcesArePrivate'
    <3>1. /\ prefix' = prefix /\ spoiled' = spoiled \cup {u} /\ own' = own
          /\ \/ stored' = stored \cup {<<prefix, u, name>>}
             \/ stored' = stored \ {<<prefix, u, name>>}
      BY <2>6 DEF ClimbOut, Becomes
    <3> QED
      BY <3>1, KeysAgree DEF ResourcesArePrivate
  <2>7. ASSUME NEW p \in ChannelPrefixes, CreateTransmit(p)
        PROVE  ResourcesArePrivate'
    BY <2>7 DEF CreateTransmit, ResourcesArePrivate
  <2> QED
    BY <2>1, <2>2, <2>3, <2>4, <2>5, <2>6, <2>7 DEF ResourceStep, ResourceCall
<1> QED
  BY <1>1, <1>2, PTL DEF ResourcesSpec

-----------------------------------------------------------------------------
(***************************************************************************)
(* Hooks, for any registrations and runs: an array a run iterates over     *)
(* only grows.                                                             *)
(***************************************************************************)

HookRunType ==
  [step : {"idle", "running", "done", "failed"}, array : Nat, called : Seq(HookNames), threw : BOOLEAN]

HookTypes ==
  /\ arrays \in Seq(Seq(HookNames))
  /\ cleared \in BOOLEAN
  /\ hookRun \in [HookRuns -> HookRunType]
  /\ atStart \in [HookRuns -> Seq(HookNames)]
  /\ ~cleared => arrays # <<>>

Begins(s, t) == Len(s) <= Len(t) /\ \A k \in 1..Len(s) : t[k] = s[k]

\* A run has an array, which has only grown since, and has called some of its first hooks.
HookRunInv(r) ==
  /\ hookRun[r].step = "idle" => hookRun[r].called = <<>>
  /\ hookRun[r].step # "idle" =>
       /\ hookRun[r].array \in DOMAIN arrays
       /\ Begins(atStart[r], Array(r))
       /\ Begins(hookRun[r].called, Array(r))
  /\ hookRun[r].step = "done" => Begins(atStart[r], hookRun[r].called)

HooksInv == HookTypes /\ \A r \in HookRuns : HookRunInv(r)

LEMMA BeginsIsStarts ==
  ASSUME NEW s \in Seq(HookNames), NEW t \in Seq(HookNames), Begins(s, t)
  PROVE  Starts(s, t)
<1> DEFINE u == SubSeq(t, 1, Len(s))
<1>1. Len(s) \in Nat /\ Len(t) \in Nat /\ Len(s) <= Len(t)
  BY DEF Begins
<1>2. u \in Seq(HookNames) /\ Len(u) = Len(s) /\ \A k \in 1..Len(s) : u[k] = t[k]
  BY <1>1
<1>3. \A k \in 1..Len(s) : u[k] = s[k]
  BY <1>2 DEF Begins
<1> HIDE DEF u
<1>4. u = s
  BY <1>2, <1>3, SeqEqual
<1> QED
  BY <1>1, <1>4 DEF Starts, u

\* A registration lengthens an array, or adds one: the runs keep theirs.
LEMMA Registering ==
  ASSUME HooksInv, NEW h \in HookNames, RegisterHook(h)
  PROVE  HooksInv'
<1>1. UNCHANGED <<hookRun, atStart>> /\ cleared' = FALSE /\ HookTypes
  BY DEF RegisterHook, HooksInv
<1>2. /\ arrays' \in Seq(Seq(HookNames)) /\ arrays' # <<>> /\ DOMAIN arrays \subseteq DOMAIN arrays'
      /\ \A i \in DOMAIN arrays : Len(arrays[i]) <= Len(arrays'[i])
                                 /\ \A k \in 1..Len(arrays[i]) : arrays'[i][k] = arrays[i][k]
  <2>1. CASE cleared
    <3>1. arrays' = Append(arrays, <<h>>) /\ <<h>> \in Seq(HookNames)
      BY <2>1 DEF RegisterHook
    <3>2. \A i \in DOMAIN arrays : arrays[i] \in Seq(HookNames) /\ arrays'[i] = arrays[i] /\ i \in DOMAIN arrays'
      BY <1>1, <3>1 DEF HookTypes
    <3>3. arrays' \in Seq(Seq(HookNames)) /\ arrays' # <<>>
      <4> DEFINE lists == Seq(HookNames)
      <4>1. arrays \in Seq(lists) /\ <<h>> \in lists
        BY <1>1, <3>1 DEF HookTypes
      <4> HIDE DEF lists
      <4>2. Append(arrays, <<h>>) \in Seq(lists)
        BY <4>1
      <4>3. Append(arrays, <<h>>) # <<>>
        BY <4>1, AppendProperties
      <4> QED
        BY <3>1, <4>2, <4>3 DEF lists
    <3> QED
      BY <3>2, <3>3
  <2>2. CASE ~cleared
    <3> DEFINE n == Len(arrays)
               longer == Append(arrays[n], h)
    <3>1. n \in DOMAIN arrays /\ arrays[n] \in Seq(HookNames) /\ arrays' = [arrays EXCEPT ![n] = longer]
      BY <1>1, <2>2 DEF HookTypes, RegisterHook
    <3>2. /\ longer \in Seq(HookNames) /\ Len(longer) = Len(arrays[n]) + 1 /\ Len(arrays[n]) \in Nat
          /\ \A k \in 1..Len(arrays[n]) : longer[k] = arrays[n][k]
      BY <3>1
    <3> HIDE DEF n, longer
    <3>3. /\ arrays' \in Seq(Seq(HookNames)) /\ DOMAIN arrays' = DOMAIN arrays /\ Len(arrays') = Len(arrays)
          /\ \A i \in DOMAIN arrays : arrays'[i] = IF i = n THEN longer ELSE arrays[i]
      BY <1>1, <3>1, <3>2 DEF HookTypes
    <3>4. \A i \in DOMAIN arrays : arrays[i] \in Seq(HookNames)
      BY <1>1 DEF HookTypes
    <3>5. arrays' # <<>>
      BY <1>1, <2>2, <3>3 DEF HookTypes
    <3> QED
      BY <3>1, <3>2, <3>3, <3>4, <3>5
  <2> QED
    BY <1>1, <2>1, <2>2 DEF HookTypes
<1>3. ASSUME NEW r \in HookRuns PROVE HookRunInv(r)'
  <2>1. HookRunInv(r)
    BY DEF HooksInv
  <2>2. CASE hookRun[r].step = "idle"
    BY <1>1, <2>1, <2>2 DEF HookRunInv
  <2>3. CASE hookRun[r].step # "idle"
    <3>1. hookRun[r].array \in DOMAIN arrays /\ arrays[hookRun[r].array] \in Seq(HookNames)
      BY <1>1, <2>1, <2>3 DEF HookRunInv, HookTypes
    <3>2. /\ Len(Array(r)) \in Nat /\ Len(Array(r)) <= Len(Array(r)')
          /\ \A k \in 1..Len(Array(r)) : Array(r)'[k] = Array(r)[k]
      BY <1>1, <1>2, <3>1 DEF Array
    <3>3. atStart[r] \in Seq(HookNames) /\ hookRun[r].called \in Seq(HookNames) /\ Array(r)' \in Seq(HookNames)
      BY <1>1, <1>2, <3>1 DEF HookTypes, HookRunType, Array
    <3>4. Begins(atStart[r], Array(r))' /\ Begins(hookRun[r].called, Array(r))'
      BY <1>1, <2>1, <2>3, <3>2, <3>3 DEF HookRunInv, Begins
    <3> QED
      BY <1>1, <1>2, <2>1, <3>1, <3>4 DEF HookRunInv, Begins
  <2> QED
    BY <2>2, <2>3
<1> QED
  BY <1>1, <1>2, <1>3 DEF HooksInv, HookTypes

LEMMA Beginning ==
  ASSUME HooksInv, NEW r \in HookRuns, BeginHooks(r)
  PROVE  HooksInv'
<1> DEFINE n == Len(arrays)
           new == [hookRun[r] EXCEPT !.step = "running", !.array = n]
<1>1. HookTypes /\ n \in Nat /\ n \in DOMAIN arrays /\ arrays[n] \in Seq(HookNames) /\ hookRun[r].step = "idle"
  <2>1. HookTypes /\ ~cleared /\ hookRun[r].step = "idle"
    BY DEF BeginHooks, HooksInv
  <2> QED
    BY <2>1 DEF HookTypes
<1>2. /\ new \in HookRunType /\ new.step = "running" /\ new.array = n /\ new.called = hookRun[r].called
  BY <1>1 DEF HookTypes, HookRunType
<1>3. hookRun' = [hookRun EXCEPT ![r] = new] /\ atStart' = [atStart EXCEPT ![r] = arrays[n]]
      /\ UNCHANGED <<arrays, cleared>>
  BY DEF BeginHooks
<1> HIDE DEF n, new
<1>4. HookTypes'
  BY <1>1, <1>2, <1>3 DEF HookTypes
<1>5. hookRun[r].called = <<>>
  BY <1>1 DEF HooksInv, HookRunInv
<1>6. HookRunInv(r)'
  <2>1. hookRun'[r] = new /\ atStart'[r] = arrays[n] /\ Array(r)' = arrays[n]
    BY <1>1, <1>2, <1>3 DEF HookTypes, Array
  <2>2. Begins(arrays[n], arrays[n]) /\ Begins(<<>>, arrays[n])
    BY <1>1 DEF Begins
  <2> QED
    BY <1>1, <1>2, <1>3, <1>5, <2>1, <2>2 DEF HookRunInv
<1>7. ASSUME NEW q \in HookRuns \ {r} PROVE HookRunInv(q)'
  <2>1. hookRun'[q] = hookRun[q] /\ atStart'[q] = atStart[q]
    BY <1>1, <1>3 DEF HookTypes
  <2> QED
    BY <1>3, <2>1 DEF HooksInv, HookRunInv, Array
<1> QED
  BY <1>4, <1>6, <1>7 DEF HooksInv

\* The hook that is called is the next of the array.
LEMMA CallsNext ==
  ASSUME NEW s \in Seq(HookNames), NEW t \in Seq(HookNames), NEW u \in Seq(HookNames),
         Begins(s, t), Len(s) < Len(t), u = Append(s, t[Len(s) + 1])
  PROVE  Begins(u, t)
<1>1. Len(u) = Len(s) + 1 /\ \A k \in 1..Len(u) : u[k] = IF k = Len(s) + 1 THEN t[k] ELSE s[k]
  OBVIOUS
<1> QED
  BY <1>1 DEF Begins

LEMMA Calling ==
  ASSUME HooksInv, NEW r \in HookRuns, CallHook(r) \/ EndHooks(r)
  PROVE  HooksInv'
<1>1. /\ HookTypes /\ HookRunInv(r) /\ hookRun[r].step = "running" /\ Array(r) \in Seq(HookNames)
      /\ UNCHANGED <<arrays, cleared, atStart>> /\ hookRun[r].called \in Seq(HookNames)
      /\ Begins(hookRun[r].called, Array(r)) /\ Begins(atStart[r], Array(r))
  <2>1. HookTypes /\ HookRunInv(r) /\ hookRun[r].step = "running" /\ UNCHANGED <<arrays, cleared, atStart>>
    BY DEF CallHook, EndHooks, HooksInv
  <2>2. hookRun[r].called \in Seq(HookNames) /\ hookRun[r].array \in DOMAIN arrays
    BY <2>1 DEF HookTypes, HookRunType, HookRunInv
  <2>3. Array(r) \in Seq(HookNames)
    BY <2>1, <2>2 DEF HookTypes, Array
  <2> QED
    BY <2>1, <2>2, <2>3 DEF HookRunInv
<1>2. PICK new \in HookRunType :
        /\ hookRun' = [hookRun EXCEPT ![r] = new]
        /\ new.step \in {"running", "failed", "done"} /\ new.array = hookRun[r].array
        /\ Begins(new.called, Array(r))
        /\ new.step = "done" => new.called = hookRun[r].called /\ Len(new.called) = Len(Array(r))
  <2>1. CASE CallHook(r)
    <3>1. PICK throws \in BOOLEAN :
            hookRun' = [hookRun EXCEPT
              ![r].called = Append(hookRun[r].called, Array(r)[Called(r) + 1]),
              ![r].threw = throws,
              ![r].step = IF throws /\ phase = "before" THEN "failed" ELSE "running"]
      BY <2>1 DEF CallHook
    <3> DEFINE longer == Append(hookRun[r].called, Array(r)[Called(r) + 1])
               step == IF throws /\ phase = "before" THEN "failed" ELSE "running"
               run == [hookRun[r] EXCEPT !.called = longer, !.threw = throws, !.step = step]
    <3>2. longer \in Seq(HookNames) /\ Begins(longer, Array(r))
      <4>1. Called(r) = Len(hookRun[r].called) /\ Called(r) < Len(Array(r))
        BY <2>1 DEF CallHook, Called
      <4>2. Array(r)[Called(r) + 1] \in HookNames
        BY <1>1, <4>1
      <4>3. longer \in Seq(HookNames)
        BY <1>1, <4>2
      <4>5. Len(hookRun[r].called) < Len(Array(r))
        BY <4>1
      <4>4. longer = Append(hookRun[r].called, Array(r)[Len(hookRun[r].called) + 1])
        BY <4>1
      <4> HIDE DEF longer
      <4> QED
        BY <1>1, <4>3, <4>4, <4>5, CallsNext
    <3>3. step \in {"running", "failed"}
      OBVIOUS
    <3> HIDE DEF longer, step
    <3>4. /\ run \in HookRunType /\ run.step = step /\ run.array = hookRun[r].array /\ run.called = longer
      BY <1>1, <3>2, <3>3 DEF HookTypes, HookRunType
    <3>5. hookRun' = [hookRun EXCEPT ![r] = run]
      BY <3>1 DEF longer, step
    <3> HIDE DEF run
    <3> QED
      BY <3>2, <3>3, <3>4, <3>5
  <2>2. CASE EndHooks(r)
    <3> DEFINE run == [hookRun[r] EXCEPT !.step = "done"]
    <3>1. run \in HookRunType /\ run.step = "done" /\ run.array = hookRun[r].array /\ run.called = hookRun[r].called
      BY <1>1 DEF HookTypes, HookRunType
    <3>2. hookRun' = [hookRun EXCEPT ![r] = run] /\ Len(hookRun[r].called) = Len(Array(r))
      BY <2>2 DEF EndHooks, Called
    <3> HIDE DEF run
    <3> QED
      BY <1>1, <3>1, <3>2
  <2> QED
    BY <2>1, <2>2
<1>3. HookTypes'
  BY <1>1, <1>2 DEF HookTypes
<1>4. HookRunInv(r)'
  <2>1. hookRun'[r] = new /\ Array(r)' = Array(r)
    BY <1>1, <1>2 DEF HookTypes, Array
  <2>2. new.step = "done" => Begins(atStart[r], new.called)
    <3>1. atStart[r] \in Seq(HookNames)
      BY <1>1 DEF HookTypes
    <3> QED
      BY <1>1, <1>2, <3>1 DEF Begins
  <2> QED
    BY <1>1, <1>2, <2>1, <2>2 DEF HookRunInv
<1>5. ASSUME NEW q \in HookRuns \ {r} PROVE HookRunInv(q)'
  <2>1. hookRun'[q] = hookRun[q]
    BY <1>1, <1>2 DEF HookTypes
  <2> QED
    BY <1>1, <2>1 DEF HooksInv, HookRunInv, Array
<1> QED
  BY <1>3, <1>4, <1>5 DEF HooksInv

\* Hooks run in the order of their registration (hook_registry.ts), whatever is registered
\* or cleared while a run awaits one of them.
THEOREM HooksKeepOrder == HooksSpec => []HooksRunInOrder
<1>1. HooksInit => HooksInv
  <2> SUFFICES ASSUME HooksInit PROVE HooksInv
    OBVIOUS
  <2>1. /\ \A r \in HookRuns : hookRun[r] \in HookRunType /\ hookRun[r].step = "idle" /\ hookRun[r].called = <<>>
        /\ hookRun \in [HookRuns -> HookRunType] /\ atStart \in [HookRuns -> Seq(HookNames)]
    BY DEF HooksInit, HookRunType
  <2> QED
    BY <2>1 DEF HooksInit, HooksInv, HookTypes, HookRunInv
<1>2. HooksInv /\ [HooksNext]_hookVars => HooksInv'
  <2> SUFFICES ASSUME HooksInv, [HooksNext]_hookVars PROVE HooksInv'
    OBVIOUS
  <2>1. CASE UNCHANGED hookVars
    BY <2>1 DEF hookVars, HooksInv, HookTypes, HookRunInv, Array
  <2>2. CASE ClearHooks
    BY <2>2 DEF ClearHooks, HooksInv, HookTypes, HookRunInv, Array
  <2>3. CASE HooksNext /\ ~ClearHooks
    BY <2>3, Registering, Beginning, Calling DEF HooksNext
  <2> QED
    BY <2>1, <2>2, <2>3
<1>3. HooksInv => HooksRunInOrder
  <2> SUFFICES ASSUME HooksInv, NEW r \in HookRuns
               PROVE  /\ hookRun[r].step = "done" => Starts(atStart[r], hookRun[r].called)
                      /\ hookRun[r].step = "failed" =>
                           (Starts(hookRun[r].called, atStart[r]) \/ Starts(atStart[r], hookRun[r].called))
    BY DEF HooksRunInOrder
  <2>1. atStart[r] \in Seq(HookNames) /\ hookRun[r].called \in Seq(HookNames) /\ HookRunInv(r)
    BY DEF HooksInv, HookTypes, HookRunType
  <2>2. hookRun[r].step = "done" => Starts(atStart[r], hookRun[r].called)
    BY <2>1, BeginsIsStarts DEF HookRunInv
  <2>3. hookRun[r].step = "failed" => Begins(hookRun[r].called, atStart[r]) \/ Begins(atStart[r], hookRun[r].called)
    <3>1. Len(atStart[r]) \in Nat /\ Len(hookRun[r].called) \in Nat
      BY <2>1
    <3> QED
      BY <2>1, <3>1 DEF HookRunInv, Begins
  <2> QED
    BY <2>1, <2>2, <2>3, BeginsIsStarts
<1> QED
  BY <1>1, <1>2, <1>3, PTL DEF HooksSpec

-----------------------------------------------------------------------------
(***************************************************************************)
(* Read replicas, for any hosts, resolvers and width of the cursor. The    *)
(* turns need arithmetic: a pick moves the cursor by one modulo the hosts, *)
(* except where it wraps at its own width.                                 *)
(***************************************************************************)

ResolverType == [step : {"idle", "picked", "connect", "add"}, tenant : ReadTenants, idx : Indexes]

ReplicaTypes ==
  /\ hosts \in 1..MaxHosts
  /\ strategy \in {"random", "sticky", "round-robin"}
  /\ driver \in {"database-pg", "schema-pg", "rowscope-pg"}
  /\ hash \in [ReadTenants -> 0..(hosts - 1)]
  /\ cursor \in 0..(2 ^ CursorWidth - 1)
  /\ replica \in [ReadTenants -> [Indexes -> {"none", "tenant", "shared", "nothing"}]]
  /\ resolver \in [Resolvers -> ResolverType]
  /\ picks \in [Indexes -> Nat]
  /\ wraps \in Nat
  /\ torn \subseteq ReadTenants
  /\ served \subseteq ReadTenants \X Indexes

\* A replica that has had its turn in this round is one pick ahead.
HadTurn(i) == IF i < cursor % hosts THEN 1 ELSE 0

TurnInv ==
  strategy = "round-robin" =>
    \A i, j \in 0..(hosts - 1) : picks[i] + HadTurn(j) <= picks[j] + HadTurn(i) + wraps

Sticks(t, i) == strategy = "sticky" => i = hash[t]

\* Whether a clone of the tenant's own connection that is made now, or was, is one.
Torn(t) == driver # "database-pg" \/ t \in torn

ResolverInv ==
  \A r \in Resolvers :
    /\ resolver[r].step # "idle" => Sticks(resolver[r].tenant, resolver[r].idx)
    /\ resolver[r].step = "add" => resolver[r].tenant \in primary \/ Torn(resolver[r].tenant)

ServedInv ==
  /\ \A p \in served : Sticks(p[1], p[2]) /\ replica[p[1]][p[2]] # "none"
  /\ \A t \in ReadTenants, i \in Indexes : replica[t][i] \in {"shared", "nothing"} => Torn(t)

ReplicasInv == ReplicaTypes /\ TurnInv /\ ResolverInv /\ ServedInv

-----------------------------------------------------------------------------
(* The turns.                                                              *)

LEMMA Remainder ==
  ASSUME NEW h \in Nat \ {0}, NEW q \in Int, NEW r \in 0..(h - 1)
  PROVE  (h * q + r) % h = r
BY SMT

Turn(c, h) == c % h

\* Counting on goes round.
LEMMA TurnFollows ==
  ASSUME NEW c \in Nat, NEW h \in Nat \ {0}
  PROVE  Turn(c, h) \in 0..(h - 1) /\ Turn(c + 1, h) = IF Turn(c, h) + 1 = h THEN 0 ELSE Turn(c, h) + 1
<1> DEFINE q == c \div h
           r == c % h
<1>1. c = h * q + r /\ q \in Int /\ r \in 0..(h - 1)
  BY SMT
<1> HIDE DEF q, r
<1>2. ASSUME r + 1 = h PROVE (c + 1) % h = 0
  <2>1. c + 1 = h * (q + 1) + 0
    BY <1>1, <1>2
  <2> QED
    BY <1>1, <1>2, <2>1, Remainder
<1>3. ASSUME r + 1 # h PROVE (c + 1) % h = r + 1
  <2>1. c + 1 = h * q + (r + 1) /\ r + 1 \in 0..(h - 1)
    BY <1>1, <1>3
  <2> QED
    BY <1>1, <1>3, <2>1, Remainder
<1>4. Turn(c, h) = r /\ Turn(c + 1, h) = (c + 1) % h
  BY DEF Turn, r
<1> QED
  BY <1>1, <1>2, <1>3, <1>4

\* The cursor after a pick, and the replica whose turn it is then.
LEMMA CursorMoves ==
  ASSUME ReplicaTypes
  PROVE  /\ cursor \in Nat /\ hosts \in Nat \ {0} /\ cursor % hosts \in 0..(hosts - 1)
         /\ NextCursor \in 0..(2 ^ CursorWidth - 1)
         /\ NextCursor % hosts =
              IF NextCursor < cursor /\ OutOfTurn THEN 0
              ELSE IF (cursor % hosts) + 1 = hosts THEN 0 ELSE (cursor % hosts) + 1
<1> DEFINE m == 2 ^ CursorWidth
<1>1. m \in Nat \ {0, 1} /\ cursor \in 0..(m - 1) /\ hosts \in Nat \ {0}
  BY ReplicasAssumption DEF ReplicaTypes
<1>2. NextCursor = (cursor + 1) % m /\ (OutOfTurn <=> m % hosts # 0)
  BY DEF NextCursor, OutOfTurn
<1> HIDE DEF m
<1>3. cursor % m = cursor
  <2>1. cursor = m * 0 + cursor
    BY <1>1
  <2> QED
    BY <1>1, <2>1, Remainder
<1>4. NextCursor = IF cursor + 1 = m THEN 0 ELSE cursor + 1
  <2>1. Turn(cursor, m) = cursor /\ NextCursor = Turn(cursor + 1, m)
    BY <1>2, <1>3 DEF Turn
  <2>2. Turn(cursor + 1, m) = IF Turn(cursor, m) + 1 = m THEN 0 ELSE Turn(cursor, m) + 1
    BY <1>1, TurnFollows
  <2> QED
    BY <2>1, <2>2
<1>5. cursor % hosts \in 0..(hosts - 1) /\ 0 % hosts = 0
  BY <1>1
<1>6. (cursor + 1) % hosts = IF (cursor % hosts) + 1 = hosts THEN 0 ELSE (cursor % hosts) + 1
  <2>1. Turn(cursor + 1, hosts) = IF Turn(cursor, hosts) + 1 = hosts THEN 0 ELSE Turn(cursor, hosts) + 1
    BY <1>1, TurnFollows
  <2> QED
    BY <2>1 DEF Turn
<1>7. NextCursor \in 0..(m - 1) /\ (NextCursor < cursor <=> cursor + 1 = m)
  BY <1>1, <1>4
<1>8. NextCursor % hosts = IF NextCursor < cursor /\ OutOfTurn THEN 0
                           ELSE IF (cursor % hosts) + 1 = hosts THEN 0 ELSE (cursor % hosts) + 1
  <2>1. CASE cursor + 1 = m
    <3>1. NextCursor = 0 /\ NextCursor < cursor
      BY <1>4, <1>7, <2>1
    <3>2. ~OutOfTurn => (cursor + 1) % hosts = 0
      BY <1>2, <2>1
    <3> QED
      BY <1>5, <1>6, <3>1, <3>2
  <2>2. CASE cursor + 1 # m
    <3>1. NextCursor = cursor + 1 /\ ~(NextCursor < cursor)
      BY <1>4, <1>7, <2>2
    <3> QED
      BY <1>6, <3>1
  <2> QED
    BY <2>1, <2>2
<1> QED
  BY <1>1, <1>5, <1>7, <1>8 DEF m

-----------------------------------------------------------------------------
(* The steps.                                                              *)

\* A pick takes the turn of the replica it picks; the next round begins when all have had
\* theirs, or out of turn, which is counted.
LEMMA TurnsGoOn ==
  ASSUME ReplicasInv, strategy = "round-robin", NEW i \in Indexes, i = cursor % hosts,
         picks' = [picks EXCEPT ![i] = picks[i] + 1], cursor' = NextCursor,
         wraps' = IF cursor' < cursor /\ OutOfTurn THEN wraps + 1 ELSE wraps, UNCHANGED <<hosts, strategy>>
  PROVE  TurnInv'
<1> DEFINE r == cursor % hosts
           q == NextCursor % hosts
           again == NextCursor < cursor /\ OutOfTurn
<1>1. /\ hosts \in Nat \ {0} /\ r \in 0..(hosts - 1) /\ again \in BOOLEAN
      /\ q = IF again THEN 0 ELSE IF r + 1 = hosts THEN 0 ELSE r + 1
  BY CursorMoves DEF ReplicasInv
<1>2. i = r /\ q = (cursor % hosts)' /\ wraps' = IF again THEN wraps + 1 ELSE wraps
  OBVIOUS
<1>3. \A k \in 0..(hosts - 1) : HadTurn(k) = (IF k < r THEN 1 ELSE 0) /\ HadTurn(k)' = (IF k < q THEN 1 ELSE 0)
  BY <1>2 DEF HadTurn
<1>4. \A k \in 0..(hosts - 1) : k \in Indexes /\ picks[k] \in Nat
  BY ReplicasAssumption DEF ReplicasInv, ReplicaTypes, Indexes
<1>5. \A k \in 0..(hosts - 1) : picks'[k] = IF k = r THEN picks[k] + 1 ELSE picks[k]
  BY <1>2, <1>4 DEF ReplicasInv, ReplicaTypes
<1>6. wraps \in Nat
  BY DEF ReplicasInv, ReplicaTypes
<1>7. \A k, l \in 0..(hosts - 1) :
        picks[k] + (IF l < r THEN 1 ELSE 0) <= picks[l] + (IF k < r THEN 1 ELSE 0) + wraps
  BY <1>3 DEF ReplicasInv, TurnInv
<1> HIDE DEF r, q, again
<1>8. ASSUME NEW k \in 0..(hosts - 1), NEW l \in 0..(hosts - 1)
      PROVE  picks'[k] + (IF l < q THEN 1 ELSE 0) <= picks'[l] + (IF k < q THEN 1 ELSE 0) + wraps'
  <2>1. k = l => picks'[k] = picks'[l] /\ wraps' \in Nat /\ picks'[k] \in Nat
    BY <1>2, <1>4, <1>5, <1>6
  <2>2. CASE k = l
    BY <1>4, <2>1, <2>2
  <2>3. CASE k # l
    BY <1>1, <1>2, <1>4, <1>5, <1>6, <1>7, <2>3
  <2> QED
    BY <2>2, <2>3
<1> QED
  BY <1>3, <1>8 DEF TurnInv

LEMMA Picking ==
  ASSUME ReplicasInv, NEW r \in Resolvers, PickReplica(r)
  PROVE  ReplicasInv'
<1>0. PICK t \in ReadTenants : \E i \in Candidates(t) :
        /\ picks' = [picks EXCEPT ![i] = picks[i] + 1]
        /\ cursor' = IF strategy = "round-robin" THEN NextCursor ELSE cursor
        /\ wraps' = IF cursor' < cursor /\ OutOfTurn THEN wraps + 1 ELSE wraps
        /\ resolver' = [resolver EXCEPT ![r] = [AtRest EXCEPT !.step = "picked", !.tenant = t, !.idx = i]]
  BY DEF PickReplica
<1>1. PICK i \in Candidates(t) :
        /\ picks' = [picks EXCEPT ![i] = picks[i] + 1]
        /\ cursor' = IF strategy = "round-robin" THEN NextCursor ELSE cursor
        /\ wraps' = IF cursor' < cursor /\ OutOfTurn THEN wraps + 1 ELSE wraps
        /\ resolver' = [resolver EXCEPT ![r] = [AtRest EXCEPT !.step = "picked", !.tenant = t, !.idx = i]]
  BY <1>0
<1>2. UNCHANGED <<hosts, strategy, driver, hash, primary, replica, torn, served>>
  BY DEF PickReplica
<1>3. cursor \in Nat /\ cursor % hosts \in 0..(hosts - 1) /\ NextCursor \in 0..(2 ^ CursorWidth - 1)
  BY CursorMoves DEF ReplicasInv
<1>4. i \in Indexes /\ Sticks(t, i) /\ (strategy = "round-robin" => i = cursor % hosts)
  BY <1>3, ReplicasAssumption DEF Candidates, Indexes, Sticks, ReplicasInv, ReplicaTypes
<1> DEFINE new == [AtRest EXCEPT !.step = "picked", !.tenant = t, !.idx = i]
<1>5. new \in ResolverType /\ new.step = "picked" /\ new.tenant = t /\ new.idx = i
  BY <1>4, ReplicasAssumption DEF AtRest, ResolverType, Indexes
<1>6. resolver' = [resolver EXCEPT ![r] = new]
  BY <1>1
<1> HIDE DEF new
<1>7. ReplicaTypes'
  <2>1. picks' \in [Indexes -> Nat] /\ wraps' \in Nat /\ cursor' \in 0..(2 ^ CursorWidth - 1)
    BY <1>1, <1>3, <1>4 DEF ReplicasInv, ReplicaTypes
  <2>2. resolver' \in [Resolvers -> ResolverType]
    BY <1>5, <1>6 DEF ReplicasInv, ReplicaTypes
  <2> QED
    BY <1>2, <2>1, <2>2 DEF ReplicasInv, ReplicaTypes
<1>8. TurnInv'
  <2>1. CASE strategy = "round-robin"
    BY <1>1, <1>2, <1>4, <2>1, TurnsGoOn
  <2>2. CASE strategy # "round-robin"
    BY <1>2, <2>2 DEF TurnInv
  <2> QED
    BY <2>1, <2>2
<1>9. ResolverInv'
  BY <1>2, <1>4, <1>5, <1>6 DEF ReplicasInv, ReplicaTypes, ResolverInv, Sticks, Torn
<1>10. ServedInv'
  BY <1>2 DEF ReplicasInv, ServedInv, Sticks, Torn
<1> QED
  BY <1>7, <1>8, <1>9, <1>10 DEF ReplicasInv

\* A request goes to another step, and keeps what it picked.
LEMMA ResolverGoes ==
  ASSUME ReplicaTypes, NEW r \in Resolvers, NEW step \in {"connect", "add"},
         resolver' = [resolver EXCEPT ![r].step = step]
  PROVE  /\ resolver' \in [Resolvers -> ResolverType]
         /\ resolver'[r].step = step /\ resolver'[r].tenant = resolver[r].tenant /\ resolver'[r].idx = resolver[r].idx
         /\ \A s \in Resolvers \ {r} : resolver'[s] = resolver[s]
BY DEF ReplicaTypes, ResolverType

\* A request that hands out its connection.
LEMMA Serves ==
  ASSUME ReplicasInv, NEW r \in Resolvers, Serve(r), resolver[r].step # "idle",
         UNCHANGED <<hosts, strategy, driver, hash, cursor, primary, picks, wraps, torn>>,
         replica' \in [ReadTenants -> [Indexes -> {"none", "tenant", "shared", "nothing"}]],
         replica'[resolver[r].tenant][resolver[r].idx] # "none",
         \A t \in ReadTenants, i \in Indexes :
           replica'[t][i] = replica[t][i] \/ (replica[t][i] = "none" /\ (replica'[t][i] \in {"shared", "nothing"} => Torn(t)))
  PROVE  ReplicasInv'
<1>1. AtRest \in ResolverType /\ AtRest.step = "idle"
  <2>1. 0 \in Indexes
    BY ReplicasAssumption DEF ReplicasInv, ReplicaTypes, Indexes
  <2> QED
    BY <2>1, ReplicasAssumption DEF AtRest, ResolverType
<1>2. /\ resolver' \in [Resolvers -> ResolverType] /\ resolver'[r] = AtRest
      /\ \A s \in Resolvers \ {r} : resolver'[s] = resolver[s]
  BY <1>1 DEF Serve, ReplicasInv, ReplicaTypes
<1>3. resolver[r].tenant \in ReadTenants /\ resolver[r].idx \in Indexes
      /\ served' = served \cup {<<resolver[r].tenant, resolver[r].idx>>}
  BY DEF Serve, ReplicasInv, ReplicaTypes, ResolverType
<1>4. ReplicaTypes'
  BY <1>2, <1>3 DEF ReplicasInv, ReplicaTypes
<1>5. TurnInv'
  BY DEF ReplicasInv, TurnInv, HadTurn
<1>6. ResolverInv'
  BY <1>1, <1>2 DEF ReplicasInv, ResolverInv, Sticks, Torn
<1>7. ServedInv'
  <2>1. \A p \in served : p[1] \in ReadTenants /\ p[2] \in Indexes
    BY DEF ReplicasInv, ReplicaTypes
  <2>2. \A p \in served : Sticks(p[1], p[2])' /\ replica'[p[1]][p[2]] # "none"
    BY <2>1 DEF ReplicasInv, ServedInv, Sticks
  <2>3. Sticks(resolver[r].tenant, resolver[r].idx)
    BY DEF ReplicasInv, ResolverInv
  <2>4. \A p \in served' : Sticks(p[1], p[2])' /\ replica'[p[1]][p[2]] # "none"
    BY <1>3, <2>2, <2>3 DEF Sticks
  <2>5. \A t \in ReadTenants, i \in Indexes : replica'[t][i] \in {"shared", "nothing"} => Torn(t)'
    BY DEF ReplicasInv, ServedInv, Torn
  <2> QED
    BY <2>4, <2>5 DEF ServedInv
<1> QED
  BY <1>4, <1>5, <1>6, <1>7 DEF ReplicasInv

LEMMA Finding ==
  ASSUME ReplicasInv, NEW r \in Resolvers, FindReplica(r)
  PROVE  ReplicasInv'
<1>1. /\ UNCHANGED <<hosts, strategy, driver, hash, cursor, primary, replica, picks, wraps, torn>>
      /\ resolver[r].step = "picked"
  BY DEF FindReplica
<1>2. CASE replica[resolver[r].tenant][resolver[r].idx] # "none" /\ Serve(r)
  BY <1>1, <1>2, Serves DEF ReplicasInv, ReplicaTypes
<1>3. CASE resolver' = [resolver EXCEPT ![r].step = "connect"] /\ UNCHANGED served
  <2>1. /\ resolver' \in [Resolvers -> ResolverType]
        /\ resolver'[r].step = "connect" /\ resolver'[r].tenant = resolver[r].tenant
        /\ resolver'[r].idx = resolver[r].idx
        /\ \A s \in Resolvers \ {r} : resolver'[s] = resolver[s]
    BY <1>3, ResolverGoes DEF ReplicasInv
  <2>2. ResolverInv'
    BY <1>1, <2>1 DEF ReplicasInv, ResolverInv, Sticks, Torn
  <2> QED
    BY <1>1, <1>3, <2>1, <2>2 DEF ReplicasInv, ReplicaTypes, TurnInv, HadTurn, ServedInv, Sticks, Torn
<1> QED
  BY <1>2, <1>3 DEF FindReplica

LEMMA Connecting ==
  ASSUME ReplicasInv, NEW r \in Resolvers, ConnectPrimary(r)
  PROVE  ReplicasInv'
<1>1. /\ UNCHANGED <<hosts, strategy, driver, hash, cursor, replica, picks, wraps, torn, served>>
      /\ resolver[r].step = "connect" /\ resolver' = [resolver EXCEPT ![r].step = "add"]
      /\ primary \subseteq primary' /\ (driver # "rowscope-pg" => resolver[r].tenant \in primary')
  BY DEF ConnectPrimary
<1>2. /\ resolver' \in [Resolvers -> ResolverType]
      /\ resolver'[r].step = "add" /\ resolver'[r].tenant = resolver[r].tenant
      /\ resolver'[r].idx = resolver[r].idx
      /\ \A s \in Resolvers \ {r} : resolver'[s] = resolver[s]
  BY <1>1, ResolverGoes DEF ReplicasInv
<1>3. ResolverInv'
  BY <1>1, <1>2 DEF ReplicasInv, ResolverInv, Sticks, Torn
<1> QED
  BY <1>1, <1>2, <1>3 DEF ReplicasInv, ReplicaTypes, TurnInv, HadTurn, ServedInv, Sticks, Torn

LEMMA Adding ==
  ASSUME ReplicasInv, NEW r \in Resolvers, AddReplica(r)
  PROVE  ReplicasInv'
<1> DEFINE t == resolver[r].tenant
           i == resolver[r].idx
           made == Copied(t)
<1>1. /\ UNCHANGED <<hosts, strategy, driver, hash, cursor, primary, picks, wraps, torn>> /\ Serve(r)
      /\ resolver[r].step = "add"
      /\ replica' = IF replica[t][i] # "none" THEN replica
                    ELSE [replica EXCEPT ![t] = [replica[t] EXCEPT ![i] = made]]
  BY DEF AddReplica
<1>2. t \in ReadTenants /\ i \in Indexes /\ made \in {"tenant", "shared", "nothing"} /\ (made # "tenant" => Torn(t))
      /\ replica \in [ReadTenants -> [Indexes -> {"none", "tenant", "shared", "nothing"}]]
  BY <1>1 DEF ReplicasInv, ReplicaTypes, ResolverType, ResolverInv, Copied, Torn
<1> HIDE DEF made, t, i
<1>3. /\ replica' \in [ReadTenants -> [Indexes -> {"none", "tenant", "shared", "nothing"}]]
      /\ replica'[t][i] # "none"
  BY <1>1, <1>2
<1>4. \A s \in ReadTenants, k \in Indexes :
        replica'[s][k] = replica[s][k] \/ (replica[s][k] = "none" /\ (replica'[s][k] \in {"shared", "nothing"} => Torn(s)))
  <2> SUFFICES ASSUME NEW s \in ReadTenants, NEW k \in Indexes
               PROVE  \/ replica'[s][k] = replica[s][k]
                      \/ replica[s][k] = "none" /\ (replica'[s][k] \in {"shared", "nothing"} => Torn(s))
    OBVIOUS
  <2>1. CASE s = t /\ k = i
    BY <1>1, <1>2, <2>1
  <2>2. CASE ~(s = t /\ k = i)
    BY <1>1, <1>2, <2>2
  <2> QED
    BY <2>1, <2>2
<1> QED
  BY <1>1, <1>3, <1>4, Serves DEF t, i

LEMMA Releasing ==
  ASSUME ReplicasInv, NEW t \in ReadTenants, ReleasePrimary(t)
  PROVE  ReplicasInv'
<1>1. /\ UNCHANGED <<hosts, strategy, driver, hash, cursor, replica, resolver, picks, wraps, served>>
      /\ primary' = primary \ {t} /\ torn \subseteq torn' /\ torn' \subseteq torn \cup {t}
      /\ \A r \in Resolvers : resolver[r].step = "add" /\ resolver[r].tenant = t => t \in torn'
  BY DEF ReleasePrimary
<1>2. ResolverInv'
  BY <1>1 DEF ReplicasInv, ResolverInv, Sticks, Torn
<1> QED
  BY <1>1, <1>2 DEF ReplicasInv, ReplicaTypes, TurnInv, HadTurn, ServedInv, Sticks, Torn

LEMMA Resetting ==
  ASSUME ReplicasInv, ResetCursor
  PROVE  ReplicasInv'
<1>1. /\ UNCHANGED <<hosts, strategy, driver, hash, primary, replica, resolver, picks, torn, served>>
      /\ cursor' = 0 /\ wraps' = wraps + 1
  BY DEF ResetCursor
<1>2. TurnInv'
  <2>1. \A k \in 0..(hosts - 1) : k \in Indexes /\ picks[k] \in Nat
    BY ReplicasAssumption DEF ReplicasInv, ReplicaTypes, Indexes
  <2>2. \A k \in 0..(hosts - 1) : HadTurn(k) \in {0, 1} /\ HadTurn(k)' = 0
    <3>1. hosts \in Nat \ {0} /\ 0 % hosts = 0
      BY ReplicasAssumption DEF ReplicasInv, ReplicaTypes
    <3> QED
      BY <1>1, <3>1 DEF HadTurn
  <2>3. wraps \in Nat
    BY DEF ReplicasInv, ReplicaTypes
  <2>4. strategy = "round-robin" =>
          \A k, l \in 0..(hosts - 1) : picks[k] <= picks[l] + wraps + 1
    BY <2>1, <2>2, <2>3 DEF ReplicasInv, TurnInv
  <2> QED
    BY <1>1, <2>1, <2>2, <2>3, <2>4 DEF TurnInv
<1>3. ReplicaTypes'
  BY <1>1, ReplicasAssumption DEF ReplicasInv, ReplicaTypes
<1> QED
  BY <1>1, <1>2, <1>3 DEF ReplicasInv, ResolverInv, ServedInv, Sticks, Torn

\* Read replicas (read_replica_service.ts), for any number of them, and any cursor width:
\* turns are even, sticky tenants stay, and under database-pg reads reach the tenant's own
\* database.
THEOREM ReplicasStaySound == ReplicasSpec => []ReplicasAreSound
<1>1. ReplicasInit => ReplicasInv
  <2> SUFFICES ASSUME ReplicasInit PROVE ReplicasInv
    OBVIOUS
  <2>1. hosts \in 1..MaxHosts /\ hosts \in Nat \ {0} /\ 0 \in Indexes /\ cursor = 0
    BY ReplicasAssumption DEF ReplicasInit, Indexes
  <2>2. AtRest \in ResolverType /\ AtRest.step = "idle"
    BY <2>1, ReplicasAssumption DEF AtRest, ResolverType
  <2>3. cursor \in 0..(2 ^ CursorWidth - 1)
    BY <2>1, ReplicasAssumption
  <2>4. ReplicaTypes
    BY <2>1, <2>2, <2>3 DEF ReplicasInit, ReplicaTypes
  <2>5. TurnInv
    <3>1. \A k \in 0..(hosts - 1) : picks[k] = 0 /\ HadTurn(k) = 0
      BY <2>1, ReplicasAssumption DEF ReplicasInit, Indexes, HadTurn
    <3> QED
      BY <3>1 DEF ReplicasInit, TurnInv
  <2>6. ResolverInv /\ ServedInv
    BY <2>2 DEF ReplicasInit, ResolverInv, ServedInv
  <2> QED
    BY <2>4, <2>5, <2>6 DEF ReplicasInv
<1>2. ReplicasInv /\ [ReplicasNext]_replicaVars => ReplicasInv'
  <2> SUFFICES ASSUME ReplicasInv, [ReplicasNext]_replicaVars PROVE ReplicasInv'
    OBVIOUS
  <2>1. CASE UNCHANGED replicaVars
    BY <2>1 DEF replicaVars, ReplicasInv, ReplicaTypes, TurnInv, HadTurn, ResolverInv, ServedInv, Sticks, Torn
  <2>2. CASE ReplicasNext
    BY <2>2, Picking, Finding, Connecting, Adding, Releasing, Resetting DEF ReplicasNext
  <2> QED
    BY <2>1, <2>2
<1>3. ReplicasInv => ReplicasAreSound
  <2> SUFFICES ASSUME ReplicasInv PROVE ReplicasAreSound
    OBVIOUS
  <2>1. TurnsAreEven
    <3>1. \A k \in 0..(hosts - 1) : k \in Indexes /\ picks[k] \in Nat /\ HadTurn(k) \in {0, 1}
      BY ReplicasAssumption DEF ReplicasInv, ReplicaTypes, Indexes, HadTurn
    <3>2. wraps \in Nat
      BY DEF ReplicasInv, ReplicaTypes
    <3> QED
      BY <3>1, <3>2 DEF ReplicasInv, TurnInv, TurnsAreEven
  <2>2. StickyStays
    BY DEF ReplicasInv, ReplicaTypes, ServedInv, Sticks, StickyStays
  <2>3. ClonesAreTenants
    <3>1. \A p \in served : p[1] \in ReadTenants /\ p[2] \in Indexes
      BY DEF ReplicasInv, ReplicaTypes
    <3>2. \A p \in served : replica[p[1]][p[2]] \in {"tenant", "shared", "nothing"}
      BY <3>1 DEF ReplicasInv, ReplicaTypes, ServedInv
    <3> QED
      BY <3>1, <3>2 DEF ReplicasInv, ServedInv, Torn, ClonesAreTenants
  <2> QED
    BY <2>1, <2>2, <2>3 DEF ReplicasAreSound
<1> QED
  BY <1>1, <1>2, <1>3, PTL DEF ReplicasSpec

-----------------------------------------------------------------------------
(***************************************************************************)
(* The database of a tenant, for any number of jobs and of servers. A job  *)
(* beside which another ran may fail; one beside which none ran finds what *)
(* it left (AloneFinds), and one beside which none has even begun ends as  *)
(* it should (Finishes).                                                   *)
(***************************************************************************)

JobType ==
  [op : {"none", "provision", "destroy", "keep", "reset"},
   step : {"idle", "find", "create", "connect", "disconnect", "terminate", "drop", "done", "failed"},
   crossed : BOOLEAN, reopened : BOOLEAN]

DatabaseTypes ==
  /\ exists \in BOOLEAN
  /\ job \in [StorageJobs -> JobType]
  /\ queries \in Nat

Provisioning == {"find", "create", "connect"}

\* A job's operation and its steps go together; sessions after those it terminated were
\* opened behind it.
StepInv(j) ==
  /\ job[j].step \in Provisioning => job[j].op = "provision"
  /\ job[j].step = "disconnect" => job[j].op \in {"destroy", "keep", "reset"}
  /\ job[j].step \in {"terminate", "drop"} => job[j].op \in {"destroy", "reset"}
  /\ job[j].step = "drop" => sessions = {} \/ job[j].reopened
  /\ job[j].step = "done" => job[j].op \in {"provision", "destroy", "keep"}

\* A job beside which no other ran finds what it left.
AloneFinds(j) ==
  /\ job[j].step = "create" => ~exists
  /\ job[j].step = "connect" => exists

Unaccompanied(j) == \A i \in StorageJobs \ {j} : job[i].step = "idle"

Finishes(j) ==
  /\ job[j].step = "connect" => exists
  /\ job[j].step \in {"terminate", "drop"} => j \notin pooled
  /\ job[j].step = "done" /\ job[j].op = "provision" => exists /\ j \in pooled
  /\ job[j].step = "done" /\ job[j].op = "destroy" => ~exists /\ j \notin pooled

JobInv(j) ==
  /\ StepInv(j)
  /\ JobRuns(j) /\ ~job[j].crossed => AloneFinds(j) /\ \A i \in StorageJobs \ {j} : ~JobRuns(i)
  /\ job[j].step = "failed" => job[j].crossed \/ (job[j].reopened /\ job[j].op \in {"destroy", "reset"})
  /\ Unaccompanied(j) => Finishes(j)

DatabaseInv == DatabaseTypes /\ SessionsAreReal /\ \A j \in StorageJobs : JobInv(j)

LEMMA JobGoesTo ==
  ASSUME DatabaseTypes, NEW j \in StorageJobs,
         NEW step \in {"find", "create", "connect", "terminate", "drop", "done", "failed"}, ToStep(j, step)
  PROVE  \E new \in JobType :
           /\ job' = [job EXCEPT ![j] = new]
           /\ IF step = "done" /\ job[j].op = "reset" THEN new.step = "find" /\ new.op = "provision"
              ELSE new.step = step /\ new.op = job[j].op
           /\ new.crossed = job[j].crossed /\ new.reopened = job[j].reopened
<1> DEFINE new == [job[j] EXCEPT !.step = IF step = "done" /\ job[j].op = "reset" THEN "find" ELSE step,
                                 !.op = IF step = "done" /\ job[j].op = "reset" THEN "provision" ELSE job[j].op]
<1>1. /\ new \in JobType
      /\ IF step = "done" /\ job[j].op = "reset" THEN new.step = "find" /\ new.op = "provision"
         ELSE new.step = step /\ new.op = job[j].op
      /\ new.crossed = job[j].crossed /\ new.reopened = job[j].reopened
  BY DEF DatabaseTypes, JobType
<1>2. job' = [job EXCEPT ![j] = new]
  BY DEF ToStep
<1> HIDE DEF new
<1> QED
  BY <1>1, <1>2

\* A step of one job: the others keep what they know, since this one runs beside them,
\* and so they are crossed or do not run.
LEMMA JobStep ==
  ASSUME DatabaseInv, NEW j \in StorageJobs, JobRuns(j),
         NEW new \in JobType, job' = [job EXCEPT ![j] = new],
         new.crossed = job[j].crossed, new.step # "idle",
         exists' \in BOOLEAN, UNCHANGED queries, SessionsAreReal', sessions' \subseteq sessions,
         StepInv(j)', new.crossed \/ AloneFinds(j)',
         new.step = "failed" => new.crossed \/ (new.reopened /\ new.op \in {"destroy", "reset"}),
         Unaccompanied(j) => Finishes(j)'
  PROVE  DatabaseInv'
<1>1. /\ job' \in [StorageJobs -> JobType] /\ job'[j] = new
      /\ \A i \in StorageJobs \ {j} : job'[i] = job[i]
  BY DEF DatabaseInv, DatabaseTypes
<1>2. DatabaseTypes'
  BY <1>1 DEF DatabaseInv, DatabaseTypes
<1>3. \A i \in StorageJobs \ {j} : ~Unaccompanied(i)'
  BY <1>1 DEF Unaccompanied
<1>4. Unaccompanied(j)' => Unaccompanied(j)
  BY <1>1 DEF Unaccompanied
<1>5. \A i \in StorageJobs : JobRuns(i)' => JobRuns(i)
  BY <1>1 DEF JobRuns
<1>6. JobInv(j)'
  BY <1>1, <1>4, <1>5 DEF JobInv, DatabaseInv
<1>7. ASSUME NEW i \in StorageJobs \ {j} PROVE JobInv(i)'
  <2>1. JobInv(i) /\ JobInv(j)
    BY DEF DatabaseInv
  <2>2. StepInv(i)'
    BY <1>1, <2>1 DEF JobInv, StepInv
  <2>3. JobRuns(i) => job[i].crossed
    BY <2>1 DEF JobInv
  <2> QED
    BY <1>1, <1>3, <1>5, <2>1, <2>2, <2>3 DEF JobInv
<1> QED
  BY <1>2, <1>6, <1>7 DEF DatabaseInv

LEMMA ProvisionSteps ==
  ASSUME DatabaseInv, NEW j \in StorageJobs, FindDatabase(j) \/ CreateDatabase(j) \/ ConnectJob(j)
  PROVE  DatabaseInv'
<1>1. JobRuns(j) /\ job[j].op = "provision" /\ JobInv(j) /\ SessionsAreReal /\ DatabaseTypes
  BY DEF FindDatabase, CreateDatabase, ConnectJob, JobRuns, DatabaseInv, JobInv, StepInv, Provisioning
<1>2. CASE FindDatabase(j)
  <2>1. PICK new \in JobType :
          /\ job' = [job EXCEPT ![j] = new] /\ new.step = IF exists THEN "connect" ELSE "create"
          /\ new.op = "provision" /\ new.crossed = job[j].crossed
    BY <1>1, <1>2, JobGoesTo DEF FindDatabase
  <2>2. job'[j] = new /\ UNCHANGED <<exists, pooled, sessions, queries>>
    BY <1>1, <1>2, <2>1 DEF FindDatabase, DatabaseTypes
  <2>3. StepInv(j)' /\ AloneFinds(j)' /\ Finishes(j)'
    BY <2>1, <2>2 DEF StepInv, AloneFinds, Finishes, Provisioning
  <2> QED
    BY <1>1, <2>1, <2>2, <2>3, JobStep DEF SessionsAreReal, DatabaseTypes
<1>3. CASE CreateDatabase(j)
  <2>1. PICK new \in JobType :
          /\ job' = [job EXCEPT ![j] = new] /\ new.step = IF exists THEN "failed" ELSE "connect"
          /\ new.op = "provision" /\ new.crossed = job[j].crossed
    BY <1>1, <1>3, JobGoesTo DEF CreateDatabase
  <2>2. job'[j] = new /\ UNCHANGED <<pooled, sessions, queries>> /\ exists' = TRUE /\ job[j].step = "create"
    BY <1>1, <1>3, <2>1 DEF CreateDatabase, DatabaseTypes
  <2>3. StepInv(j)' /\ AloneFinds(j)' /\ Finishes(j)'
    BY <2>1, <2>2 DEF StepInv, AloneFinds, Finishes, Provisioning
  <2>4. new.step = "failed" => new.crossed
    BY <1>1, <2>1, <2>2 DEF JobInv, AloneFinds
  <2>5. SessionsAreReal' /\ exists' \in BOOLEAN
    BY <1>1, <2>2 DEF SessionsAreReal
  <2> QED
    BY <1>1, <2>1, <2>2, <2>3, <2>4, <2>5, JobStep
<1>4. CASE ConnectJob(j)
  <2>1. PICK new \in JobType :
          /\ job' = [job EXCEPT ![j] = new] /\ new.step = "done"
          /\ new.op = "provision" /\ new.crossed = job[j].crossed
    BY <1>1, <1>4, JobGoesTo DEF ConnectJob
  <2>2. /\ job'[j] = new /\ UNCHANGED <<exists, sessions, queries>> /\ pooled' = pooled \cup {j}
        /\ job[j].step = "connect"
    BY <1>1, <1>4, <2>1 DEF ConnectJob, DatabaseTypes
  <2>3. StepInv(j)' /\ AloneFinds(j)'
    BY <2>1, <2>2 DEF StepInv, AloneFinds, Provisioning
  <2>4. Unaccompanied(j) => Finishes(j)'
    BY <1>1, <2>1, <2>2 DEF JobInv, Finishes
  <2>5. SessionsAreReal' /\ exists' \in BOOLEAN
    BY <1>1, <2>2 DEF SessionsAreReal, DatabaseTypes
  <2> QED
    BY <1>1, <2>1, <2>2, <2>3, <2>4, <2>5, JobStep
<1> QED
  BY <1>2, <1>3, <1>4

LEMMA DestroySteps ==
  ASSUME DatabaseInv, NEW j \in StorageJobs, DisconnectJob(j) \/ TerminateSessions(j) \/ DropDatabase(j)
  PROVE  DatabaseInv'
<1>1. JobRuns(j) /\ JobInv(j) /\ SessionsAreReal /\ DatabaseTypes /\ StepInv(j)
  BY DEF DisconnectJob, TerminateSessions, DropDatabase, JobRuns, DatabaseInv, JobInv
<1>2. CASE DisconnectJob(j)
  <2>1. job[j].step = "disconnect" /\ UNCHANGED <<exists, queries>> /\ pooled' = pooled \ {j} /\ sessions' = sessions \ {j}
        /\ job[j].op \in {"destroy", "keep", "reset"}
    BY <1>1, <1>2 DEF DisconnectJob, StepInv
  <2>2. PICK new \in JobType :
          /\ job' = [job EXCEPT ![j] = new] /\ new.step = IF job[j].op = "keep" THEN "done" ELSE "terminate"
          /\ new.op = job[j].op /\ new.crossed = job[j].crossed
    BY <1>1, <1>2, JobGoesTo DEF DisconnectJob
  <2>3. job'[j] = new
    BY <1>1, <2>2 DEF DatabaseTypes
  <2>4. StepInv(j)' /\ AloneFinds(j)' /\ Finishes(j)'
    BY <2>1, <2>2, <2>3 DEF StepInv, AloneFinds, Finishes, Provisioning
  <2>5. SessionsAreReal' /\ exists' \in BOOLEAN
    BY <1>1, <2>1 DEF SessionsAreReal, DatabaseTypes
  <2> QED
    BY <1>1, <2>1, <2>2, <2>4, <2>5, JobStep
<1>3. CASE TerminateSessions(j)
  <2>1. job[j].step = "terminate" /\ UNCHANGED <<exists, pooled, queries>> /\ sessions' = {}
        /\ job[j].op \in {"destroy", "reset"}
    BY <1>1, <1>3 DEF TerminateSessions, StepInv
  <2>2. PICK new \in JobType :
          /\ job' = [job EXCEPT ![j] = new] /\ new.step = "drop"
          /\ new.op = job[j].op /\ new.crossed = job[j].crossed
    BY <1>1, <1>3, JobGoesTo DEF TerminateSessions
  <2>3. job'[j] = new
    BY <1>1, <2>2 DEF DatabaseTypes
  <2>4. StepInv(j)' /\ AloneFinds(j)'
    BY <2>1, <2>2, <2>3 DEF StepInv, AloneFinds, Provisioning
  <2>5. Unaccompanied(j) => Finishes(j)'
    BY <1>1, <2>1, <2>2, <2>3 DEF JobInv, Finishes
  <2>6. SessionsAreReal' /\ exists' \in BOOLEAN
    BY <1>1, <2>1 DEF SessionsAreReal, DatabaseTypes
  <2> QED
    BY <1>1, <2>1, <2>2, <2>4, <2>5, <2>6, JobStep
<1>4. CASE DropDatabase(j)
  <2>1. job[j].step = "drop" /\ UNCHANGED <<pooled, sessions, queries>> /\ job[j].op \in {"destroy", "reset"}
    BY <1>1, <1>4 DEF DropDatabase, StepInv
  <2>2. CASE sessions # {} /\ ToStep(j, "failed") /\ UNCHANGED exists
    <3>1. PICK new \in JobType :
            /\ job' = [job EXCEPT ![j] = new] /\ new.step = "failed" /\ new.op = job[j].op
            /\ new.crossed = job[j].crossed /\ new.reopened = job[j].reopened
      BY <1>1, <2>2, JobGoesTo
    <3>2. job'[j] = new
      BY <1>1, <3>1 DEF DatabaseTypes
    <3>3. StepInv(j)' /\ AloneFinds(j)' /\ Finishes(j)'
      BY <3>1, <3>2 DEF StepInv, AloneFinds, Finishes, Provisioning
    <3>4. new.reopened /\ new.op \in {"destroy", "reset"}
      BY <1>1, <2>1, <2>2, <3>1 DEF StepInv
    <3>5. SessionsAreReal' /\ exists' \in BOOLEAN
      BY <1>1, <2>1, <2>2 DEF SessionsAreReal, DatabaseTypes
    <3> QED
      BY <1>1, <2>1, <3>1, <3>3, <3>4, <3>5, JobStep
  <2>3. CASE sessions = {} /\ ToStep(j, "done") /\ exists' = FALSE
    <3>1. PICK new \in JobType :
            /\ job' = [job EXCEPT ![j] = new]
            /\ IF job[j].op = "reset" THEN new.step = "find" /\ new.op = "provision"
               ELSE new.step = "done" /\ new.op = "destroy"
            /\ new.crossed = job[j].crossed
      BY <1>1, <2>1, <2>3, JobGoesTo
    <3>2. job'[j] = new
      BY <1>1, <3>1 DEF DatabaseTypes
    <3>3. StepInv(j)' /\ AloneFinds(j)'
      BY <3>1, <3>2 DEF StepInv, AloneFinds, Provisioning
    <3>4. Unaccompanied(j) => Finishes(j)'
      BY <1>1, <2>1, <2>3, <3>1, <3>2 DEF JobInv, Finishes
    <3>5. SessionsAreReal' /\ exists' \in BOOLEAN
      BY <1>1, <2>1, <2>3 DEF SessionsAreReal
    <3> QED
      BY <1>1, <2>1, <3>1, <3>3, <3>4, <3>5, JobStep
  <2> QED
    BY <1>4, <2>2, <2>3 DEF DropDatabase
<1> QED
  BY <1>2, <1>3, <1>4

LEMMA JobStarts ==
  ASSUME DatabaseInv, NEW j \in StorageJobs, StartJob(j)
  PROVE  DatabaseInv'
<1> DEFINE beside == \E i \in StorageJobs : JobRuns(i)
<1>1. PICK op \in {"provision", "destroy", "keep", "reset"} :
        job' = [i \in StorageJobs |->
          IF i = j THEN [NoJob EXCEPT !.op = op, !.crossed = beside,
                                      !.step = IF op = "provision" THEN "find" ELSE "disconnect"]
          ELSE IF JobRuns(i) THEN [job[i] EXCEPT !.crossed = TRUE] ELSE job[i]]
  BY DEF StartJob
<1>2. /\ UNCHANGED <<exists, pooled, sessions, queries>> /\ DatabaseTypes /\ job[j].step = "idle"
      /\ \A i \in StorageJobs : job[i] \in JobType /\ JobInv(i)
  BY DEF StartJob, DatabaseInv, DatabaseTypes
<1>3. beside \in BOOLEAN
  BY Zenon
<1>4. ~beside => \A i \in StorageJobs : ~JobRuns(i)
  OBVIOUS
<1> HIDE DEF beside
<1>5. /\ job'[j] \in JobType /\ job'[j].op = op /\ job'[j].crossed = beside
      /\ job'[j].step = IF op = "provision" THEN "find" ELSE "disconnect"
  BY <1>1, <1>3 DEF JobType, NoJob
<1>6. ASSUME NEW i \in StorageJobs \ {j}
      PROVE  /\ job'[i] \in JobType /\ job'[i].op = job[i].op /\ job'[i].step = job[i].step
             /\ job'[i].reopened = job[i].reopened
             /\ job'[i].crossed = job[i].crossed \/ job'[i].crossed
             /\ JobRuns(i) => job'[i].crossed
  BY <1>1, <1>2 DEF JobType
<1>7. DatabaseTypes' /\ SessionsAreReal'
  <2>1. job' \in [StorageJobs -> JobType]
    BY <1>1, <1>5, <1>6
  <2> QED
    BY <1>2, <2>1 DEF DatabaseTypes, DatabaseInv, SessionsAreReal
<1>8. JobInv(j)'
  BY <1>2, <1>4, <1>5, <1>6 DEF JobInv, StepInv, AloneFinds, Finishes, Provisioning, JobRuns
<1>9. ASSUME NEW i \in StorageJobs \ {j} PROVE JobInv(i)'
  <2>1. StepInv(i)'
    BY <1>2, <1>6 DEF JobInv, StepInv, Provisioning
  <2>2. ~Unaccompanied(i)'
    BY <1>5 DEF Unaccompanied
  <2>3. JobRuns(i)' => job'[i].crossed
    BY <1>6 DEF JobRuns
  <2>4. job'[i].step = "failed" => job'[i].crossed \/ (job'[i].reopened /\ job'[i].op \in {"destroy", "reset"})
    BY <1>2, <1>6 DEF JobInv
  <2> QED
    BY <2>1, <2>2, <2>3, <2>4 DEF JobInv
<1> QED
  BY <1>7, <1>8, <1>9 DEF DatabaseInv

LEMMA ServerSteps ==
  ASSUME DatabaseInv, NEW s \in Servers, QueryDatabase(s) \/ ReleasePool(s)
  PROVE  DatabaseInv'
<1>1. DatabaseTypes /\ SessionsAreReal /\ s \notin StorageJobs
      /\ \A i \in StorageJobs : job[i] \in JobType /\ JobInv(i)
  BY DatabaseAssumption DEF DatabaseInv, DatabaseTypes
<1>2. UNCHANGED exists /\ \A i \in StorageJobs : i \in pooled' <=> i \in pooled
  BY <1>1 DEF QueryDatabase, ReleasePool
<1>3. /\ job' \in [StorageJobs -> JobType] /\ queries' \in Nat
      /\ \A i \in StorageJobs :
           /\ job'[i].op = job[i].op /\ job'[i].step = job[i].step /\ job'[i].crossed = job[i].crossed
           /\ job[i].reopened => job'[i].reopened
           /\ job'[i].step = "drop" => sessions' \subseteq sessions \/ job'[i].reopened
  <2>1. CASE QueryDatabase(s)
    <3>1. queries' \in Nat
      BY <1>1, <2>1 DEF QueryDatabase, DatabaseTypes
    <3>2. \A i \in StorageJobs :
            /\ job'[i] \in JobType
            /\ job'[i].op = job[i].op /\ job'[i].step = job[i].step /\ job'[i].crossed = job[i].crossed
            /\ job[i].reopened => job'[i].reopened
            /\ exists /\ job[i].step = "drop" => job'[i].reopened
      BY <1>1, <2>1 DEF QueryDatabase, JobType
    <3>3. ~exists => sessions' = sessions
      BY <2>1 DEF QueryDatabase
    <3>4. job' \in [StorageJobs -> JobType]
      BY <2>1, <3>2 DEF QueryDatabase
    <3> QED
      BY <3>1, <3>2, <3>3, <3>4
  <2>2. CASE ReleasePool(s)
    BY <1>1, <2>2 DEF ReleasePool, DatabaseTypes
  <2> QED
    BY <2>1, <2>2
<1>4. SessionsAreReal'
  BY <1>1 DEF SessionsAreReal, QueryDatabase, ReleasePool
<1>5. ASSUME NEW i \in StorageJobs PROVE JobInv(i)'
  <2>1. StepInv(i)'
    BY <1>1, <1>3 DEF JobInv, StepInv
  <2>2. Unaccompanied(i)' => Finishes(i)'
    BY <1>1, <1>2, <1>3 DEF JobInv, Unaccompanied, Finishes
  <2>3. JobRuns(i)' /\ ~job'[i].crossed => AloneFinds(i)' /\ \A k \in StorageJobs \ {i} : ~JobRuns(k)'
    BY <1>1, <1>2, <1>3 DEF JobInv, JobRuns, AloneFinds
  <2>4. job'[i].step = "failed" => job'[i].crossed \/ (job'[i].reopened /\ job'[i].op \in {"destroy", "reset"})
    BY <1>1, <1>3 DEF JobInv
  <2> QED
    BY <2>1, <2>2, <2>3, <2>4 DEF JobInv
<1> QED
  BY <1>1, <1>2, <1>3, <1>4, <1>5 DEF DatabaseInv, DatabaseTypes

\* The contract of the database-pg driver (database_pg_driver.ts) that the lifecycle
\* relies on, for any number of jobs and of servers that keep coming back: what fails is
\* a race, and what succeeds did what it says.
THEOREM DriverContractHolds == DatabaseSpec => []DriverKeepsItsContract
<1>1. DatabaseInit => DatabaseInv
  <2> SUFFICES ASSUME DatabaseInit PROVE DatabaseInv
    OBVIOUS
  <2>1. NoJob \in JobType /\ NoJob.step = "idle"
    BY DEF NoJob, JobType
  <2>2. DatabaseTypes /\ SessionsAreReal
    BY <2>1 DEF DatabaseInit, DatabaseTypes, SessionsAreReal
  <2>3. \A j \in StorageJobs : JobInv(j)
    BY <2>1 DEF DatabaseInit, JobInv, StepInv, JobRuns, Finishes, Provisioning
  <2> QED
    BY <2>2, <2>3 DEF DatabaseInv
<1>2. DatabaseInv /\ [DatabaseNext]_databaseVars => DatabaseInv'
  <2> SUFFICES ASSUME DatabaseInv, [DatabaseNext]_databaseVars PROVE DatabaseInv'
    OBVIOUS
  <2>1. CASE UNCHANGED databaseVars
    BY <2>1 DEF databaseVars, DatabaseInv, DatabaseTypes, SessionsAreReal, JobInv, StepInv, AloneFinds,
               Unaccompanied, Finishes, JobRuns, Provisioning
  <2>2. CASE DatabaseNext
    BY <2>2, JobStarts, ProvisionSteps, DestroySteps, ServerSteps DEF DatabaseNext
  <2> QED
    BY <2>1, <2>2
<1>3. DatabaseInv => DriverKeepsItsContract
  BY DEF DatabaseInv, JobInv, Unaccompanied, Finishes, DriverKeepsItsContract, FailuresAreRaces, JobsDoWhatTheySay
<1> QED
  BY <1>1, <1>2, <1>3, PTL DEF DatabaseSpec

=============================================================================
