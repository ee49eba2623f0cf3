----------------------------- MODULE AccessProofs -----------------------------
(***************************************************************************)
(* Proofs about who is let in and as what: Settings, Sso, Gates and        *)
(* Provider, for all values of their constants.                            *)
(***************************************************************************)
EXTENDS Settings, Sso, Gates, Provider, SequenceTheorems, TLAPS

-----------------------------------------------------------------------------
(***************************************************************************)
(* Proofs about Settings, for any number of processes, readers and         *)
(* writers: what can make a process read an old flag or branding.          *)
(***************************************************************************)

(* Types.                                                                  *)

Copies == Versions \cup {"none"}

ReaderType == [step : {"idle", "found", "missed", "read", "done"}, process : SettingProcesses \cup {"none"},
               row : Copies, old : BOOLEAN]

WriterType == [step : {"idle", "delete", "done"}, process : SettingProcesses \cup {"none"}]

CopyTypes ==
  /\ rowLocal \in [SettingProcesses -> [{"row"} -> Copies]]
  /\ rowShared \in [{"row"} -> Copies]

ReaderTypes == row \in Versions /\ reader \in [Readers -> ReaderType]

WriterTypes ==
  /\ writer \in [Writers -> WriterType]
  /\ \A w \in Writers : writer[w].step = "delete" => writer[w].process \in SettingProcesses

\* An old copy may be in Redis still: it was stored by a reader that raced a write, or a
\* write is about to delete it.
Unsettled == raced \/ \E w \in Writers : writer[w].step = "delete"

\* A reader that has read has the row that is in the table, unless that was written since;
\* one that found a copy has that row too, unless the copy is old or was deleted since.
ReaderInv ==
  \A r \in Readers :
    /\ reader[r].step \in {"found", "missed", "read"} => reader[r].process \in SettingProcesses
    /\ reader[r].step \in {"found", "read"} => reader[r].row \in Versions
    /\ reader[r].step = "read" => reader[r].old \/ reader[r].row = row
    /\ reader[r].step = "found" => reader[r].old \/ Unsettled \/ reader[r].row = row

SettingInv == CopyTypes /\ ReaderTypes /\ WriterTypes /\ ReaderInv /\ SettingIsFresh

LEMMA SettingInit == SettingsInit => SettingInv
BY DEF SettingsInit, C!CacheInit, SettingInv, CopyTypes, ReaderTypes, WriterTypes, ReaderInv,
       SettingIsFresh, Fresh, Copies, Versions, ReaderType, WriterType

-----------------------------------------------------------------------------
(* The layers of the cache.                                                *)

\* What the memory layers are when that of process p has v.
LEMMA KeptLocally ==
  ASSUME CopyTypes, NEW p \in SettingProcesses, NEW v \in Copies, rowLocal' = C!LocalWith(p, "row", v)
  PROVE  /\ rowLocal' \in [SettingProcesses -> [{"row"} -> Copies]]
         /\ rowLocal'[p]["row"] = v
         /\ \A q \in SettingProcesses \ {p} : rowLocal'[q] = rowLocal[q]
<1> DEFINE kept == [rowLocal[p] EXCEPT !["row"] = v]
<1>1. kept \in [{"row"} -> Copies] /\ kept["row"] = v
  BY DEF CopyTypes
<1>2. rowLocal' = [rowLocal EXCEPT ![p] = kept]
  BY DEF C!LocalWith
<1> HIDE DEF kept
<1> QED
  BY <1>1, <1>2 DEF CopyTypes

\* What is put is in both layers, and the others are told.
LEMMA Stored ==
  ASSUME CopyTypes, NEW p \in SettingProcesses, NEW v \in Copies, C!Put(p, "row", v)
  PROVE  /\ CopyTypes' /\ rowShared'["row"] = v /\ rowLocal'[p]["row"] = v
         /\ \A q \in SettingProcesses \ {p} : <<q, "row">> \in rowBus'
<1>1. CopyTypes' /\ rowShared'["row"] = v /\ rowLocal'[p]["row"] = v
  BY KeptLocally DEF C!Put, CopyTypes
<1>2. \A q \in SettingProcesses \ {p} : <<q, "row">> \in rowBus'
  BY DEF C!Put
<1> QED
  BY <1>1, <1>2

\* A step that moves copies and changes nothing of the table.
LEMMA CopiesMove ==
  ASSUME SettingInv, CopyTypes', ReaderTypes', ReaderInv', UNCHANGED <<row, writer, raced>>,
         rowShared'["row"] \in {"none", rowShared["row"]},
         \A p \in SettingProcesses :
           \/ Unsettled
           \/ rowLocal'[p]["row"] \in {"none", row}
           \/ p \in lost'
           \/ /\ rowLocal'[p]["row"] = rowLocal[p]["row"]
              /\ <<p, "row">> \in rowBus => (<<p, "row">> \in rowBus' \/ p \in lost')
              /\ p \in lost => p \in lost'
  PROVE  SettingInv'
<1>1. WriterTypes'
  BY DEF SettingInv, WriterTypes
<1>2. CASE Unsettled
  BY <1>1, <1>2 DEF SettingInv, SettingIsFresh, Unsettled
<1>3. CASE ~Unsettled
  <2>1. rowShared["row"] \in {"none", row}
    BY <1>3 DEF SettingInv, SettingIsFresh, Fresh, Unsettled
  <2>2. \A p \in SettingProcesses :
          rowLocal'[p]["row"] \in {"none", row} \/ <<p, "row">> \in rowBus' \/ p \in lost'
    BY <1>3 DEF SettingInv, SettingIsFresh, Fresh, Unsettled
  <2> QED
    BY <1>1, <2>1, <2>2 DEF SettingInv, SettingIsFresh, Fresh
<1> QED
  BY <1>2, <1>3

\* A reader goes on to new, and the table and its copies stay.
LEMMA ReaderGoesOn ==
  ASSUME SettingInv, NEW r \in Readers, NEW new \in ReaderType,
         reader' = [reader EXCEPT ![r] = new],
         new.step \in {"found", "missed", "read"} => new.process \in SettingProcesses,
         new.step \in {"found", "read"} => new.row \in Versions,
         new.step = "read" => new.old \/ new.row = row,
         new.step = "found" => new.old \/ Unsettled \/ new.row = row,
         UNCHANGED <<row, writer, raced>>
  PROVE  ReaderTypes' /\ ReaderInv'
<1>1. Unsettled' <=> Unsettled
  BY DEF Unsettled
<1>2. ReaderTypes'
  BY DEF SettingInv, ReaderTypes
<1>3. reader'[r] = new /\ \A q \in Readers \ {r} : reader'[q] = reader[q]
  BY DEF SettingInv, ReaderTypes
<1> QED
  BY <1>1, <1>2, <1>3 DEF SettingInv, ReaderInv

-----------------------------------------------------------------------------
(* The steps.                                                              *)

LEMMA SharedIsAsked ==
  ASSUME SettingInv, NEW r \in Readers, NEW p \in SettingProcesses, AskShared(r, p)
  PROVE  SettingInv'
<1> DEFINE v == rowShared["row"]
           new == [step |-> IF v = "none" THEN "missed" ELSE "found",
                   process |-> p, row |-> v, old |-> FALSE]
<1>1. /\ reader' = [reader EXCEPT ![r] = new]
      /\ UNCHANGED <<row, rowLocal, rowShared, rowBus, writer, raced, lost>>
  BY DEF AskShared
<1>2. v \in Copies /\ (v = "none" \/ v = row \/ Unsettled)
  BY DEF SettingInv, CopyTypes, SettingIsFresh, Fresh, Unsettled
<1>3. /\ new \in ReaderType /\ new.process = p /\ new.row = v
      /\ new.step \in {"found", "missed"}
      /\ new.step = "found" => v \in Versions /\ (Unsettled \/ v = row)
  BY <1>2 DEF ReaderType, Copies
<1> HIDE DEF new, v
<1>4. ReaderTypes' /\ ReaderInv'
  BY <1>1, <1>3, ReaderGoesOn
<1>5. CopyTypes' /\ WriterTypes' /\ SettingIsFresh'
  BY <1>1 DEF SettingInv, CopyTypes, WriterTypes, SettingIsFresh, Fresh
<1> QED
  BY <1>4, <1>5 DEF SettingInv

LEMMA FoundIsKept ==
  ASSUME SettingInv, NEW r \in Readers, KeepFound(r)
  PROVE  SettingInv'
<1> DEFINE new == [reader[r] EXCEPT !.step = "idle"]
           p == reader[r].process
           v == reader[r].row
<1>1. /\ p \in SettingProcesses /\ v \in Copies /\ reader[r] \in ReaderType
      /\ reader[r].old \/ Unsettled \/ v = row
  BY DEF KeepFound, SettingInv, ReaderInv, ReaderTypes, Copies
<1>2. /\ reader' = [reader EXCEPT ![r] = new]
      /\ rowLocal' = C!LocalWith(p, "row", v)
      /\ lost \subseteq lost' /\ (reader[r].old => p \in lost')
      /\ UNCHANGED <<row, rowShared, rowBus, writer, raced>>
  BY DEF KeepFound, C!Keep
<1>3. new \in ReaderType /\ new.step = "idle"
  BY <1>1 DEF ReaderType
<1> HIDE DEF new, p, v
<1>4. ReaderTypes' /\ ReaderInv'
  BY <1>2, <1>3, ReaderGoesOn
<1>5. /\ rowLocal' \in [SettingProcesses -> [{"row"} -> Copies]]
      /\ rowLocal'[p]["row"] = v
      /\ \A q \in SettingProcesses \ {p} : rowLocal'[q] = rowLocal[q]
  BY <1>1, <1>2, KeptLocally DEF SettingInv
<1>6. CopyTypes'
  BY <1>2, <1>5 DEF SettingInv, CopyTypes
<1>7. \A q \in SettingProcesses :
        \/ Unsettled \/ rowLocal'[q]["row"] \in {"none", row} \/ q \in lost'
        \/ rowLocal'[q]["row"] = rowLocal[q]["row"]
  BY <1>1, <1>2, <1>5
<1> QED
  BY <1>2, <1>4, <1>6, <1>7, CopiesMove

LEMMA CacheMoves ==
  ASSUME SettingInv, CacheStep
  PROVE  SettingInv'
<1>1. /\ CopyTypes /\ "none" \in Copies /\ UNCHANGED <<row, reader, writer, raced>>
      /\ ReaderTypes' /\ ReaderInv'
  BY DEF SettingInv, CacheStep, Copies, ReaderTypes, ReaderInv, Unsettled
<1>2. CASE C!ExpireShared("row") /\ UNCHANGED lost
  <2>1. UNCHANGED <<rowLocal, rowBus>> /\ rowShared' = [rowShared EXCEPT !["row"] = "none"]
    BY <1>2 DEF C!ExpireShared
  <2> QED
    BY <1>1, <1>2, <2>1, CopiesMove DEF CopyTypes
<1>3. ASSUME NEW p \in SettingProcesses, UNCHANGED <<rowShared, lost>>,
             C!EvictLocal(p, "row") \/ C!Invalidate(p, "row")
      PROVE  SettingInv'
  <2>1. rowLocal' = C!LocalWith(p, "row", "none")
        /\ \A q \in SettingProcesses \ {p} : <<q, "row">> \in rowBus => <<q, "row">> \in rowBus'
    BY <1>3 DEF C!EvictLocal, C!Invalidate
  <2>2. /\ rowLocal' \in [SettingProcesses -> [{"row"} -> Copies]]
        /\ rowLocal'[p]["row"] = "none"
        /\ \A q \in SettingProcesses \ {p} : rowLocal'[q] = rowLocal[q]
    BY <1>1, <2>1, KeptLocally
  <2>3. CopyTypes'
    BY <1>1, <1>3, <2>2 DEF CopyTypes
  <2> QED
    BY <1>1, <1>3, <2>1, <2>2, <2>3, CopiesMove
<1>4. ASSUME NEW p \in SettingProcesses, C!LoseInvalidation(p, "row"), lost' = lost \cup {p}
      PROVE  SettingInv'
  <2>1. UNCHANGED <<rowLocal, rowShared>> /\ rowBus' = rowBus \ {<<p, "row">>}
    BY <1>4 DEF C!LoseInvalidation
  <2>2. CopyTypes'
    BY <1>1, <2>1 DEF CopyTypes
  <2>3. \A q \in SettingProcesses :
          /\ <<q, "row">> \in rowBus => (<<q, "row">> \in rowBus' \/ q \in lost')
          /\ q \in lost => q \in lost'
    BY <1>4, <2>1
  <2> QED
    BY <1>1, <2>1, <2>2, <2>3, CopiesMove
<1>5. ASSUME NEW p \in SettingProcesses, C!EvictLocal(p, "row") \/ C!Invalidate(p, "row")
      PROVE  UNCHANGED rowShared
  BY <1>5 DEF C!EvictLocal, C!Invalidate
<1> QED
  BY <1>2, <1>3, <1>4, <1>5 DEF CacheStep

LEMMA RowIsRead ==
  ASSUME SettingInv, NEW r \in Readers, ReadRow(r)
  PROVE  SettingInv'
<1> DEFINE new == [reader[r] EXCEPT !.step = "read", !.row = row, !.old = FALSE]
<1>1. /\ reader' = [reader EXCEPT ![r] = new]
      /\ UNCHANGED <<row, rowLocal, rowShared, rowBus, writer, raced, lost>>
  BY DEF ReadRow
<1>2. /\ new \in ReaderType /\ new.step = "read" /\ new.row = row
      /\ new.process \in SettingProcesses /\ row \in Versions
  BY DEF ReadRow, ReaderType, Copies, SettingInv, ReaderTypes, ReaderInv
<1> HIDE DEF new
<1>3. ReaderTypes' /\ ReaderInv'
  BY <1>1, <1>2, ReaderGoesOn
<1>4. CopyTypes' /\ WriterTypes' /\ SettingIsFresh'
  BY <1>1 DEF SettingInv, CopyTypes, WriterTypes, SettingIsFresh, Fresh
<1> QED
  BY <1>3, <1>4 DEF SettingInv

LEMMA RowIsStored ==
  ASSUME SettingInv, NEW r \in Readers, StoreRow(r)
  PROVE  SettingInv'
<1> DEFINE new == [reader[r] EXCEPT !.step = "done"]
           p == reader[r].process
           v == reader[r].row
<1>1. /\ p \in SettingProcesses /\ v \in Versions /\ v \in Copies
      /\ reader[r].old \/ v = row
      /\ reader[r] \in ReaderType
  BY DEF StoreRow, SettingInv, ReaderInv, ReaderTypes, Copies
<1>2. /\ reader' = [reader EXCEPT ![r] = new] /\ C!Put(p, "row", v)
      /\ raced' = (raced \/ reader[r].old)
      /\ UNCHANGED <<row, writer>>
  BY DEF StoreRow
<1>3. new \in ReaderType /\ new.step = "done"
  BY <1>1 DEF ReaderType
<1> HIDE DEF new, p, v
<1>4. /\ CopyTypes' /\ rowShared'["row"] = v /\ rowLocal'[p]["row"] = v
      /\ \A q \in SettingProcesses \ {p} : <<q, "row">> \in rowBus'
  BY <1>1, <1>2, Stored DEF SettingInv
<1>5. ReaderTypes' /\ ReaderInv' /\ WriterTypes'
  <2>1. Unsettled => Unsettled'
    BY <1>2 DEF Unsettled
  <2>2. reader'[r] = new /\ \A q \in Readers \ {r} : reader'[q] = reader[q]
    BY <1>2 DEF SettingInv, ReaderTypes
  <2>3. ReaderInv'
    BY <1>2, <1>3, <2>1, <2>2 DEF SettingInv, ReaderInv
  <2> QED
    BY <1>2, <1>3, <2>3 DEF SettingInv, ReaderTypes, WriterTypes
<1>6. SettingIsFresh'
  BY <1>1, <1>2, <1>4 DEF SettingIsFresh, Fresh
<1> QED
  BY <1>4, <1>5, <1>6 DEF SettingInv

LEMMA RowIsWritten ==
  ASSUME SettingInv, NEW w \in Writers, NEW p \in SettingProcesses, NEW v \in Versions, Written(w, p, v)
  PROVE  SettingInv'
<1> DEFINE new == [step |-> "delete", process |-> p]
           older(r) == [reader[r] EXCEPT !.old = @ \/ reader[r].step = "read"]
<1>1. /\ row' = v /\ writer' = [writer EXCEPT ![w] = new]
      /\ reader' = [r \in Readers |-> older(r)]
      /\ UNCHANGED <<rowLocal, rowShared, rowBus, raced, lost>>
  BY DEF Written
<1>2. new \in WriterType /\ new.step = "delete" /\ new.process = p
  BY DEF WriterType
<1>3. \A r \in Readers :
        /\ older(r) \in ReaderType /\ older(r).step = reader[r].step
        /\ older(r).process = reader[r].process /\ older(r).row = reader[r].row
        /\ reader[r].step = "read" => older(r).old
  BY DEF SettingInv, ReaderTypes, ReaderType
<1> HIDE DEF new, older
<1>4. WriterTypes' /\ writer'[w].step = "delete"
  BY <1>1, <1>2 DEF SettingInv, WriterTypes
<1>5. ReaderTypes' /\ ReaderInv'
  <2>1. Unsettled'
    BY <1>4 DEF Unsettled
  <2> QED
    BY <1>1, <1>3, <2>1 DEF SettingInv, ReaderTypes, ReaderInv
<1>6. CopyTypes' /\ SettingIsFresh'
  BY <1>1, <1>4 DEF SettingInv, CopyTypes, SettingIsFresh
<1> QED
  BY <1>4, <1>5, <1>6 DEF SettingInv

LEMMA CopyIsDeleted ==
  ASSUME SettingInv, NEW w \in Writers, DeleteCopy(w)
  PROVE  SettingInv'
<1> DEFINE new == [writer[w] EXCEPT !.step = "done"]
           p == writer[w].process
           older(r) == [reader[r] EXCEPT !.old = @ \/ reader[r].step = "found"]
<1>1. p \in SettingProcesses /\ "none" \in Copies /\ writer[w] \in WriterType
  BY DEF DeleteCopy, SettingInv, WriterTypes, Copies
<1>2. /\ writer' = [writer EXCEPT ![w] = new] /\ C!Put(p, "row", "none")
      /\ reader' = [r \in Readers |-> older(r)] /\ row' = row
  BY DEF DeleteCopy
<1>7. \A r \in Readers :
        /\ older(r) \in ReaderType /\ older(r).step = reader[r].step
        /\ older(r).process = reader[r].process /\ older(r).row = reader[r].row
        /\ reader[r].step = "found" => older(r).old
        /\ reader[r].old => older(r).old
  BY DEF SettingInv, ReaderTypes, ReaderType
<1>3. new \in WriterType /\ new.step = "done"
  BY <1>1 DEF WriterType
<1> HIDE DEF new, p, older
<1>4. /\ CopyTypes' /\ rowShared'["row"] = "none" /\ rowLocal'[p]["row"] = "none"
      /\ \A q \in SettingProcesses \ {p} : <<q, "row">> \in rowBus'
  BY <1>1, <1>2, Stored DEF SettingInv
<1>5. ReaderTypes' /\ ReaderInv' /\ WriterTypes'
  <2>1. ReaderTypes' /\ WriterTypes'
    BY <1>2, <1>3, <1>7 DEF SettingInv, ReaderTypes, WriterTypes
  <2>2. \A r \in Readers : reader'[r] = older(r)
    BY <1>2
  <2>3. ReaderInv'
    BY <1>2, <1>7, <2>2 DEF SettingInv, ReaderInv
  <2> QED
    BY <2>1, <2>3
<1>6. SettingIsFresh'
  BY <1>1, <1>4 DEF SettingIsFresh, Fresh
<1> QED
  BY <1>4, <1>5, <1>6 DEF SettingInv

LEMMA SettingNext == SettingInv /\ [SettingsNext]_settingVars => SettingInv'
<1> SUFFICES ASSUME SettingInv, [SettingsNext]_settingVars PROVE SettingInv'
  OBVIOUS
<1>1. CASE UNCHANGED settingVars
  BY <1>1 DEF settingVars, SettingInv, CopyTypes, ReaderTypes, WriterTypes, ReaderInv,
              SettingIsFresh, Fresh, Unsettled
<1>2. ASSUME NEW w \in Writers, NEW p \in SettingProcesses,
             SetFlag(w, p) \/ DeleteFlag(w, p) \/ UpsertBranding(w, p)
      PROVE  SettingInv'
  <2>1. PICK v \in Versions : Written(w, p, v)
    BY <1>2 DEF SetFlag, DeleteFlag, UpsertBranding, Versions
  <2> QED
    BY <2>1, RowIsWritten
<1> QED
  BY <1>1, <1>2, SharedIsAsked, FoundIsKept, CacheMoves, RowIsRead, RowIsStored, CopyIsDeleted
  DEF SettingsNext

\* SettingIsFresh, however many processes, readers and writers there are.
THEOREM SettingsStayFresh == SettingsSpec => []SettingIsFresh
<1>1. SettingInv => SettingIsFresh
  BY DEF SettingInv
<1> QED
  BY <1>1, SettingInit, SettingNext, PTL DEF SettingsSpec

-----------------------------------------------------------------------------
(***************************************************************************)
(* Proofs about Sso, for any number of logins, callbacks and providers:    *)
(* that a callback logs in in its own login only, and that a state lets    *)
(* two callbacks in only when both found it before either deleted it.      *)
(***************************************************************************)

(* Types.                                                                  *)

AnIssuer == Issuers \cup {NoIssuer}

LoginType == [step : {"new", "stored", "gone"}, issuer : AnIssuer]

CallbackType == [step : {"idle", "found", "taken", "configured", "in", "failed"},
                 login : Logins \cup {NoIssuer}, code : Codes \cup {NoIssuer},
                 issuer : AnIssuer, shared : BOOLEAN]

SsoTypes ==
  /\ config \in [issuer : AnIssuer, enabled : BOOLEAN]
  /\ login \in [Logins -> LoginType]
  /\ callback \in [Callbacks -> CallbackType]

\* What has found its state has a login and a code, and the login is not new; what has
\* taken it finds it gone.
CallbackInv ==
  \A c \in Callbacks :
    callback[c].step # "idle" =>
      /\ callback[c].login \in Logins /\ callback[c].code \in Codes
      /\ login[callback[c].login].step # "new"
      /\ callback[c].step # "found" => login[callback[c].login].step = "gone"

\* Two callbacks that found one state crossed.
CrossedInv ==
  \A c, d \in Callbacks :
    (c # d /\ callback[c].step # "idle" /\ callback[d].step # "idle"
     /\ callback[c].login = callback[d].login)
      => callback[c].shared \/ callback[d].shared

LoginInv == SsoTypes /\ CallbackInv /\ CrossedInv /\ LoginIsItsOwn

LEMMA LoginInit == SsoInit => LoginInv
BY DEF SsoInit, LoginInv, SsoTypes, CallbackInv, CrossedInv, LoginIsItsOwn, CallbackAt, NoConfig,
       AnIssuer, LoginType, CallbackType

-----------------------------------------------------------------------------
(* The steps.                                                              *)

\* A callback goes on, and the logins stay as they are.
LEMMA GoesOn ==
  ASSUME LoginInv, NEW c \in Callbacks, callback[c].step \notin {"idle", "found"},
         NEW new \in CallbackType,
         new.login = callback[c].login, new.code = callback[c].code, new.shared = callback[c].shared,
         new.step \notin {"idle", "found"},
         new.step = "in" => new.code[1] = new.login /\ new.issuer = login[new.login].issuer,
         callback' = [callback EXCEPT ![c] = new], UNCHANGED login,
         config' \in [issuer : AnIssuer, enabled : BOOLEAN]
  PROVE  LoginInv'
<1>1. callback' \in [Callbacks -> CallbackType] /\ callback'[c] = new
      /\ \A d \in Callbacks \ {c} : callback'[d] = callback[d]
  BY DEF LoginInv, SsoTypes
<1>2. SsoTypes'
  BY <1>1 DEF LoginInv, SsoTypes
<1>3. CallbackInv'
  BY <1>1 DEF LoginInv, CallbackInv
<1>4. CrossedInv'
  BY <1>1 DEF LoginInv, CrossedInv
<1>5. LoginIsItsOwn'
  BY <1>1 DEF LoginInv, LoginIsItsOwn, CallbackAt
<1> QED
  BY <1>2, <1>3, <1>4, <1>5 DEF LoginInv

\* A login goes on, from new only when nobody has found it, and keeps its issuer otherwise.
LEMMA LoginGoesOn ==
  ASSUME LoginInv, NEW l \in Logins, NEW new \in LoginType,
         new.step # "new",
         login[l].step = "gone" => new.step = "gone",
         login[l].step # "new" => new.issuer = login[l].issuer,
         login' = [login EXCEPT ![l] = new], UNCHANGED <<config, callback>>
  PROVE  LoginInv'
<1>1. login' \in [Logins -> LoginType] /\ login'[l] = new
      /\ \A k \in Logins \ {l} : login'[k] = login[k]
  BY DEF LoginInv, SsoTypes
<1>2. SsoTypes' /\ CrossedInv'
  BY <1>1 DEF LoginInv, SsoTypes, CrossedInv
<1>3. CallbackInv'
  BY <1>1 DEF LoginInv, CallbackInv
<1>4. LoginIsItsOwn'
  BY <1>1 DEF LoginInv, CallbackInv, LoginIsItsOwn, CallbackAt
<1> QED
  BY <1>2, <1>3, <1>4 DEF LoginInv

LEMMA Found ==
  ASSUME LoginInv, NEW c \in Callbacks, NEW l \in Logins, NEW code \in Codes, FindState(c, l, code)
  PROVE  LoginInv'
<1> DEFINE crossed == \E d \in Callbacks : CallbackAt(d, "found") /\ callback[d].login = l
           new == [step |-> "found", login |-> l, code |-> code, issuer |-> NoIssuer, shared |-> crossed]
<1>1. /\ login[l].step = "stored" /\ UNCHANGED <<config, login>>
      /\ callback' = [callback EXCEPT ![c] = new]
  BY DEF FindState
<1>2. new \in CallbackType
  BY DEF CallbackType, AnIssuer
<1>3. new.step = "found" /\ new.login = l /\ new.code = code /\ new.shared = crossed
  OBVIOUS
<1>4. \A d \in Callbacks : callback[d].step # "idle" /\ callback[d].login = l => crossed
  BY <1>1 DEF LoginInv, CallbackInv, CallbackAt
<1> HIDE DEF new, crossed
<1>5. callback' \in [Callbacks -> CallbackType] /\ callback'[c] = new
      /\ \A d \in Callbacks \ {c} : callback'[d] = callback[d]
  BY <1>1, <1>2 DEF LoginInv, SsoTypes
<1>6. SsoTypes'
  BY <1>1, <1>5 DEF LoginInv, SsoTypes
<1>7. CallbackInv'
  BY <1>1, <1>3, <1>5 DEF LoginInv, CallbackInv
<1>8. CrossedInv'
  BY <1>3, <1>4, <1>5 DEF LoginInv, CrossedInv
<1>9. LoginIsItsOwn'
  BY <1>1, <1>3, <1>5 DEF LoginInv, LoginIsItsOwn, CallbackAt
<1> QED
  BY <1>6, <1>7, <1>8, <1>9 DEF LoginInv

\* The state is deleted, and the callback goes on with it.
LEMMA Taken ==
  ASSUME LoginInv, NEW c \in Callbacks, DeleteState(c)
  PROVE  LoginInv'
<1> DEFINE l == callback[c].login
           new == [callback[c] EXCEPT !.step = "taken"]
<1>0. callback[c].login = l
  OBVIOUS
<1>1. callback[c].step = "found" /\ l \in Logins /\ callback[c] \in CallbackType /\ login[l] \in LoginType
  BY DEF DeleteState, CallbackAt, LoginInv, SsoTypes, CallbackInv
<1>2. new \in CallbackType /\ new.step = "taken" /\ new.login = l
      /\ new.code = callback[c].code /\ new.shared = callback[c].shared
  BY <1>1 DEF CallbackType
<1>3. callback' = [callback EXCEPT ![c] = new]
  BY DEF DeleteState
<1>4. /\ login' \in [Logins -> LoginType] /\ login'[l].step = "gone" /\ login'[l].issuer = login[l].issuer
      /\ \A k \in Logins \ {l} : login'[k] = login[k]
  <2>1. [login[l] EXCEPT !.step = "gone"] \in LoginType
    BY <1>1 DEF LoginType
  <2> QED
    BY <1>1, <2>1 DEF DeleteState, LoginInv, SsoTypes, LoginType
<1> HIDE DEF l, new
<1>5. callback' \in [Callbacks -> CallbackType] /\ callback'[c] = new
      /\ \A d \in Callbacks \ {c} : callback'[d] = callback[d]
  BY <1>2, <1>3 DEF LoginInv, SsoTypes
<1>6. SsoTypes'
  BY <1>4, <1>5 DEF DeleteState, LoginInv, SsoTypes
<1>7. CallbackInv'
  BY <1>0, <1>1, <1>2, <1>4, <1>5 DEF LoginInv, CallbackInv
<1>8. CrossedInv'
  BY <1>0, <1>1, <1>2, <1>5 DEF LoginInv, CrossedInv
<1>9. LoginIsItsOwn'
  BY <1>0, <1>1, <1>2, <1>4, <1>5 DEF LoginInv, CallbackInv, LoginIsItsOwn, CallbackAt
<1> QED
  BY <1>6, <1>7, <1>8, <1>9 DEF LoginInv

\* The configuration of the moment is read, and the code exchanged with its issuer.
LEMMA ReadAndExchanged ==
  ASSUME LoginInv, NEW c \in Callbacks, ReadConfig(c) \/ ExchangeCode(c)
  PROVE  LoginInv'
<1>1. /\ callback[c].step \in {"taken", "configured"} /\ callback[c] \in CallbackType
      /\ UNCHANGED <<config, login>> /\ config \in [issuer : AnIssuer, enabled : BOOLEAN]
  BY DEF ReadConfig, ExchangeCode, CallbackAt, LoginInv, SsoTypes
<1>2. CASE FailCallback(c)
  <2> DEFINE new == [callback[c] EXCEPT !.step = "failed"]
  <2>1. callback' = [callback EXCEPT ![c] = new]
    BY <1>2 DEF FailCallback
  <2>2. /\ new \in CallbackType /\ new.step = "failed" /\ new.login = callback[c].login
        /\ new.code = callback[c].code /\ new.shared = callback[c].shared
    BY <1>1 DEF CallbackType
  <2> HIDE DEF new
  <2> QED
    BY <1>1, <2>1, <2>2, GoesOn
<1>3. CASE callback' = [callback EXCEPT ![c].step = "configured", ![c].issuer = config.issuer]
  <2> DEFINE new == [callback[c] EXCEPT !.step = "configured", !.issuer = config.issuer]
  <2>1. callback' = [callback EXCEPT ![c] = new]
    BY <1>3 DEF LoginInv, SsoTypes
  <2>2. /\ new \in CallbackType /\ new.step = "configured" /\ new.login = callback[c].login
        /\ new.code = callback[c].code /\ new.shared = callback[c].shared
    BY <1>1 DEF CallbackType
  <2> HIDE DEF new
  <2> QED
    BY <1>1, <2>1, <2>2, GoesOn
<1>4. CASE /\ Accepts(callback[c].issuer, callback[c].code)
           /\ callback' = [callback EXCEPT ![c].step = IF Verified(c) THEN "in" ELSE "failed"]
  <2> DEFINE new == [callback[c] EXCEPT !.step = IF Verified(c) THEN "in" ELSE "failed"]
  <2>1. callback' = [callback EXCEPT ![c] = new]
    BY <1>4
  <2>2. /\ new \in CallbackType /\ new.step \in {"in", "failed"} /\ new.login = callback[c].login
        /\ new.code = callback[c].code /\ new.shared = callback[c].shared
        /\ new.issuer = callback[c].issuer /\ (new.step = "in" => Verified(c))
    BY <1>1 DEF CallbackType
  <2> HIDE DEF new
  <2>3. new.step = "in" => new.code[1] = new.login /\ new.issuer = login[new.login].issuer
    BY <1>4, <2>2 DEF Accepts, Verified
  <2> QED
    BY <1>1, <2>1, <2>2, <2>3, GoesOn
<1> QED
  BY <1>2, <1>3, <1>4 DEF ReadConfig, ExchangeCode

LEMMA LoginNext == LoginInv /\ [SsoNext]_ssoVars => LoginInv'
<1> SUFFICES ASSUME LoginInv, [SsoNext]_ssoVars PROVE LoginInv'
  OBVIOUS
<1>0. config \in [issuer : AnIssuer, enabled : BOOLEAN] /\ login \in [Logins -> LoginType]
  BY DEF LoginInv, SsoTypes
<1>1. ASSUME UNCHANGED <<login, callback>>, config' \in [issuer : AnIssuer, enabled : BOOLEAN]
      PROVE  LoginInv'
  BY <1>1 DEF LoginInv, SsoTypes, CallbackInv, CrossedInv, LoginIsItsOwn, CallbackAt
<1>2. ASSUME NEW i \in Issuers, UpdateConfig(i) \/ ForgetDocument(i) PROVE LoginInv'
  <2>1. UNCHANGED <<login, callback>> /\ (config' = [issuer |-> i, enabled |-> TRUE] \/ config' = config)
    BY <1>2 DEF UpdateConfig, ForgetDocument, Upserted
  <2>2. [issuer |-> i, enabled |-> TRUE] \in [issuer : AnIssuer, enabled : BOOLEAN]
    BY DEF AnIssuer
  <2> QED
    BY <1>0, <1>1, <2>1, <2>2
<1>3. CASE FindToDisable \/ SaveDisabled \/ UNCHANGED ssoVars
  BY <1>0, <1>1, <1>3 DEF FindToDisable, SaveDisabled, ssoVars
<1>4. ASSUME NEW l \in Logins, BuildAuthUrl(l) PROVE LoginInv'
  <2>1. /\ [step |-> "stored", issuer |-> config.issuer] \in LoginType
        /\ login[l].step = "new" /\ UNCHANGED <<config, callback>>
        /\ login' = [login EXCEPT ![l] = [step |-> "stored", issuer |-> config.issuer]]
    BY <1>0, <1>4 DEF BuildAuthUrl, LoginType
  <2> QED
    BY <2>1, LoginGoesOn
<1>5. ASSUME NEW l \in Logins, ExpireState(l) PROVE LoginInv'
  <2> DEFINE new == [login[l] EXCEPT !.step = "gone"]
  <2>1. new \in LoginType /\ new.step = "gone" /\ new.issuer = login[l].issuer
    BY <1>0 DEF LoginType
  <2>2. login' = [login EXCEPT ![l] = new] /\ UNCHANGED <<config, callback>>
    BY <1>5 DEF ExpireState
  <2> HIDE DEF new
  <2> QED
    BY <2>1, <2>2, LoginGoesOn
<1> QED
  BY <1>2, <1>3, <1>4, <1>5, Found, Taken, ReadAndExchanged DEF SsoNext

\* LoginsAreSound, whatever is configured between redirect and callback, and however many
\* callbacks cross.
THEOREM LoginsStaySound == SsoSpec => []LoginsAreSound
<1>1. LoginInv => LoginsAreSound
  BY DEF LoginInv, CrossedInv, LoginsAreSound, StateUsedOnce, CallbackAt
<1> QED
  BY <1>1, LoginInit, LoginNext, PTL DEF SsoSpec

-----------------------------------------------------------------------------
(***************************************************************************)
(* The gates before a route, for any resolvers, chains, registrations,     *)
(* toggles and faults: GateInv keeps, in the history of a request,         *)
(* whatever its walk, its row and its circuit have been since it came, and *)
(* shows that what was read and decided is part of it.                     *)
(***************************************************************************)

Standings == {"ready", "suspended", "new", "deleted", "absent"}
Carried == {"none", "id", "domain", "bad"}

\* Whether the request is still at the gates.
AtGates == gate.step \notin {"idle", "runs", "refused"}

NowNamed == Named(gate.carries, chain, known)

GateTypes ==
  /\ gate = [step |-> gate.step, route |-> gate.route, carries |-> gate.carries,
             bypass |-> gate.bypass, rest |-> gate.rest, found |-> gate.found, seen |-> gate.seen,
             outcome |-> gate.outcome, facts |-> gate.facts, shuffled |-> gate.shuffled]
  /\ gate.carries \in [GateNames -> Carried]
  /\ gate.rest \in Seq(GateNames)
  /\ gate.found \in Carried \cup {"throws"}
  /\ gate.route \in Routes
  /\ gate.bypass \in BOOLEAN
  /\ gate.shuffled \in Nat

ThingTypes ==
  /\ standing \in Standings
  /\ maintained \in BOOLEAN
  /\ circuit \in BOOLEAN
  /\ chain \in Seq(GateNames)
  /\ gateFaults \in Nat

\* What is so now has been witnessed.
NowIsWitnessed == AtGates => Facts(standing, maintained, circuit, NowNamed) \subseteq gate.facts

\* The rest of a walk along list, of which count places are behind it.
IsAlong(rest, list, count) ==
  /\ list # <<>>
  /\ count <= Len(list)
  /\ Len(rest) = Len(list) - count
  /\ \A i \in 1 .. Len(rest) : rest[i] = list[count + i]

Misses(carries, names, name) == ~(name \in names /\ carries[name] # "none")

\* A walk has found nothing yet on a chain that was there when it or the registry began,
\* and is there now when the registry has not changed.
WalkIsAlong ==
  gate.step = "walk" /\ gate.shuffled <= 1 =>
    \E list \in Seq(GateNames), count \in Nat :
      /\ IsAlong(gate.rest, list, count)
      /\ \A i \in 1 .. count : Misses(gate.carries, known, list[i])
      /\ known = {} \/ <<"names", Named(gate.carries, list, known)>> \in gate.facts
      /\ gate.shuffled = 0 => list = chain

\* What the gates have read was so.
ReadWasSo ==
  /\ gate.step \in {"resolve", "walk"} => gate.found = "none"
  /\ gate.found = "throws" => gateFaults > 0
  /\ gate.step \in {"connect", "decide"} =>
       /\ <<"row", gate.seen[1], gate.seen[2]>> \in gate.facts
       /\ gate.seen[1] \in {"ready", "suspended", "new", "deleted"} /\ gate.seen[2] \in BOOLEAN
       /\ gate.route = "universal" => gate.seen[1] = "ready"
       /\ gate.route \in {"tenant", "universal"}
  /\ gate.step = "decide" => gate.route = "tenant"
  /\ gate.step \notin {"runs", "refused"} => gate.outcome = "none"

\* Toggles that do not cross leave the row as the last event said.
TogglesInTurn ==
  /\ toggler = [w \in Togglers |-> [step |-> toggler[w].step, enters |-> toggler[w].enters]]
  /\ \A w \in Togglers : toggler[w].enters \in BOOLEAN
  /\ muted \in BOOLEAN
  /\ ~muted =>
       /\ \A v, w \in Togglers : Busy(v) /\ Busy(w) => v = w
       /\ \A w \in Togglers : toggler[w].step = "announce" =>
            <<maintained, notice>> = <<toggler[w].enters, IF toggler[w].enters THEN w ELSE "none">>
       /\ (\A w \in Togglers : toggler[w].step # "announce") => announced = <<maintained, notice>>

GateInv ==
  /\ GateTypes
  /\ ThingTypes
  /\ NowIsWitnessed
  /\ WalkIsAlong
  /\ ReadWasSo
  /\ TogglesInTurn
  /\ WalkIsTrue
  /\ OnlyTheReadyAreServed
  /\ RefusalsAreTrue

-----------------------------------------------------------------------------
(* What happens while a request is at the gates.                           *)

\* The request has only seen more.
HasSeenMore ==
  /\ gate'.step = gate.step /\ gate'.route = gate.route /\ gate'.carries = gate.carries
  /\ gate'.bypass = gate.bypass /\ gate'.rest = gate.rest /\ gate'.found = gate.found
  /\ gate'.seen = gate.seen /\ gate'.outcome = gate.outcome
  /\ gate.facts \subseteq gate'.facts

LEMMA WitnessSees ==
  ASSUME GateInv, Witness
  PROVE  /\ HasSeenMore
         /\ GateTypes'
         /\ NowIsWitnessed'
         /\ gate.shuffled <= gate'.shuffled
         /\ gate.step = "walk" =>
              gate'.shuffled = IF registryVars' = registryVars THEN gate.shuffled ELSE gate.shuffled + 1
<1>1. PICK step, route, carries, bypass, rest, found, seen, outcome, facts, shuffled :
        gate = [step |-> step, route |-> route, carries |-> carries, bypass |-> bypass, rest |-> rest,
                found |-> found, seen |-> seen, outcome |-> outcome, facts |-> facts, shuffled |-> shuffled]
  BY DEF GateInv, GateTypes
<1>2. CASE gate.step \in {"idle", "runs", "refused"}
  <2>1. gate' = gate
    BY <1>2 DEF Witness
  <2> QED
    BY <1>2, <2>1 DEF HasSeenMore, GateInv, GateTypes, NowIsWitnessed, AtGates
<1>3. CASE gate.step \notin {"idle", "runs", "refused"}
  <2>1. PICK count : count = IF registryVars' = registryVars THEN shuffled ELSE shuffled + 1
    OBVIOUS
  <2>2. PICK moment : moment = Facts(standing', maintained', circuit', Named(carries, chain', known'))
    OBVIOUS
  <2>3. gate' = [step |-> step, route |-> route, carries |-> carries, bypass |-> bypass, rest |-> rest,
                 found |-> found, seen |-> seen, outcome |-> outcome, facts |-> facts \cup moment,
                 shuffled |-> count]
    BY <1>1, <1>3, <2>1, <2>2 DEF Witness
  <2>4. shuffled \in Nat /\ count \in Nat /\ shuffled <= count
    BY <1>1, <2>1 DEF GateInv, GateTypes
  <2>5. GateTypes'
    <3>1. /\ gate' = [step |-> gate'.step, route |-> gate'.route, carries |-> gate'.carries,
                bypass |-> gate'.bypass, rest |-> gate'.rest, found |-> gate'.found, seen |-> gate'.seen,
                outcome |-> gate'.outcome, facts |-> gate'.facts, shuffled |-> gate'.shuffled]
      BY <2>3
    <3>2. /\ gate'.carries = gate.carries /\ gate'.rest = gate.rest /\ gate'.found = gate.found
          /\ gate'.route = gate.route /\ gate'.bypass = gate.bypass /\ gate'.shuffled = count
      BY <1>1, <2>3
    <3> QED
      BY <2>4, <3>1, <3>2 DEF GateInv, GateTypes
  <2>6. HasSeenMore
    BY <1>1, <2>3 DEF HasSeenMore
  <2>7. NowIsWitnessed'
    BY <1>1, <2>2, <2>3 DEF NowIsWitnessed, NowNamed
  <2>8. gate.shuffled <= gate'.shuffled
    BY <1>1, <2>3, <2>4
  <2>9. gate'.shuffled = IF registryVars' = registryVars THEN gate.shuffled ELSE gate.shuffled + 1
    BY <1>1, <2>1, <2>3
  <2> QED
    BY <2>5, <2>6, <2>7, <2>8, <2>9
<1> QED
  BY <1>2, <1>3

\* What is said of a request stays true while it sees more.
LEMMA MoreStaysTrue ==
  ASSUME GateInv, HasSeenMore, GateTypes', gate.shuffled <= gate'.shuffled,
         known' \subseteq known, gateFaults' \in Nat, gateFaults <= gateFaults'
  PROVE  ReadWasSo' /\ WalkIsTrue' /\ OnlyTheReadyAreServed' /\ RefusalsAreTrue'
<1>1. ReadWasSo'
  BY DEF GateInv, ThingTypes, HasSeenMore, ReadWasSo
<1>2. WalkIsTrue'
  <2>1. gate'.shuffled <= 1 => gate.shuffled <= 1
    BY DEF GateInv, GateTypes
  <2> QED
    BY <2>1 DEF GateInv, HasSeenMore, WalkIsTrue
<1>3. ASSUME NEW standings, NEW flags, Was(standings, flags) PROVE Was(standings, flags)'
  BY <1>3 DEF Was, HasSeenMore
<1>4. OnlyTheReadyAreServed'
  BY DEF GateInv, HasSeenMore, OnlyTheReadyAreServed, Was
<1>5. RefusalsAreTrue'
  <2>1. gateFaults > 0 => gateFaults' > 0
    BY DEF GateInv, ThingTypes
  <2> QED
    BY <2>1 DEF GateInv, HasSeenMore, RefusalsAreTrue, Was
<1> QED
  BY <1>1, <1>2, <1>4, <1>5

\* A walk goes on along its chain, whose resolvers are as before.
LEMMA WalkGoesOn ==
  ASSUME GateInv, HasSeenMore, gate'.shuffled = gate.shuffled, UNCHANGED registryVars
  PROVE  WalkIsAlong'
BY DEF GateInv, HasSeenMore, WalkIsAlong, Misses, registryVars

LEMMA StandingKeeps ==
  ASSUME GateInv, ChangeStanding \/ TripCircuit
  PROVE  GateInv'
<1>1. /\ Witness /\ UNCHANGED <<maintained, notice, registryVars, toggler, announced, muted, gateFaults>>
      /\ ThingTypes'
  BY DEF GateInv, ThingTypes, Standings, ChangeStanding, TripCircuit, rowVars, registryVars
<1>2. /\ HasSeenMore /\ GateTypes' /\ NowIsWitnessed' /\ gate.shuffled <= gate'.shuffled
      /\ gate.step = "walk" => gate'.shuffled = gate.shuffled
  BY <1>1, WitnessSees
<1>3. WalkIsAlong'
  <2>1. CASE gate.step = "walk"
    BY <1>1, <1>2, <2>1, WalkGoesOn
  <2>2. CASE gate.step # "walk"
    BY <1>2, <2>2 DEF HasSeenMore, WalkIsAlong
  <2> QED
    BY <2>1, <2>2
<1>4. ReadWasSo' /\ WalkIsTrue' /\ OnlyTheReadyAreServed' /\ RefusalsAreTrue'
  <2>1. gateFaults' \in Nat /\ gateFaults <= gateFaults' /\ known' \subseteq known
    BY <1>1 DEF GateInv, ThingTypes, registryVars
  <2> QED
    BY <1>2, <2>1, MoreStaysTrue
<1>5. TogglesInTurn'
  BY <1>1 DEF GateInv, TogglesInTurn, Busy
<1> QED
  BY <1>1, <1>2, <1>3, <1>4, <1>5 DEF GateInv

\* Another chain leaves a walk on its own; a resolver less leaves what it has passed as it
\* was, and without any it finds nothing.
LEMMA RegistryKeeps ==
  ASSUME GateInv, ChangeRegistry
  PROVE  GateInv'
<1>1. /\ Witness /\ UNCHANGED <<standing, maintained, notice, circuit, toggler, announced, muted, gateFaults>>
      /\ known' \subseteq known /\ chain' \in Seq(GateNames)
      /\ UNCHANGED known \/ UNCHANGED chain \/ known' = {}
  <2>1. <<>> \in Seq(GateNames)
    BY EmptySeq
  <2>2. chain \in Seq(GateNames)
    BY DEF GateInv, ThingTypes
  <2>3. ASSUME NEW list \in Chains \ {chain}, chain' = list, UNCHANGED known
        PROVE  known' \subseteq known /\ chain' \in Seq(GateNames)
    BY <2>3, GateAssumption
  <2>4. Witness /\ UNCHANGED <<standing, maintained, notice, circuit, toggler, announced, muted, gateFaults>>
    BY DEF ChangeRegistry, rowVars
  <2> QED
    BY <2>1, <2>2, <2>3, <2>4 DEF ChangeRegistry, registryVars
<1>2. /\ HasSeenMore /\ GateTypes' /\ NowIsWitnessed' /\ gate.shuffled <= gate'.shuffled
      /\ gate.step = "walk" =>
           gate'.shuffled = IF registryVars' = registryVars THEN gate.shuffled ELSE gate.shuffled + 1
  BY <1>1, WitnessSees
<1>3. WalkIsAlong'
  <2> SUFFICES ASSUME gate'.step = "walk", registryVars' # registryVars
               PROVE  WalkIsAlong'
    BY <1>2, WalkGoesOn DEF HasSeenMore, WalkIsAlong
  <2>1. SUFFICES ASSUME gate'.shuffled <= 1
                 PROVE \E list \in Seq(GateNames), count \in Nat :
                         /\ IsAlong(gate'.rest, list, count)
                         /\ \A i \in 1 .. count : Misses(gate'.carries, known', list[i])
                         /\ known' = {} \/ <<"names", Named(gate'.carries, list, known')>> \in gate'.facts
                         /\ gate'.shuffled = 0 => list = chain'
    BY DEF WalkIsAlong, IsAlong
  <2>2. gate.step = "walk" /\ gate.shuffled = 0 /\ gate'.shuffled = 1
    BY <1>2, <2>1 DEF HasSeenMore, GateInv, GateTypes
  <2>3. PICK count \in Nat :
          /\ IsAlong(gate.rest, chain, count)
          /\ \A i \in 1 .. count : Misses(gate.carries, known, chain[i])
          /\ known = {} \/ <<"names", Named(gate.carries, chain, known)>> \in gate.facts
    <3>1. PICK list \in Seq(GateNames) : \E count \in Nat :
            /\ IsAlong(gate.rest, list, count)
            /\ \A i \in 1 .. count : Misses(gate.carries, known, list[i])
            /\ known = {} \/ <<"names", Named(gate.carries, list, known)>> \in gate.facts
            /\ gate.shuffled = 0 => list = chain
      BY <2>2 DEF GateInv, WalkIsAlong
    <3> QED
      BY <2>2, <3>1
  <2>4. \A i \in 1 .. count : Misses(gate'.carries, known', chain[i])
    BY <1>1, <1>2, <2>3 DEF Misses, HasSeenMore
  <2>5. known' = {} \/ <<"names", Named(gate'.carries, chain, known')>> \in gate'.facts
    <3>1. CASE UNCHANGED known
      BY <1>2, <2>3, <3>1 DEF HasSeenMore
    <3>2. CASE UNCHANGED chain
      <4>1. gate'.step = "walk"
        BY <2>1
      <4>2. <<"names", Named(gate'.carries, chain', known')>> \in gate'.facts
        BY <1>2, <4>1 DEF NowIsWitnessed, AtGates, NowNamed, Facts
      <4> QED
        BY <3>2, <4>2
    <3> QED
      BY <1>1, <3>1, <3>2
  <2>6. IsAlong(gate'.rest, chain, count)
    BY <1>2, <2>3 DEF HasSeenMore
  <2>7. chain \in Seq(GateNames)
    BY DEF GateInv, ThingTypes
  <2> WITNESS chain \in Seq(GateNames)
  <2> WITNESS count \in Nat
  <2> QED
    BY <2>2, <2>4, <2>5, <2>6
<1>4. ReadWasSo' /\ WalkIsTrue' /\ OnlyTheReadyAreServed' /\ RefusalsAreTrue'
  <2>1. gateFaults' \in Nat /\ gateFaults <= gateFaults'
    BY <1>1 DEF GateInv, ThingTypes
  <2> QED
    BY <1>1, <1>2, <2>1, MoreStaysTrue
<1>5. TogglesInTurn'
  BY <1>1 DEF GateInv, TogglesInTurn, Busy
<1>6. ThingTypes'
  BY <1>1 DEF GateInv, ThingTypes
<1> QED
  BY <1>2, <1>3, <1>4, <1>5, <1>6 DEF GateInv

-----------------------------------------------------------------------------
(* Toggles.                                                                *)

\* What a toggle leaves alone.
LEMMA GateStays ==
  ASSUME GateInv, UNCHANGED <<standing, maintained, circuit, registryVars, gate>>,
         gateFaults' \in Nat, gateFaults <= gateFaults'
  PROVE  /\ GateTypes' /\ ThingTypes' /\ NowIsWitnessed' /\ WalkIsAlong'
         /\ ReadWasSo' /\ WalkIsTrue' /\ OnlyTheReadyAreServed' /\ RefusalsAreTrue'
<1>1. GateTypes' /\ NowIsWitnessed' /\ ThingTypes'
  BY DEF GateInv, GateTypes, ThingTypes, NowIsWitnessed, AtGates, NowNamed, registryVars
<1>2. HasSeenMore /\ gate'.shuffled = gate.shuffled /\ gate.shuffled <= gate'.shuffled
  BY DEF HasSeenMore, GateInv, GateTypes
<1>3. WalkIsAlong'
  BY <1>2, WalkGoesOn
<1>4. known' \subseteq known
  BY DEF registryVars
<1> QED
  BY <1>1, <1>2, <1>3, <1>4, MoreStaysTrue

LEMMA StartKeeps ==
  ASSUME GateInv, NEW w \in Togglers, StartToggle(w)
  PROVE  GateInv'
<1>1. UNCHANGED <<standing, maintained, notice, circuit, registryVars, gate, announced, gateFaults>>
  BY DEF StartToggle, rowVars
<1>2. gateFaults' \in Nat /\ gateFaults <= gateFaults'
  BY <1>1 DEF GateInv, ThingTypes
<1>3. TogglesInTurn'
  <2>1. PICK enters \in BOOLEAN, step \in {"done", "save"} :
          toggler' = [toggler EXCEPT ![w] = [step |-> step, enters |-> enters]]
    BY DEF StartToggle
  <2>2. /\ toggler' = [v \in Togglers |-> [step |-> toggler'[v].step, enters |-> toggler'[v].enters]]
        /\ \A v \in Togglers : toggler'[v].enters \in BOOLEAN
        /\ toggler'[w].step \in {"done", "save"}
        /\ \A v \in Togglers : v # w => toggler'[v] = toggler[v]
    <3>1. toggler = [v \in Togglers |-> toggler[v]]
      BY DEF GateInv, TogglesInTurn
    <3>2. toggler'[w] = [step |-> step, enters |-> enters] /\ \A v \in Togglers : v # w => toggler'[v] = toggler[v]
      BY <2>1, <3>1
    <3>3. toggler' = [v \in Togglers |-> toggler'[v]]
      BY <2>1, <3>1
    <3>4. ASSUME NEW v \in Togglers
          PROVE  toggler'[v] = [step |-> toggler'[v].step, enters |-> toggler'[v].enters] /\ toggler'[v].enters \in BOOLEAN
      BY <3>2 DEF GateInv, TogglesInTurn
    <3> QED
      BY <3>2, <3>3, <3>4
  <2>3. muted' = (muted \/ \E v \in Togglers : Busy(v))
    BY DEF StartToggle
  <2>4. muted' \in BOOLEAN
    BY <2>3
  <2>5. ASSUME ~muted'
        PROVE  /\ ~muted /\ \A v \in Togglers : ~Busy(v)
               /\ \A v \in Togglers : v # w => ~Busy(v)'
               /\ \A v \in Togglers : toggler'[v].step # "announce"
    BY <2>2, <2>3, <2>5 DEF Busy
  <2>6. ASSUME ~muted' PROVE announced' = <<maintained', notice'>>
    BY <1>1, <2>5, <2>6 DEF GateInv, TogglesInTurn, Busy
  <2> QED
    BY <2>2, <2>4, <2>5, <2>6 DEF TogglesInTurn
<1> QED
  BY <1>1, <1>2, <1>3, GateStays DEF GateInv

LEMMA AnnounceKeeps ==
  ASSUME GateInv, NEW w \in Togglers, AnnounceToggle(w)
  PROVE  GateInv'
<1>1. UNCHANGED <<standing, maintained, notice, circuit, registryVars, gate>>
  BY DEF AnnounceToggle, rowVars
<1>2. gateFaults' \in Nat /\ gateFaults <= gateFaults'
  BY DEF AnnounceToggle, GateInv, ThingTypes
<1>3. TogglesInTurn'
  <2>1. toggler' = [toggler EXCEPT ![w].step = "done"] /\ toggler[w].step = "announce"
    BY DEF AnnounceToggle
  <2>2. /\ toggler' = [v \in Togglers |-> [step |-> toggler'[v].step, enters |-> toggler'[v].enters]]
        /\ \A v \in Togglers : toggler'[v].enters \in BOOLEAN
        /\ toggler'[w].step = "done"
        /\ \A v \in Togglers : v # w => toggler'[v] = toggler[v]
    BY <2>1 DEF GateInv, TogglesInTurn
  <2>3. muted' \in BOOLEAN
    BY DEF AnnounceToggle, GateInv, TogglesInTurn
  <2>4. ASSUME ~muted' PROVE ~muted /\ announced' = <<toggler[w].enters, IF toggler[w].enters THEN w ELSE "none">>
    BY <2>4 DEF AnnounceToggle
  <2>5. ASSUME ~muted' PROVE announced' = <<maintained', notice'>> /\ \A v \in Togglers : ~Busy(v)'
    BY <1>1, <2>1, <2>2, <2>4, <2>5 DEF GateInv, TogglesInTurn, Busy
  <2> QED
    BY <2>2, <2>3, <2>5 DEF TogglesInTurn, Busy
<1> QED
  BY <1>1, <1>2, <1>3, GateStays DEF GateInv

LEMMA SaveKeeps ==
  ASSUME GateInv, NEW w \in Togglers, SaveToggle(w)
  PROVE  GateInv'
<1>1. Witness /\ UNCHANGED <<standing, circuit, registryVars, announced, muted, gateFaults>>
  BY DEF SaveToggle
<1>2. ThingTypes'
  <2>1. maintained' \in BOOLEAN
    BY DEF SaveToggle, GateInv, TogglesInTurn
  <2> QED
    BY <1>1, <2>1 DEF GateInv, ThingTypes, registryVars
<1>3. /\ HasSeenMore /\ GateTypes' /\ NowIsWitnessed' /\ gate.shuffled <= gate'.shuffled
      /\ gate.step = "walk" => gate'.shuffled = gate.shuffled
  BY <1>1, WitnessSees
<1>4. WalkIsAlong'
  BY <1>1, <1>3, WalkGoesOn DEF HasSeenMore, WalkIsAlong
<1>5. ReadWasSo' /\ WalkIsTrue' /\ OnlyTheReadyAreServed' /\ RefusalsAreTrue'
  <2>1. gateFaults' \in Nat /\ gateFaults <= gateFaults' /\ known' \subseteq known
    BY <1>1 DEF GateInv, ThingTypes, registryVars
  <2> QED
    BY <1>3, <2>1, MoreStaysTrue
<1>6. TogglesInTurn'
  <2>1. toggler' = [toggler EXCEPT ![w].step = "announce"] /\ toggler[w].step = "save"
    BY DEF SaveToggle
  <2>2. /\ toggler' = [v \in Togglers |-> [step |-> toggler'[v].step, enters |-> toggler'[v].enters]]
        /\ \A v \in Togglers : toggler'[v].enters \in BOOLEAN
        /\ toggler'[w].step = "announce" /\ toggler'[w].enters = toggler[w].enters
        /\ \A v \in Togglers : v # w => toggler'[v] = toggler[v]
    BY <2>1 DEF GateInv, TogglesInTurn
  <2>3. muted' \in BOOLEAN /\ muted' = muted
    BY <1>1 DEF GateInv, TogglesInTurn
  <2>4. <<maintained', notice'>> = <<toggler'[w].enters, IF toggler'[w].enters THEN w ELSE "none">>
    BY <2>2 DEF SaveToggle
  <2>5. ASSUME ~muted', NEW v \in Togglers, v # w PROVE ~Busy(v) /\ ~Busy(v)'
    BY <2>1, <2>2, <2>3, <2>5 DEF GateInv, TogglesInTurn, Busy
  <2>6. ASSUME ~muted', NEW v \in Togglers, toggler'[v].step = "announce" PROVE v = w
    BY <2>5, <2>6 DEF Busy
  <2> QED
    BY <2>2, <2>3, <2>4, <2>5, <2>6 DEF TogglesInTurn
<1> QED
  BY <1>2, <1>3, <1>4, <1>5, <1>6 DEF GateInv

-----------------------------------------------------------------------------
(* The request's own steps.                                                *)

\* The things around a request stay as they are.
LEMMA ThingsStay ==
  ASSUME GateInv, RestUnchanged, gateFaults' \in Nat
  PROVE  ThingTypes' /\ TogglesInTurn'
BY DEF GateInv, RestUnchanged, ThingTypes, TogglesInTurn, Busy, rowVars, registryVars

\* A step that keeps what the request carries and has seen.
KeepsItsPast ==
  /\ gate'.route = gate.route /\ gate'.carries = gate.carries /\ gate'.bypass = gate.bypass
  /\ gate'.facts = gate.facts /\ gate'.shuffled = gate.shuffled

LEMMA NowStaysWitnessed ==
  ASSUME GateInv, RestUnchanged, KeepsItsPast, AtGates
  PROVE  NowIsWitnessed'
BY DEF GateInv, RestUnchanged, KeepsItsPast, NowIsWitnessed, NowNamed, rowVars, registryVars

\* The end of a request, and its entry to the guard.
LEMMA EndsSets ==
  ASSUME GateInv, NEW step, NEW outcome, Ends(step, outcome)
  PROVE  /\ KeepsItsPast /\ GateTypes'
         /\ gate'.step = step /\ gate'.outcome = outcome
         /\ gate'.found = gate.found /\ gate'.seen = gate.seen /\ gate'.rest = gate.rest
<1>1. PICK s, route, carries, bypass, rest, found, seen, o, facts, shuffled :
        gate = [step |-> s, route |-> route, carries |-> carries, bypass |-> bypass, rest |-> rest,
                found |-> found, seen |-> seen, outcome |-> o, facts |-> facts, shuffled |-> shuffled]
  BY DEF GateInv, GateTypes
<1>2. gate' = [step |-> step, route |-> route, carries |-> carries, bypass |-> bypass, rest |-> rest,
               found |-> found, seen |-> seen, outcome |-> outcome, facts |-> facts, shuffled |-> shuffled]
  BY <1>1 DEF Ends
<1>3. /\ gate'.step = step /\ gate'.outcome = outcome
      /\ gate'.found = gate.found /\ gate'.seen = gate.seen /\ gate'.rest = gate.rest
      /\ gate'.route = gate.route /\ gate'.carries = gate.carries /\ gate'.bypass = gate.bypass
      /\ gate'.facts = gate.facts /\ gate'.shuffled = gate.shuffled
  BY <1>1, <1>2
<1>4. gate' = [step |-> gate'.step, route |-> gate'.route, carries |-> gate'.carries,
               bypass |-> gate'.bypass, rest |-> gate'.rest, found |-> gate'.found, seen |-> gate'.seen,
               outcome |-> gate'.outcome, facts |-> gate'.facts, shuffled |-> gate'.shuffled]
  BY <1>2
<1> QED
  BY <1>3, <1>4 DEF KeepsItsPast, GateInv, GateTypes

LEMMA CopyRowSets ==
  ASSUME GateInv, CopyRow
  PROVE  /\ KeepsItsPast /\ GateTypes'
         /\ gate'.step = "connect" /\ gate'.seen = <<standing, maintained>>
         /\ gate'.found = gate.found /\ gate'.outcome = gate.outcome /\ gate'.rest = gate.rest
<1>1. PICK s, route, carries, bypass, rest, found, seen, o, facts, shuffled :
        gate = [step |-> s, route |-> route, carries |-> carries, bypass |-> bypass, rest |-> rest,
                found |-> found, seen |-> seen, outcome |-> o, facts |-> facts, shuffled |-> shuffled]
  BY DEF GateInv, GateTypes
<1>2. PICK pair : pair = <<standing, maintained>>
  OBVIOUS
<1>3. gate' = [step |-> "connect", route |-> route, carries |-> carries, bypass |-> bypass, rest |-> rest,
               found |-> found, seen |-> pair, outcome |-> o, facts |-> facts, shuffled |-> shuffled]
  BY <1>1, <1>2 DEF CopyRow
<1>4. /\ gate'.step = "connect" /\ gate'.outcome = gate.outcome
      /\ gate'.found = gate.found /\ gate'.seen = pair /\ gate'.rest = gate.rest
      /\ gate'.route = gate.route /\ gate'.carries = gate.carries /\ gate'.bypass = gate.bypass
      /\ gate'.facts = gate.facts /\ gate'.shuffled = gate.shuffled
  BY <1>1, <1>3
<1>5. gate' = [step |-> gate'.step, route |-> gate'.route, carries |-> gate'.carries,
               bypass |-> gate'.bypass, rest |-> gate'.rest, found |-> gate'.found, seen |-> gate'.seen,
               outcome |-> gate'.outcome, facts |-> gate'.facts, shuffled |-> gate'.shuffled]
  BY <1>3
<1> QED
  BY <1>2, <1>4, <1>5 DEF KeepsItsPast, GateInv, GateTypes

\* The row as it is has been so, and the circuit.
LEMMA NowWas ==
  ASSUME GateInv, AtGates
  PROVE  /\ <<"row", standing, maintained>> \in gate.facts /\ <<"circuit", circuit>> \in gate.facts
         /\ <<"names", NowNamed>> \in gate.facts
         /\ standing \in Standings /\ maintained \in BOOLEAN /\ circuit \in BOOLEAN
BY DEF GateInv, NowIsWitnessed, ThingTypes, Facts

\* A request that leaves the gates, for what it has just read.
LEMMA EndKeeps ==
  ASSUME GateInv, RestUnchanged, AtGates, gate.step # "walk", gate.route = "ignored" \/ gate.step # "resolve",
         NEW step \in {"runs", "refused"}, NEW outcome, Ends(step, outcome),
         gateFaults' \in Nat, gateFaults <= gateFaults',
         outcome = "tenant" =>
           /\ Was({"ready"}, {FALSE} \cup (IF gate.bypass \/ gate.route = "universal" THEN {TRUE} ELSE {}))
           /\ gate.route = "tenant" => <<"circuit", FALSE>> \in gate.facts,
         outcome = "suspended" => Was({"suspended", "deleted"}, BOOLEAN),
         outcome = "notReady" => Was({"new"}, BOOLEAN),
         outcome = "maintenance" => Was({"ready"}, {TRUE}) /\ ~gate.bypass,
         outcome = "circuit" => <<"circuit", TRUE>> \in gate.facts,
         outcome = "notFound" => Was({"absent", "deleted"}, BOOLEAN),
         outcome = "error" => gateFaults' > 0,
         outcome = "central" /\ gate.route = "universal" =>
           \/ gateFaults' > 0
           \/ gate.found \in {"none", "bad"}
           \/ Was({"suspended", "new", "deleted", "absent"}, BOOLEAN)
  PROVE  GateInv'
<1>1. /\ KeepsItsPast /\ GateTypes'
      /\ gate'.step = step /\ gate'.outcome = outcome
      /\ gate'.found = gate.found /\ gate'.seen = gate.seen /\ gate'.rest = gate.rest
  BY EndsSets
<1>2. ThingTypes' /\ TogglesInTurn' /\ NowIsWitnessed'
  BY <1>1, ThingsStay, NowStaysWitnessed
<1>3. WalkIsAlong'
  BY <1>1 DEF WalkIsAlong
<1>4. ReadWasSo'
  BY <1>1 DEF ReadWasSo, GateInv, ThingTypes
<1>5. WalkIsTrue'
  BY <1>1 DEF WalkIsTrue, GateInv, KeepsItsPast, AtGates, RestUnchanged, registryVars
<1>6. OnlyTheReadyAreServed'
  BY <1>1 DEF OnlyTheReadyAreServed, Was, KeepsItsPast
<1>7. RefusalsAreTrue'
  BY <1>1 DEF RefusalsAreTrue, Was, KeepsItsPast
<1> QED
  BY <1>1, <1>2, <1>3, <1>4, <1>5, <1>6, <1>7 DEF GateInv

LEMMA PassingKeeps ==
  ASSUME GateInv, PassIgnored \/ PassCentral
  PROVE  GateInv'
<1>1. RestUnchanged /\ AtGates /\ gate.step # "walk" /\ (gate.route = "ignored" \/ gate.step # "resolve")
      /\ gate.route # "universal"
  BY DEF PassIgnored, PassCentral, AtGates
<1>2. gateFaults' \in Nat /\ gateFaults' = gateFaults
  BY DEF PassIgnored, PassCentral, GateInv, ThingTypes
<1>3. gateFaults <= gateFaults'
  BY <1>2
<1>4. ASSUME NEW step \in {"runs", "refused"}, NEW outcome \in {"central", "error"}, Ends(step, outcome),
             outcome = "error" => gateFaults' > 0
      PROVE  GateInv'
  BY <1>1, <1>2, <1>3, <1>4, EndKeeps
<1>5. gate.found = "throws" => gateFaults' > 0
  BY <1>2 DEF GateInv, ReadWasSo
<1> QED
  BY <1>4, <1>5 DEF PassIgnored, PassCentral

\* The row that is found is read.
LEMMA CopyKeeps ==
  ASSUME GateInv, RestUnchanged, UNCHANGED gateFaults, gate.step = "look", CopyRow, standing # "absent",
         gate.route \in {"tenant", "universal"}, gate.route = "universal" => standing = "ready"
  PROVE  GateInv'
<1>1. /\ KeepsItsPast /\ GateTypes'
      /\ gate'.step = "connect" /\ gate'.seen = <<standing, maintained>>
      /\ gate'.found = gate.found /\ gate'.outcome = gate.outcome /\ gate'.rest = gate.rest
  BY CopyRowSets
<1>2. AtGates
  BY DEF AtGates
<1>3. ThingTypes' /\ TogglesInTurn' /\ NowIsWitnessed'
  BY <1>1, <1>2, ThingsStay, NowStaysWitnessed DEF GateInv, ThingTypes
<1>4. ReadWasSo'
  <2>1. gate'.seen[1] = standing /\ gate'.seen[2] = maintained
    BY <1>1
  <2>2. gate.outcome = "none" /\ (gate.found = "throws" => gateFaults > 0)
    BY DEF GateInv, ReadWasSo
  <2> QED
    BY <1>1, <1>2, <2>1, <2>2, NowWas DEF KeepsItsPast, ReadWasSo, Standings
<1>5. WalkIsAlong'
  BY <1>1 DEF WalkIsAlong
<1>6. WalkIsTrue'
  BY <1>1 DEF WalkIsTrue, GateInv, KeepsItsPast, RestUnchanged, registryVars
<1>7. OnlyTheReadyAreServed' /\ RefusalsAreTrue'
  BY <1>1 DEF GateInv, ReadWasSo, OnlyTheReadyAreServed, RefusalsAreTrue
<1> QED
  BY <1>1, <1>3, <1>4, <1>5, <1>6, <1>7 DEF GateInv

LEMMA LookUpKeeps ==
  ASSUME GateInv, LookUp
  PROVE  GateInv'
<1>1. RestUnchanged /\ AtGates /\ gate.step = "look" /\ gate.route = "tenant" /\ UNCHANGED gateFaults
  BY DEF LookUp, AtGates
<1>2. gateFaults' \in Nat /\ gateFaults <= gateFaults'
  BY <1>1 DEF GateInv, ThingTypes
<1>3. ASSUME NEW outcome \in {"error", "missing", "notFound"}, Ends("refused", outcome),
             outcome = "error" => gateFaults' > 0,
             outcome = "notFound" => Was({"absent", "deleted"}, BOOLEAN)
      PROVE  GateInv'
  BY <1>1, <1>2, <1>3, EndKeeps
<1>4. CASE gate.found = "throws"
  BY <1>1, <1>3, <1>4 DEF LookUp, GateInv, ReadWasSo
<1>5. CASE gate.found \in {"none", "bad"}
  BY <1>3, <1>5 DEF LookUp
<1>6. CASE gate.found \in {"id", "domain"} /\ Finds(TRUE)
  BY <1>1, <1>6, CopyKeeps DEF LookUp, Finds
<1>7. CASE gate.found \in {"id", "domain"} /\ ~Finds(TRUE)
  <2>1. standing \in {"absent", "deleted"}
    BY <1>7 DEF Finds
  <2>2. Was({"absent", "deleted"}, BOOLEAN)
    BY <1>1, <2>1, NowWas DEF Was
  <2> QED
    BY <1>3, <1>7, <2>2 DEF LookUp
<1> QED
  BY <1>4, <1>5, <1>6, <1>7 DEF GateInv, GateTypes, Carried

LEMMA TryKeeps ==
  ASSUME GateInv, TryResolve
  PROVE  GateInv'
<1>1. RestUnchanged /\ AtGates /\ gate.step = "look" /\ gate.route = "universal" /\ UNCHANGED gateFaults
  BY DEF TryResolve, AtGates
<1>2. gateFaults' \in Nat /\ gateFaults <= gateFaults'
  BY <1>1 DEF GateInv, ThingTypes
<1>3. CASE Finds(FALSE) /\ Servable(standing)
  BY <1>1, <1>3, CopyKeeps DEF TryResolve, Finds, Servable
<1>4. CASE ~(Finds(FALSE) /\ Servable(standing))
  <2>1. Ends("runs", "central")
    BY <1>4 DEF TryResolve
  <2>2. \/ gateFaults' > 0
        \/ gate.found \in {"none", "bad"}
        \/ Was({"suspended", "new", "deleted", "absent"}, BOOLEAN)
    <3>1. CASE gate.found = "throws"
      BY <1>1, <3>1 DEF GateInv, ReadWasSo
    <3>2. CASE gate.found \in {"id", "domain"}
      <4>1. standing \in {"suspended", "new", "deleted", "absent"}
        BY <1>1, <1>4, <3>2, NowWas DEF Finds, Servable, Standings
      <4> QED
        BY <1>1, <4>1, NowWas DEF Was
    <3> QED
      BY <3>1, <3>2 DEF GateInv, GateTypes, Carried
  <2> QED
    BY <1>1, <1>2, <2>1, <2>2, EndKeeps
<1> QED
  BY <1>3, <1>4

LEMMA ConnectKeeps ==
  ASSUME GateInv, ConnectAtGate
  PROVE  GateInv'
<1>1. RestUnchanged /\ AtGates /\ gate.step = "connect"
  BY DEF ConnectAtGate, AtGates
<1>2. gateFaults' \in Nat /\ gateFaults <= gateFaults' /\ (gateFaults' # gateFaults => gateFaults' > 0)
  BY DEF ConnectAtGate, GateInv, ThingTypes
<1>3. /\ <<"row", gate.seen[1], gate.seen[2]>> \in gate.facts
      /\ gate.seen[2] \in BOOLEAN /\ (gate.route = "universal" => gate.seen[1] = "ready")
  BY <1>1 DEF GateInv, ReadWasSo
<1>4. CASE gate.route = "universal" /\ Ends("runs", "tenant")
  <2>1. Was({"ready"}, {FALSE} \cup (IF gate.bypass \/ gate.route = "universal" THEN {TRUE} ELSE {}))
    <3>1. <<"row", "ready", gate.seen[2]>> \in gate.facts /\ gate.seen[2] \in {FALSE} \cup {TRUE}
      BY <1>3, <1>4
    <3> QED
      BY <1>4, <3>1 DEF Was
  <2> QED
    BY <1>1, <1>2, <1>4, <2>1, EndKeeps
<1>5. CASE gate.route = "universal" /\ Ends("runs", "central") /\ gateFaults' # gateFaults
  BY <1>1, <1>2, <1>5, EndKeeps
<1>6. CASE gate.route # "universal" /\ Ends("refused", "error") /\ gateFaults' # gateFaults
  BY <1>1, <1>2, <1>6, EndKeeps
<1>7. CASE gate.route # "universal" /\ Ends("decide", "none")
  <2>1. /\ KeepsItsPast /\ GateTypes'
        /\ gate'.step = "decide" /\ gate'.outcome = "none"
        /\ gate'.found = gate.found /\ gate'.seen = gate.seen /\ gate'.rest = gate.rest
    BY <1>7, EndsSets
  <2>2. ThingTypes' /\ TogglesInTurn' /\ NowIsWitnessed'
    BY <1>1, <1>2, <2>1, ThingsStay, NowStaysWitnessed
  <2>3. WalkIsAlong'
    BY <2>1 DEF WalkIsAlong
  <2>4. ReadWasSo'
    BY <1>1, <1>2, <1>7, <2>1 DEF ReadWasSo, GateInv, ThingTypes, KeepsItsPast
  <2>5. WalkIsTrue'
    BY <1>1, <2>1 DEF WalkIsTrue, GateInv, KeepsItsPast, RestUnchanged, registryVars
  <2>6. OnlyTheReadyAreServed' /\ RefusalsAreTrue'
    BY <2>1 DEF OnlyTheReadyAreServed, RefusalsAreTrue
  <2> QED
    BY <2>1, <2>2, <2>3, <2>4, <2>5, <2>6 DEF GateInv
<1> QED
  BY <1>4, <1>5, <1>6, <1>7 DEF ConnectAtGate, GateInv, ThingTypes

LEMMA DecideKeeps ==
  ASSUME GateInv, Decide
  PROVE  GateInv'
<1>1. RestUnchanged /\ AtGates /\ gate.step = "decide" /\ UNCHANGED gateFaults
  BY DEF Decide, AtGates
<1>2. gateFaults' \in Nat /\ gateFaults <= gateFaults'
  BY <1>1 DEF GateInv, ThingTypes
<1>3. /\ <<"row", gate.seen[1], gate.seen[2]>> \in gate.facts
      /\ gate.seen[1] \in {"ready", "suspended", "new", "deleted"} /\ gate.seen[2] \in BOOLEAN
      /\ gate.route = "tenant"
  BY <1>1 DEF GateInv, ReadWasSo
<1>4. CASE gate.seen[1] \in {"suspended", "deleted"}
  <2>1. Ends("refused", "suspended") /\ Was({"suspended", "deleted"}, BOOLEAN)
    BY <1>3, <1>4 DEF Decide, Was
  <2> QED
    BY <1>1, <1>2, <2>1, EndKeeps
<1>5. CASE gate.seen[1] = "new"
  <2>1. Ends("refused", "notReady") /\ Was({"new"}, BOOLEAN)
    BY <1>3, <1>5 DEF Decide, Was
  <2> QED
    BY <1>1, <1>2, <2>1, EndKeeps
<1>6. CASE gate.seen[1] = "ready" /\ gate.seen[2] /\ ~gate.bypass
  <2>1. Ends("refused", "maintenance")
    BY <1>6 DEF Decide
  <2>2. gate.seen[2] \in {TRUE}
    BY <1>3, <1>6
  <2>3. Was({"ready"}, {TRUE})
    BY <1>3, <1>6, <2>2 DEF Was
  <2> QED
    BY <1>1, <1>2, <1>6, <2>1, <2>3, EndKeeps
<1>7. CASE gate.seen[1] = "ready" /\ ~(gate.seen[2] /\ ~gate.bypass) /\ circuit
  <2>1. Ends("refused", "circuit")
    BY <1>7 DEF Decide
  <2>2. circuit = TRUE
    BY <1>1, <1>7, NowWas
  <2>3. <<"circuit", TRUE>> \in gate.facts
    BY <1>1, <2>2, NowWas
  <2> QED
    BY <1>1, <1>2, <2>1, <2>3, EndKeeps
<1>8. CASE gate.seen[1] = "ready" /\ ~(gate.seen[2] /\ ~gate.bypass) /\ ~circuit
  <2>1. Ends("runs", "tenant")
    BY <1>8 DEF Decide
  <2>2. circuit = FALSE
    BY <1>1, <1>8, NowWas
  <2>3. <<"circuit", FALSE>> \in gate.facts
    BY <1>1, <2>2, NowWas
  <2>4. gate.seen[2] \in {FALSE} \cup (IF gate.bypass \/ gate.route = "universal" THEN {TRUE} ELSE {})
    <3>1. CASE gate.bypass
      BY <1>3, <3>1
    <3>2. CASE ~gate.bypass
      BY <1>3, <1>8, <3>2
    <3> QED
      BY <3>1, <3>2
  <2>5. Was({"ready"}, {FALSE} \cup (IF gate.bypass \/ gate.route = "universal" THEN {TRUE} ELSE {}))
    BY <1>3, <1>8, <2>4 DEF Was
  <2> QED
    BY <1>1, <1>2, <2>1, <2>3, <2>5, EndKeeps
<1> QED
  BY <1>3, <1>4, <1>5, <1>6, <1>7, <1>8

LEMMA ArriveKeeps ==
  ASSUME GateInv, ArriveAtGate
  PROVE  GateInv'
<1>1. PICK route \in Routes, given \in [GateNames -> {"none", "id", "domain", "bad"}], bypass \in BOOLEAN, hosted \in BOOLEAN :
        LET taken == IF hosted /\ standing \notin {"absent", "deleted"}
                     THEN [given EXCEPT ![HeaderName] = "id"] ELSE given
        IN gate' = [NoRequest EXCEPT !.step = "resolve", !.route = route, !.carries = taken,
                       !.bypass = bypass,
                       !.facts = Facts(standing, maintained, circuit, Named(taken, chain, known))]
  BY DEF ArriveAtGate
<1>2. PICK taken \in [GateNames -> Carried] :
        gate' = [NoRequest EXCEPT !.step = "resolve", !.route = route, !.carries = taken,
                       !.bypass = bypass,
                       !.facts = Facts(standing, maintained, circuit, Named(taken, chain, known))]
  BY <1>1 DEF Carried
<1>3. PICK moment : moment = Facts(standing, maintained, circuit, Named(taken, chain, known))
  OBVIOUS
<1>4. gate' = [step |-> "resolve", route |-> route, carries |-> taken, bypass |-> bypass, rest |-> <<>>,
               found |-> "none", seen |-> <<"absent", FALSE>>, outcome |-> "none", facts |-> moment,
               shuffled |-> 0]
  BY <1>2, <1>3 DEF NoRequest
<1>5. /\ gate'.step = "resolve" /\ gate'.route = route /\ gate'.carries = taken /\ gate'.bypass = bypass
      /\ gate'.rest = <<>> /\ gate'.found = "none" /\ gate'.outcome = "none" /\ gate'.facts = moment
      /\ gate'.shuffled = 0
      /\ gate' = [step |-> gate'.step, route |-> gate'.route, carries |-> gate'.carries,
                bypass |-> gate'.bypass, rest |-> gate'.rest, found |-> gate'.found, seen |-> gate'.seen,
                outcome |-> gate'.outcome, facts |-> gate'.facts, shuffled |-> gate'.shuffled]
  BY <1>4
<1>6. RestUnchanged /\ gateFaults' \in Nat
  BY DEF ArriveAtGate, GateInv, ThingTypes
<1>7. GateTypes'
  BY <1>5, EmptySeq DEF GateTypes, Carried
<1>8. ThingTypes' /\ TogglesInTurn'
  BY <1>6, ThingsStay
<1>9. NowIsWitnessed'
  BY <1>3, <1>5, <1>6 DEF NowIsWitnessed, NowNamed, RestUnchanged, rowVars, registryVars
<1>10. WalkIsAlong' /\ ReadWasSo' /\ WalkIsTrue' /\ OnlyTheReadyAreServed' /\ RefusalsAreTrue'
  BY <1>5 DEF WalkIsAlong, ReadWasSo, WalkIsTrue, OnlyTheReadyAreServed, RefusalsAreTrue
<1> QED
  BY <1>7, <1>8, <1>9, <1>10 DEF GateInv

\* A step of the walk.
LEMMA WalkSets ==
  ASSUME GateInv, NEW step, NEW found, NEW rest,
         gate' = [gate EXCEPT !.step = step, !.found = found, !.rest = rest],
         found \in Carried \cup {"throws"}, rest \in Seq(GateNames)
  PROVE  /\ KeepsItsPast /\ GateTypes'
         /\ gate'.step = step /\ gate'.found = found /\ gate'.rest = rest
         /\ gate'.seen = gate.seen /\ gate'.outcome = gate.outcome
<1>1. PICK s, route, carries, bypass, r, f, seen, o, facts, shuffled :
        gate = [step |-> s, route |-> route, carries |-> carries, bypass |-> bypass, rest |-> r,
                found |-> f, seen |-> seen, outcome |-> o, facts |-> facts, shuffled |-> shuffled]
  BY DEF GateInv, GateTypes
<1>2. gate' = [step |-> step, route |-> route, carries |-> carries, bypass |-> bypass, rest |-> rest,
               found |-> found, seen |-> seen, outcome |-> o, facts |-> facts, shuffled |-> shuffled]
  BY <1>1
<1>3. /\ gate'.step = step /\ gate'.outcome = gate.outcome
      /\ gate'.found = found /\ gate'.seen = gate.seen /\ gate'.rest = rest
      /\ gate'.route = gate.route /\ gate'.carries = gate.carries /\ gate'.bypass = gate.bypass
      /\ gate'.facts = gate.facts /\ gate'.shuffled = gate.shuffled
  BY <1>1, <1>2
<1>4. gate' = [step |-> gate'.step, route |-> gate'.route, carries |-> gate'.carries,
               bypass |-> gate'.bypass, rest |-> gate'.rest, found |-> gate'.found, seen |-> gate'.seen,
               outcome |-> gate'.outcome, facts |-> gate'.facts, shuffled |-> gate'.shuffled]
  BY <1>2
<1> QED
  BY <1>3, <1>4 DEF KeepsItsPast, GateInv, GateTypes

\* A step of the walk that finds what a moment made of the request, or goes on.
LEMMA WalkStepKeeps ==
  ASSUME GateInv, RestUnchanged, gate.step \in {"resolve", "walk"},
         NEW step \in {"look", "walk"}, NEW found, NEW rest,
         gate' = [gate EXCEPT !.step = step, !.found = found, !.rest = rest],
         found \in Carried \cup {"throws"}, rest \in Seq(GateNames),
         gateFaults' \in Nat, gateFaults <= gateFaults',
         found = "throws" => gateFaults' > 0,
         step = "walk" => found = "none" /\ WalkIsAlong',
         step = "look" /\ found # "throws" /\ gate.shuffled <= 1 =>
           <<"names", found>> \in gate.facts \/ (found = "none" /\ known = {})
  PROVE  GateInv'
<1>1. /\ KeepsItsPast /\ GateTypes'
      /\ gate'.step = step /\ gate'.found = found /\ gate'.rest = rest
      /\ gate'.seen = gate.seen /\ gate'.outcome = gate.outcome
  BY WalkSets
<1>2. AtGates /\ gate.outcome = "none"
  BY DEF AtGates, GateInv, ReadWasSo
<1>3. ThingTypes' /\ TogglesInTurn' /\ NowIsWitnessed'
  BY <1>1, <1>2, ThingsStay, NowStaysWitnessed
<1>4. WalkIsAlong'
  BY <1>1 DEF WalkIsAlong
<1>5. ReadWasSo'
  BY <1>1, <1>2 DEF ReadWasSo
<1>6. WalkIsTrue'
  BY <1>1 DEF WalkIsTrue, KeepsItsPast, RestUnchanged, registryVars
<1>7. OnlyTheReadyAreServed' /\ RefusalsAreTrue'
  BY <1>1, <1>2 DEF OnlyTheReadyAreServed, RefusalsAreTrue
<1> QED
  BY <1>1, <1>3, <1>4, <1>5, <1>6, <1>7 DEF GateInv

LEMMA BeginKeeps ==
  ASSUME GateInv, BeginWalk
  PROVE  GateInv'
<1>1. RestUnchanged /\ gate.step = "resolve" /\ gate.route # "ignored" /\ AtGates
  BY DEF BeginWalk, AtGates
<1>2. gateFaults' \in Nat /\ gateFaults <= gateFaults'
  BY DEF BeginWalk, GateInv, ThingTypes
<1>3. gate.found = "none" /\ "none" \in Carried
  BY <1>1 DEF GateInv, ReadWasSo, Carried
<1>4. PICK s, route, carries, bypass, r, f, seen, o, facts, shuffled :
        gate = [step |-> s, route |-> route, carries |-> carries, bypass |-> bypass, rest |-> r,
                found |-> f, seen |-> seen, outcome |-> o, facts |-> facts, shuffled |-> shuffled]
  BY DEF GateInv, GateTypes
<1>5. CASE chain = <<>>
  <2>1. PICK hit : hit = gate.carries[HeaderName]
    OBVIOUS
  <2>2. gate' = [gate EXCEPT !.step = "look", !.found = hit, !.rest = gate.rest]
    <3>1. gate' = [gate EXCEPT !.step = "look", !.found = hit]
      BY <1>5, <2>1 DEF BeginWalk
    <3> QED
      BY <1>4, <3>1
  <2>3. hit \in Carried /\ hit # "throws"
    BY <2>1, GateAssumption DEF GateInv, GateTypes, Carried
  <2>4. gate.rest \in Seq(GateNames)
    BY DEF GateInv, GateTypes
  <2>5. NowNamed = hit
    BY <1>5, <2>1 DEF NowNamed, Named
  <2>6. <<"names", hit>> \in gate.facts
    BY <1>1, <2>5, NowWas
  <2> QED
    BY <1>1, <1>2, <2>2, <2>3, <2>4, <2>6, WalkStepKeeps
<1>6. CASE chain # <<>>
  <2>1. gate' = [gate EXCEPT !.step = "walk", !.found = "none", !.rest = chain]
    <3>1. gate' = [gate EXCEPT !.step = "walk", !.rest = chain]
      BY <1>6 DEF BeginWalk
    <3> QED
      BY <1>3, <1>4, <3>1
  <2>2. chain \in Seq(GateNames) /\ UNCHANGED <<chain, known>>
    BY <1>1 DEF GateInv, ThingTypes, RestUnchanged, registryVars
  <2>3. KeepsItsPast /\ gate'.rest = chain
    BY <1>3, <2>1, <2>2, WalkSets
  <2>4. <<"names", Named(gate.carries, chain, known)>> \in gate.facts
    BY <1>1, NowWas DEF NowNamed
  <2>5. WalkIsAlong'
    <3>1. IsAlong(gate'.rest, chain, 0)
      <4>1. Len(chain) \in Nat
        BY <2>2
      <4> QED
        BY <1>6, <2>3, <4>1 DEF IsAlong
    <3> SUFFICES \E list \in Seq(GateNames), count \in Nat :
                   /\ IsAlong(gate'.rest, list, count)
                   /\ \A i \in 1 .. count : Misses(gate'.carries, known', list[i])
                   /\ known' = {} \/ <<"names", Named(gate'.carries, list, known')>> \in gate'.facts
                   /\ gate'.shuffled = 0 => list = chain'
      BY DEF WalkIsAlong, IsAlong
    <3>2. chain \in Seq(GateNames)
      BY <2>2
    <3> WITNESS chain \in Seq(GateNames)
    <3> WITNESS 0 \in Nat
    <3> QED
      BY <2>2, <2>3, <2>4, <3>1 DEF KeepsItsPast
  <2> QED
    BY <1>1, <1>2, <1>3, <2>1, <2>2, <2>5, WalkStepKeeps
<1> QED
  BY <1>5, <1>6

\* The first resolver that finds something names the tenant.
LEMMA FirstHitNames ==
  ASSUME NEW carries, NEW names, NEW list \in Seq(GateNames), NEW i \in Nat, i \in 1 .. Len(list),
         \A j \in 1 .. (i - 1) : Misses(carries, names, list[j]),
         ~Misses(carries, names, list[i])
  PROVE  Named(carries, list, names) = carries[list[i]]
<1> DEFINE hits == Hits(carries, list, names)
<1>1. DOMAIN list = 1 .. Len(list) /\ Len(list) \in Nat
  OBVIOUS
<1>2. i \in hits
  BY <1>1 DEF Hits, Misses
<1>3. \A j \in hits : j \in Nat /\ i <= j
  BY <1>1 DEF Hits, Misses
<1> HIDE DEF hits
<1>4. (CHOOSE k \in hits : \A j \in hits : k <= j) = i
  <2>1. \E k \in hits : \A j \in hits : k <= j
    BY <1>2, <1>3
  <2>2. PICK k : k = CHOOSE h \in hits : \A j \in hits : h <= j
    OBVIOUS
  <2>3. k \in hits /\ \A j \in hits : k <= j
    BY <2>1, <2>2, Zenon
  <2>4. k = i
    BY <1>2, <1>3, <2>3
  <2> QED
    BY <2>2, <2>4
<1>5. list # <<>>
  BY <1>1
<1> QED
  BY <1>2, <1>4, <1>5 DEF Named, hits

\* Resolvers none of which finds anything name nobody.
LEMMA NoHitNames ==
  ASSUME NEW carries, NEW names, NEW list \in Seq(GateNames), list # <<>>,
         \A j \in 1 .. Len(list) : Misses(carries, names, list[j])
  PROVE  Named(carries, list, names) = "none"
<1>1. Hits(carries, list, names) = {}
  BY DEF Hits, Misses
<1> QED
  BY <1>1 DEF Named

LEMMA WalkKeeps ==
  ASSUME GateInv, WalkChain
  PROVE  GateInv'
<1>1. RestUnchanged /\ gate.step = "walk" /\ AtGates
  BY DEF WalkChain, AtGates
<1>2. gateFaults' \in Nat /\ gateFaults <= gateFaults' /\ (gateFaults' # gateFaults => gateFaults' > 0)
  BY DEF WalkChain, GateInv, ThingTypes
<1>3. gate.found = "none" /\ "none" \in Carried /\ gate.rest \in Seq(GateNames) /\ gate.carries \in [GateNames -> Carried]
  BY <1>1 DEF GateInv, GateTypes, ReadWasSo, Carried
<1>4. PICK s, route, carries, bypass, r, f, seen, o, facts, shuffled :
        gate = [step |-> s, route |-> route, carries |-> carries, bypass |-> bypass, rest |-> r,
                found |-> f, seen |-> seen, outcome |-> o, facts |-> facts, shuffled |-> shuffled]
  BY DEF GateInv, GateTypes
\* The resolver that is awaited throws.
<1>5. CASE gateFaults' # gateFaults
  <2>1. gate' = [gate EXCEPT !.step = "look", !.found = "throws", !.rest = gate.rest]
    <3>1. gate' = [gate EXCEPT !.step = "look", !.found = "throws"]
      BY <1>5 DEF WalkChain
    <3> QED
      BY <1>4, <3>1
  <2> QED
    BY <1>1, <1>2, <1>3, <1>5, <2>1, WalkStepKeeps
\* The chain has ended.
<1>6. CASE gateFaults' = gateFaults /\ gate.rest = <<>>
  <2>1. gate' = [gate EXCEPT !.step = "look", !.found = "none", !.rest = gate.rest]
    <3>1. gate' = [gate EXCEPT !.step = "look"]
      BY <1>6 DEF WalkChain
    <3> QED
      BY <1>3, <1>4, <3>1
  <2>2. ASSUME gate.shuffled <= 1 PROVE <<"names", "none">> \in gate.facts \/ known = {}
    <3>1. PICK list \in Seq(GateNames), count \in Nat :
            /\ IsAlong(gate.rest, list, count)
            /\ \A i \in 1 .. count : Misses(gate.carries, known, list[i])
            /\ known = {} \/ <<"names", Named(gate.carries, list, known)>> \in gate.facts
      BY <1>1, <2>2 DEF GateInv, WalkIsAlong
    <3>2. count = Len(list) /\ list # <<>>
      <4>1. Len(gate.rest) = 0 /\ Len(list) \in Nat
        BY <1>6
      <4> QED
        BY <3>1, <4>1 DEF IsAlong
    <3>3. Named(gate.carries, list, known) = "none"
      BY <3>1, <3>2, NoHitNames
    <3> QED
      BY <3>1, <3>3
  <2> QED
    BY <1>1, <1>2, <1>3, <2>1, <2>2, WalkStepKeeps
<1>7. CASE gateFaults' = gateFaults /\ gate.rest # <<>>
  <2> DEFINE name == Head(gate.rest)
  <2>0. gate' = IF Misses(gate.carries, known, name) THEN [gate EXCEPT !.rest = Tail(@)]
                ELSE [gate EXCEPT !.step = "look", !.found = gate.carries[name]]
    <3>1. gateFaults \in Nat
      BY DEF GateInv, ThingTypes
    <3> QED
      BY <1>7, <3>1 DEF WalkChain, Misses
  <2>1. Len(gate.rest) \in Nat /\ Len(gate.rest) >= 1 /\ name = gate.rest[1] /\ name \in GateNames
    BY <1>3, <1>7, EmptySeq, LenProperties, HeadTailProperties
  <2>2. ASSUME gate.shuffled <= 1
        PROVE  \E list \in Seq(GateNames), count \in Nat :
                 /\ IsAlong(gate.rest, list, count)
                 /\ \A i \in 1 .. count : Misses(gate.carries, known, list[i])
                 /\ known = {} \/ <<"names", Named(gate.carries, list, known)>> \in gate.facts
                 /\ gate.shuffled = 0 => list = chain
    BY <1>1, <2>2 DEF GateInv, WalkIsAlong
  <2>3. ASSUME NEW list \in Seq(GateNames), NEW count \in Nat, IsAlong(gate.rest, list, count)
        PROVE  name = list[count + 1] /\ count + 1 \in 1 .. Len(list)
    <3>1. Len(list) \in Nat
      OBVIOUS
    <3>2. 1 \in 1 .. Len(gate.rest)
      BY <2>1
    <3> QED
      BY <2>1, <2>3, <3>1, <3>2 DEF IsAlong
  \* The resolver finds something.
  <2>4. CASE ~Misses(gate.carries, known, name)
    <3>1. PICK hit : hit = gate.carries[name]
      OBVIOUS
    <3>2. gate' = [gate EXCEPT !.step = "look", !.found = hit, !.rest = gate.rest]
      <4>1. gate' = [gate EXCEPT !.step = "look", !.found = hit]
        BY <2>0, <2>4, <3>1
      <4> QED
        BY <1>4, <4>1
    <3>3. hit \in Carried /\ hit # "throws"
      BY <1>3, <2>1, <3>1 DEF Carried
    <3>4. ASSUME gate.shuffled <= 1 PROVE <<"names", hit>> \in gate.facts
      <4>1. PICK list \in Seq(GateNames), count \in Nat :
              /\ IsAlong(gate.rest, list, count)
              /\ \A i \in 1 .. count : Misses(gate.carries, known, list[i])
              /\ known = {} \/ <<"names", Named(gate.carries, list, known)>> \in gate.facts
        BY <2>2, <3>4
      <4>2. name = list[count + 1] /\ count + 1 \in 1 .. Len(list) /\ known # {}
        BY <2>3, <2>4, <4>1 DEF Misses
      <4>3. count + 1 \in Nat /\ (count + 1) - 1 = count
        OBVIOUS
      <4>4. Named(gate.carries, list, known) = hit
        BY <2>4, <3>1, <4>1, <4>2, <4>3, FirstHitNames
      <4> QED
        BY <4>1, <4>2, <4>4
    <3> QED
      BY <1>1, <1>2, <1>3, <3>2, <3>3, <3>4, WalkStepKeeps
  \* It finds nothing, or is gone.
  <2>5. CASE Misses(gate.carries, known, name)
    <3> DEFINE tail == Tail(gate.rest)
    <3>1. gate' = [gate EXCEPT !.step = "walk", !.found = "none", !.rest = tail]
      <4>1. gate' = [gate EXCEPT !.rest = tail]
        BY <2>0, <2>5
      <4> HIDE DEF tail
      <4> QED
        BY <1>1, <1>3, <1>4, <4>1
    <3>2. /\ tail \in Seq(GateNames) /\ Len(tail) = Len(gate.rest) - 1
          /\ \A i \in 1 .. Len(tail) : tail[i] = gate.rest[i + 1]
      BY <1>3, <1>7, HeadTailProperties
    <3> HIDE DEF tail
    <3>3. KeepsItsPast /\ gate'.rest = tail /\ gate'.step = "walk"
      <4>1. PICK step, found : step = "walk" /\ found = "none"
        OBVIOUS
      <4>2. gate' = [gate EXCEPT !.step = step, !.found = found, !.rest = tail]
        BY <3>1, <4>1
      <4>3. GateInv /\ found \in Carried \cup {"throws"} /\ tail \in Seq(GateNames)
        BY <1>3, <3>2, <4>1 DEF Carried
      <4>4. KeepsItsPast /\ gate'.step = step /\ gate'.rest = tail
        BY <4>2, <4>3, WalkSets
      <4> QED
        BY <4>1, <4>4
    <3>4. UNCHANGED <<chain, known>>
      BY <1>1 DEF RestUnchanged, registryVars
    <3>5. WalkIsAlong'
      <4> SUFFICES ASSUME gate'.shuffled <= 1
                   PROVE \E list \in Seq(GateNames), count \in Nat :
                     /\ IsAlong(gate'.rest, list, count)
                     /\ \A i \in 1 .. count : Misses(gate'.carries, known', list[i])
                     /\ known' = {} \/ <<"names", Named(gate'.carries, list, known')>> \in gate'.facts
                     /\ gate'.shuffled = 0 => list = chain'
        BY DEF WalkIsAlong, IsAlong
      <4>1. PICK list \in Seq(GateNames), count \in Nat :
              /\ IsAlong(gate.rest, list, count)
              /\ \A i \in 1 .. count : Misses(gate.carries, known, list[i])
              /\ known = {} \/ <<"names", Named(gate.carries, list, known)>> \in gate.facts
              /\ gate.shuffled = 0 => list = chain
        BY <2>2, <3>3 DEF KeepsItsPast
      <4>2. name = list[count + 1] /\ count + 1 \in 1 .. Len(list)
        BY <2>3, <4>1
      <4>3. ASSUME NEW i \in 1 .. (count + 1) PROVE Misses(gate.carries, known, list[i])
        <5>1. CASE i = count + 1
          BY <2>5, <4>2, <5>1
        <5>2. CASE i # count + 1
          <6>1. i \in 1 .. count
            BY <5>2
          <6> QED
            BY <4>1, <6>1
        <5> QED
          BY <5>1, <5>2
      <4>4. IsAlong(gate'.rest, list, count + 1)
        <5>1. Len(list) \in Nat /\ Len(tail) \in Nat
          BY <3>2
        <5>2. list # <<>> /\ count + 1 <= Len(list) /\ Len(tail) = Len(list) - (count + 1)
          BY <3>2, <4>1, <4>2, <5>1 DEF IsAlong
        <5>3. ASSUME NEW i \in 1 .. Len(tail) PROVE tail[i] = list[(count + 1) + i]
          <6>1. i + 1 \in 1 .. Len(gate.rest) /\ tail[i] = gate.rest[i + 1]
            BY <2>1, <3>2, <5>1
          <6>2. gate.rest[i + 1] = list[count + (i + 1)]
            BY <4>1, <6>1 DEF IsAlong
          <6>3. count + (i + 1) = (count + 1) + i
            BY <5>1
          <6> QED
            BY <6>1, <6>2, <6>3
        <5> QED
          BY <3>3, <5>2, <5>3 DEF IsAlong
      <4>5. count + 1 \in Nat
        OBVIOUS
      <4> WITNESS list \in Seq(GateNames)
      <4> WITNESS count + 1 \in Nat
      <4> QED
        BY <3>3, <3>4, <4>1, <4>3, <4>4 DEF KeepsItsPast
    <3> QED
      BY <1>1, <1>2, <1>3, <3>1, <3>2, <3>5, WalkStepKeeps
  <2> QED
    BY <2>4, <2>5
<1> QED
  BY <1>5, <1>6, <1>7

\* What stands before a route (tenant_guard_middleware, universal_middleware, central_only_
\* middleware, the resolver chain and maintenance mode): whom a request is taken for, that
\* it is served or refused, and what is announced of maintenance were all so at a moment of
\* the request, for any resolvers, chains, toggles, changes and faults.
THEOREM GatesStayTrue == GateSpec => []GatesAreTrue
<1>1. GateInit => GateInv
  <2> SUFFICES ASSUME GateInit PROVE GateInv
    OBVIOUS
  <2>1. /\ gate.step = "idle" /\ gate.route = "tenant" /\ gate.carries = [n \in GateNames |-> "none"]
        /\ gate.bypass = FALSE /\ gate.rest = <<>> /\ gate.found = "none" /\ gate.outcome = "none"
        /\ gate.shuffled = 0
        /\ gate = [step |-> gate.step, route |-> gate.route, carries |-> gate.carries,
             bypass |-> gate.bypass, rest |-> gate.rest, found |-> gate.found, seen |-> gate.seen,
             outcome |-> gate.outcome, facts |-> gate.facts, shuffled |-> gate.shuffled]
    BY DEF GateInit, NoRequest
  <2>2. GateTypes
    <3>1. gate.carries \in [GateNames -> Carried]
      BY <2>1 DEF Carried
    <3>2. gate.bypass \in BOOLEAN
      BY <2>1, Zenon
    <3>3. gate.rest \in Seq(GateNames) /\ gate.found \in Carried /\ gate.route \in Routes /\ gate.shuffled \in Nat
      BY <2>1, EmptySeq DEF Carried, Routes
    <3> QED
      BY <2>1, <3>1, <3>2, <3>3 DEF GateTypes
  <2>3. ThingTypes
    BY GateAssumption DEF GateInit, ThingTypes, Standings
  <2>4. NowIsWitnessed /\ WalkIsAlong /\ ReadWasSo /\ WalkIsTrue /\ OnlyTheReadyAreServed /\ RefusalsAreTrue
    BY <2>1 DEF NowIsWitnessed, AtGates, WalkIsAlong, ReadWasSo, WalkIsTrue, OnlyTheReadyAreServed, RefusalsAreTrue
  <2>5. TogglesInTurn
    <3>1. toggler = [w \in Togglers |-> [step |-> "idle", enters |-> FALSE]] /\ announced = <<maintained, notice>>
      BY DEF GateInit
    <3>2. muted \in BOOLEAN
      BY Zenon DEF GateInit
    <3> QED
      BY <3>1, <3>2 DEF TogglesInTurn, Busy
  <2> QED
    BY <2>2, <2>3, <2>4, <2>5 DEF GateInv
<1>2. GateInv /\ [GateNext]_gateVars => GateInv'
  <2> SUFFICES ASSUME GateInv, [GateNext]_gateVars PROVE GateInv'
    OBVIOUS
  <2>1. CASE UNCHANGED gateVars
    <3>1. UNCHANGED <<standing, maintained, notice, circuit, registryVars, gate, toggler, announced, muted, gateFaults>>
      BY <2>1 DEF gateVars, rowVars
    <3>2. gateFaults' \in Nat /\ gateFaults <= gateFaults' /\ TogglesInTurn'
      BY <3>1 DEF GateInv, ThingTypes, TogglesInTurn, Busy
    <3> QED
      BY <3>1, <3>2, GateStays DEF GateInv
  <2>2. CASE ChangeStanding \/ TripCircuit \/ ChangeRegistry
    BY <2>2, StandingKeeps, RegistryKeeps
  <2>3. ASSUME NEW w \in Togglers, StartToggle(w) \/ SaveToggle(w) \/ AnnounceToggle(w) PROVE GateInv'
    BY <2>3, StartKeeps, SaveKeeps, AnnounceKeeps
  <2>4. CASE ArriveAtGate \/ BeginWalk \/ WalkChain
    BY <2>4, ArriveKeeps, BeginKeeps, WalkKeeps
  <2>5. CASE PassIgnored \/ PassCentral \/ LookUp \/ TryResolve \/ ConnectAtGate \/ Decide
    BY <2>5, PassingKeeps, LookUpKeeps, TryKeeps, ConnectKeeps, DecideKeeps
  <2> QED
    BY <2>1, <2>2, <2>3, <2>4, <2>5 DEF GateNext
<1>3. GateInv => GatesAreTrue
  <2> SUFFICES ASSUME GateInv PROVE MaintenanceIsAnnounced
    BY DEF GateInv, GatesAreTrue
  <2> QED
    BY DEF GateInv, TogglesInTurn, MaintenanceIsAnnounced, Busy
<1> QED
  BY <1>1, <1>2, <1>3, PTL DEF GateSpec

-----------------------------------------------------------------------------
(***************************************************************************)
(* Proofs about Provider, for any modules, lookups and number of           *)
(* applications: what outlives an application, and what one wires.         *)
(***************************************************************************)

(* Types.                                                                  *)

Steps == {"registered", "configured", "driven", "resolving", "booted", "started", "down", "failed"}

ConfigType == [complete : BOOLEAN, strategy : {"header", "custom"},
               chain : {{}, {"header", "custom"}}, secret : BOOLEAN]

AppType == [number : Nat, step : Steps, config : ConfigType,
            why : {"none", "shape", "strategy", "chain", "secret"}]

WiredType == [drivers : SUBSET Drivers, active : Drivers \cup {"none"},
              resolvers : SUBSET {"header", "subdomain", "custom"},
              chain : SUBSET {"header", "subdomain", "custom"}]

LookupType == [step : {"idle", "making", "done"}, of : Modules \cup {"health", "none"},
               began : Nat, made : Nat, got : Nat]

ProviderTypes ==
  /\ booting \in AppType
  /\ wired \in WiredType
  /\ modules \in [Modules -> Nat]
  /\ seeded \in [flag : BOOLEAN, apps : SUBSET Nat]
  /\ lookup \in [Lookups -> LookupType]
  /\ strayed \subseteq Modules
  /\ preferred \in BOOLEAN

\* The actions of boot, which leave what modules have cached and the lookups alone.
BootStep == AssertConfigShape \/ WireDriver \/ SeedResolvers \/ FinishBoot \/ StartApp \/ RegisterOwn

LEMMA BootFrame == BootStep => UNCHANGED <<modules, seeded, lookup, strayed>>
BY DEF BootStep, AssertConfigShape, WireDriver, SeedResolvers, FinishBoot, StartApp, RegisterOwn, LookupsUnchanged

\* The actions of lookups, probes and shutdown leave the wiring alone.
LookupStep(l) == StartLookup(l) \/ StoreLookup(l) \/ StartProbe(l) \/ SeedChecks(l)

LEMMA LookupFrame == ASSUME NEW l, LookupStep(l) PROVE UNCHANGED <<booting, wired, preferred>>
BY DEF LookupStep, StartLookup, StoreLookup, StartProbe, SeedChecks, AppUnchanged

LEMMA NextSplit ==
  ASSUME [ProviderNext]_providerVars
  PROVE  BootStep \/ (\E l \in Lookups : LookupStep(l)) \/ Shutdown \/ BootAgain \/ UNCHANGED providerVars
BY DEF ProviderNext, BootStep, LookupStep

LEMMA ConfigsAre == \A c \in Configs : c \in ConfigType
BY DEF Configs, ConfigType

\* A new application begins registered, with nothing wired.
LEMMA NewAppIs ==
  ASSUME NEW n \in Nat, NEW c \in Configs
  PROVE  /\ NewApp(n, c) \in AppType
         /\ NewApp(n, c).number = n /\ NewApp(n, c).step = "registered"
         /\ NewApp(n, c).why = "none"
BY ConfigsAre DEF NewApp, Steps, AppType

LEMMA RegisteredIs ==
  ASSUME ProviderTypes, NEW name \in Drivers, NEW activate \in BOOLEAN
  PROVE  Registered(name, activate) \in WiredType
<1>1. wired.drivers \cup {name} \in SUBSET Drivers
  BY DEF ProviderTypes, WiredType
<1>2. (IF activate \/ wired.active = "none" THEN name ELSE wired.active) \in Drivers \cup {"none"}
  BY DEF ProviderTypes, WiredType
<1> QED
  BY <1>1, <1>2 DEF ProviderTypes, WiredType, Registered

LEMMA TypesInit == ProviderInit => ProviderTypes
<1> SUFFICES ASSUME ProviderInit PROVE ProviderTypes
  OBVIOUS
<1>1. booting \in AppType
  BY NewAppIs DEF ProviderInit
<1> QED
  BY <1>1 DEF ProviderInit, ProviderTypes, NothingWired, NoLookup, WiredType, LookupType

LEMMA TypesNext == ProviderTypes /\ [ProviderNext]_providerVars => ProviderTypes'
<1> SUFFICES ASSUME ProviderTypes, [ProviderNext]_providerVars PROVE ProviderTypes'
  OBVIOUS
<1>1. CASE BootStep
  <2>0. UNCHANGED <<modules, seeded, lookup, strayed>>
    BY <1>1, BootFrame
  <2>1. CASE AssertConfigShape \/ FinishBoot \/ StartApp
    <3>1. booting' \in AppType
      BY <2>1 DEF ProviderTypes, AssertConfigShape, FinishBoot, StartApp, GoOn, GiveUpBoot, Steps, AppType
    <3> QED
      BY <2>0, <2>1, <3>1 DEF ProviderTypes, AssertConfigShape, FinishBoot, StartApp
  <2>2. CASE WireDriver
    <3>1. booting' \in AppType
      BY <2>2 DEF ProviderTypes, WireDriver, GoOn, Steps, AppType
    <3>2. wired' \in WiredType
      <4>1. "configured" \in Drivers
        BY DEF Drivers
      <4> QED
        BY <2>2, <4>1, RegisteredIs DEF ProviderTypes, WireDriver
    <3> QED
      BY <2>0, <2>2, <3>1, <3>2 DEF ProviderTypes, WireDriver
  <2>3. CASE SeedResolvers
    <3>1. booting.config.chain \cup {booting.config.strategy} \subseteq {"header", "subdomain", "custom"}
      BY DEF ProviderTypes, AppType, ConfigType
    <3>2. booting' \in AppType
      BY <2>3 DEF ProviderTypes, SeedResolvers, GoOn, GiveUpBoot, Steps, AppType
    <3>3. wired' \in WiredType
      <4> DEFINE all == wired.resolvers \cup BuiltIn
                 links == IF booting.config.chain = {} THEN {booting.config.strategy} ELSE booting.config.chain
      <4>1. all \in SUBSET {"header", "subdomain", "custom"} /\ links \in SUBSET {"header", "subdomain", "custom"}
        BY <3>1 DEF ProviderTypes, WiredType, BuiltIn
      <4>2. /\ [wired EXCEPT !.resolvers = all, !.chain = links] \in WiredType
            /\ [wired EXCEPT !.resolvers = all] \in WiredType
        <5> HIDE DEF all, links
        <5> QED
          BY <4>1 DEF ProviderTypes, WiredType
      <4> QED
        BY <2>3, <4>2 DEF SeedResolvers
    <3> QED
      BY <2>0, <2>3, <3>2, <3>3 DEF ProviderTypes, SeedResolvers
  <2>4. CASE RegisterOwn
    <3>1. wired' \in WiredType
      <4>1. CASE wired' = [wired EXCEPT !.resolvers = @ \cup {"custom"}]
        BY <4>1 DEF ProviderTypes, WiredType
      <4>2. ASSUME NEW name \in Drivers, NEW activate \in BOOLEAN, wired' = Registered(name, activate)
            PROVE  wired' \in WiredType
        BY <4>2, RegisteredIs
      <4> QED
        BY <2>4, <4>1, <4>2 DEF RegisterOwn
    <3> QED
      BY <2>0, <2>4, <3>1 DEF ProviderTypes, RegisterOwn
  <2> QED
    BY <1>1, <2>1, <2>2, <2>3, <2>4 DEF BootStep
<1>2. ASSUME NEW l \in Lookups, LookupStep(l) PROVE ProviderTypes'
  <2>1. UNCHANGED <<booting, wired, preferred>> /\ booting.number \in Nat
    BY <1>2, LookupFrame DEF ProviderTypes, AppType
  <2>2. lookup[l] \in LookupType
    BY DEF ProviderTypes
  <2>3. CASE StartLookup(l)
    <3>1. PICK m \in Modules : lookup' = [lookup EXCEPT ![l] =
            [step |-> IF modules[m] = 0 THEN "making" ELSE "done", of |-> m, began |-> booting.number,
             made |-> IF modules[m] = 0 THEN booting.number ELSE 0, got |-> modules[m]]]
      BY <2>3 DEF StartLookup
    <3>2. lookup' \in [Lookups -> LookupType]
      BY <2>1, <3>1 DEF ProviderTypes, LookupType
    <3> QED
      BY <2>1, <2>3, <3>2 DEF ProviderTypes, StartLookup
  <2>4. CASE StoreLookup(l)
    <3>1. lookup[l].made \in Nat /\ lookup[l].of \in Modules
      BY <2>2, <2>4 DEF LookupType, StoreLookup
    <3>2. [lookup[l] EXCEPT !.step = "done", !.got = lookup[l].made] \in LookupType
      BY <2>2, <3>1 DEF LookupType
    <3>3. lookup' \in [Lookups -> LookupType]
      BY <2>4, <3>2 DEF ProviderTypes, StoreLookup
    <3> QED
      BY <2>1, <2>4, <3>1, <3>3 DEF ProviderTypes, StoreLookup
  <2>5. CASE StartProbe(l)
    <3>1. lookup' \in [Lookups -> LookupType]
      BY <2>1, <2>5 DEF ProviderTypes, LookupType, StartProbe, NoLookup
    <3> QED
      BY <2>1, <2>5, <3>1 DEF ProviderTypes, StartProbe
  <2>6. CASE SeedChecks(l)
    <3>1. lookup[l].made \in Nat
      BY <2>2 DEF LookupType
    <3>2. [lookup[l] EXCEPT !.step = "done", !.got = lookup[l].made] \in LookupType
      BY <2>2, <3>1 DEF LookupType
    <3>3. lookup' \in [Lookups -> LookupType]
      BY <2>6, <3>2 DEF ProviderTypes, SeedChecks
    <3>4. seeded' \in [flag : BOOLEAN, apps : SUBSET Nat]
      BY <2>6, <3>1 DEF ProviderTypes, SeedChecks
    <3> QED
      BY <2>1, <2>6, <3>3, <3>4 DEF ProviderTypes, SeedChecks
  <2> QED
    BY <1>2, <2>3, <2>4, <2>5, <2>6 DEF LookupStep
<1>3. CASE Shutdown
  BY <1>3 DEF ProviderTypes, Shutdown, GoOn, Steps, AppType
<1>4. CASE BootAgain
  <2>1. booting.number + 1 \in Nat
    BY DEF ProviderTypes, AppType
  <2>2. booting' \in AppType
    BY <1>4, <2>1, NewAppIs DEF BootAgain
  <2> QED
    BY <1>4, <2>2 DEF ProviderTypes, BootAgain, NothingWired, WiredType
<1>5. CASE UNCHANGED providerVars
  BY <1>5 DEF ProviderTypes, providerVars
<1> QED
  BY <1>1, <1>2, <1>3, <1>4, <1>5, NextSplit

-----------------------------------------------------------------------------
(* What modules have cached.                                               *)

\* Between shutdown and the next start nothing that shutdown resets is cached, unless a
\* lookup crossed it; from the boot on nothing else is, unless it strayed; and lookups
\* that began in an application come after its start.
CachedInv ==
  /\ ~AtBoot("started") => \A m \in (Modules \cap Resettable) \ strayed : modules[m] = 0
  /\ booting.step \notin {"started", "down"} =>
       /\ \A m \in Modules \ strayed : modules[m] = 0
       /\ \A l \in Lookups : lookup[l].began < booting.number
  /\ \A l \in Lookups : lookup[l].began <= booting.number
  /\ LookupsAreCurrent

LEMMA CachedInit == ProviderInit => CachedInv
BY NewAppIs DEF ProviderInit, CachedInv, LookupsAreCurrent, AtBoot, NoLookup

LEMMA CachedNext ==
  ProviderTypes /\ CachedInv /\ [ProviderNext]_providerVars => CachedInv'
<1> SUFFICES ASSUME ProviderTypes, CachedInv, [ProviderNext]_providerVars PROVE CachedInv'
  OBVIOUS
<1>1. CASE BootStep
  <2>1. /\ booting.step \notin {"started", "down"}
        /\ booting'.number = booting.number /\ booting'.step # "down"
    BY <1>1 DEF BootStep, AssertConfigShape, WireDriver, SeedResolvers, FinishBoot, StartApp, RegisterOwn,
                AtBoot, GoOn, GiveUpBoot, ProviderTypes, AppType, LookupType
  <2> QED
    BY <1>1, <2>1, BootFrame DEF CachedInv, LookupsAreCurrent, AtBoot, ProviderTypes, AppType, LookupType
<1>2. ASSUME NEW l \in Lookups, LookupStep(l) PROVE CachedInv'
  <2>1. UNCHANGED <<booting, wired, preferred>>
    BY <1>2, LookupFrame
  <2>2. CASE StartLookup(l)
    BY <2>1, <2>2 DEF CachedInv, LookupsAreCurrent, AtBoot, ProviderTypes, AppType, LookupType, StartLookup
  <2>3. CASE StoreLookup(l)
    BY <2>1, <2>3 DEF CachedInv, LookupsAreCurrent, AtBoot, ProviderTypes, AppType, LookupType, StoreLookup
  <2>4. CASE StartProbe(l)
    BY <2>1, <2>4 DEF CachedInv, LookupsAreCurrent, AtBoot, ProviderTypes, AppType, LookupType, StartProbe, NoLookup
  <2>5. CASE SeedChecks(l)
    BY <2>1, <2>5, ProviderAssumption DEF CachedInv, LookupsAreCurrent, AtBoot, ProviderTypes, AppType, LookupType, SeedChecks
  <2> QED
    BY <1>2, <2>2, <2>3, <2>4, <2>5 DEF LookupStep
<1>3. CASE Shutdown
  BY <1>3 DEF CachedInv, LookupsAreCurrent, AtBoot, ProviderTypes, AppType, LookupType, Shutdown, GoOn
<1>4. CASE BootAgain
  <2>1. /\ booting'.step = "registered" /\ booting'.number = booting.number + 1
        /\ booting.number \in Nat
    BY <1>4, NewAppIs DEF BootAgain, ProviderTypes, AppType, LookupType
  <2> QED
    BY <1>4, <2>1 DEF CachedInv, LookupsAreCurrent, AtBoot, ProviderTypes, AppType, LookupType, BootAgain
<1>5. CASE UNCHANGED providerVars
  BY <1>5 DEF CachedInv, LookupsAreCurrent, AtBoot, providerVars
<1> QED
  BY <1>1, <1>2, <1>3, <1>4, <1>5, NextSplit

-----------------------------------------------------------------------------
(* Probes, and what an application wires.                                  *)

\* A probe is answered once some application's checks are there.
SeededInv ==
  /\ seeded.flag => seeded.apps # {}
  /\ \A l \in Lookups : lookup[l].step = "done" /\ lookup[l].of = "health" => seeded.apps # {}

LEMMA SeededInit == ProviderInit => SeededInv
BY DEF ProviderInit, SeededInv, NoLookup

LEMMA SeededNext == ProviderTypes /\ SeededInv /\ [ProviderNext]_providerVars => SeededInv'
<1> SUFFICES ASSUME ProviderTypes, SeededInv, [ProviderNext]_providerVars PROVE SeededInv'
  OBVIOUS
<1>1. CASE BootStep
  BY <1>1, BootFrame DEF SeededInv
<1>2. ASSUME NEW l \in Lookups, LookupStep(l) PROVE SeededInv'
  <2>1. CASE StartLookup(l)
    BY <2>1, ProviderAssumption DEF SeededInv, ProviderTypes, StartLookup
  <2>2. CASE StoreLookup(l)
    BY <2>2, ProviderAssumption DEF SeededInv, ProviderTypes, LookupType, StoreLookup
  <2>3. CASE StartProbe(l)
    BY <2>3 DEF SeededInv, ProviderTypes, StartProbe, NoLookup
  <2>4. CASE SeedChecks(l)
    BY <2>4 DEF SeededInv, ProviderTypes, LookupType, SeedChecks
  <2> QED
    BY <1>2, <2>1, <2>2, <2>3, <2>4 DEF LookupStep
<1>3. CASE Shutdown \/ BootAgain \/ UNCHANGED providerVars
  BY <1>3 DEF SeededInv, Shutdown, BootAgain, providerVars
<1> QED
  BY <1>1, <1>2, <1>3, NextSplit

\* What each step of boot has made sure of.
WiringInv ==
  /\ booting.step \in {"registered", "configured"} /\ "configured" \in wired.drivers => preferred
  /\ booting.step \in {"driven", "resolving", "booted", "started"} =>
       /\ preferred \/ wired.active = "configured"
       /\ "configured" \in wired.drivers
  /\ booting.step \in {"configured", "driven", "resolving", "booted", "started"} =>
       booting.config.complete /\ booting.config.strategy \in BuiltIn
  /\ booting.step \in {"resolving", "booted", "started"} =>
       wired.chain \subseteq wired.resolvers /\ wired.chain # {}
  /\ booting.step \in {"booted", "started"} => booting.config.secret
  /\ booting.step # "failed" => booting.why = "none"
  /\ AtBoot("failed") /\ booting.why = "chain" => booting.config.chain \ wired.resolvers # {}

LEMMA WiringInit == ProviderInit => WiringInv
BY NewAppIs DEF ProviderInit, WiringInv, AtBoot, NothingWired

LEMMA WiringNext == ProviderTypes /\ WiringInv /\ [ProviderNext]_providerVars => WiringInv'
<1> SUFFICES ASSUME ProviderTypes, WiringInv, [ProviderNext]_providerVars PROVE WiringInv'
  OBVIOUS
<1>0. booting \in AppType /\ wired \in WiredType /\ preferred \in BOOLEAN
  BY DEF ProviderTypes
<1>1. CASE AssertConfigShape
  BY <1>0, <1>1 DEF WiringInv, AssertConfigShape, AtBoot, GoOn, GiveUpBoot, AppType
<1>2. CASE WireDriver
  BY <1>0, <1>2 DEF WiringInv, WireDriver, AtBoot, GoOn, Registered, AppType, WiredType
<1>3. CASE SeedResolvers
  <2> DEFINE all == wired.resolvers \cup BuiltIn
             links == IF booting.config.chain = {} THEN {booting.config.strategy} ELSE booting.config.chain
  <2>1. /\ booting.step = "driven" /\ booting.config.strategy \in BuiltIn
        /\ preferred \/ wired.active = "configured"
        /\ "configured" \in wired.drivers /\ booting.config.complete /\ UNCHANGED preferred
    BY <1>3 DEF WiringInv, SeedResolvers, AtBoot
  <2>2. links # {} /\ (~(links \subseteq all) => booting.config.chain \ all # {})
    BY <2>1
  <2>3. CASE links \subseteq all
    <3>1. /\ wired' = [wired EXCEPT !.resolvers = all, !.chain = links]
          /\ booting' = [booting EXCEPT !.step = "resolving"]
      BY <1>3, <2>3 DEF SeedResolvers, GoOn
    <3>2. /\ wired'.resolvers = all /\ wired'.chain = links
          /\ wired'.active = wired.active /\ wired'.drivers = wired.drivers
      BY <1>0, <3>1 DEF WiredType
    <3>3. booting'.step = "resolving" /\ booting'.config = booting.config /\ booting'.why = booting.why
      BY <1>0, <3>1 DEF AppType
    <3> HIDE DEF all, links
    <3> QED
      BY <2>1, <2>2, <2>3, <3>2, <3>3 DEF WiringInv, AtBoot
  <2>4. CASE ~(links \subseteq all)
    <3>1. /\ wired' = [wired EXCEPT !.resolvers = all]
          /\ booting' = [booting EXCEPT !.step = "failed", !.why = "chain"]
      BY <1>3, <2>4 DEF SeedResolvers, GiveUpBoot
    <3>2. wired'.resolvers = all
      BY <1>0, <3>1 DEF WiredType
    <3>3. booting'.step = "failed" /\ booting'.config = booting.config
      BY <1>0, <3>1 DEF AppType
    <3> HIDE DEF all, links
    <3> QED
      BY <2>2, <2>4, <3>2, <3>3 DEF WiringInv, AtBoot
  <2> QED
    BY <2>3, <2>4
<1>4. CASE FinishBoot \/ StartApp
  <2>1. booting.step \in {"resolving", "booted"} /\ UNCHANGED <<wired, preferred>>
    BY <1>4 DEF FinishBoot, StartApp, AtBoot
  <2>2. CASE booting' = [booting EXCEPT !.step = "failed", !.why = "secret"]
    <3>1. booting'.step = "failed" /\ booting'.why = "secret"
      BY <1>0, <2>2 DEF AppType
    <3> QED
      BY <3>1 DEF WiringInv, AtBoot
  <2>3. ASSUME NEW step \in {"booted", "started"}, booting' = [booting EXCEPT !.step = step],
               booting.config.secret
        PROVE  WiringInv'
    <3>1. booting'.step = step /\ booting'.config = booting.config /\ booting'.why = booting.why
      BY <1>0, <2>3 DEF AppType
    <3> QED
      BY <2>1, <2>3, <3>1 DEF WiringInv, AtBoot
  <2> QED
    BY <1>4, <2>2, <2>3 DEF WiringInv, FinishBoot, StartApp, AtBoot, GoOn, GiveUpBoot
<1>5. CASE RegisterOwn
  <2>1. booting.step \in {"registered", "booted"} /\ UNCHANGED booting
    BY <1>5 DEF RegisterOwn
  <2>2. CASE wired' = [wired EXCEPT !.resolvers = @ \cup {"custom"}] /\ UNCHANGED preferred
    BY <1>0, <2>1, <2>2 DEF WiringInv, AtBoot, WiredType
  <2>3. ASSUME NEW name \in Drivers \ wired.drivers, NEW activate \in BOOLEAN,
               wired' = Registered(name, activate),
               preferred' = (preferred \/ name = "configured" \/ activate)
        PROVE  WiringInv'
    <3>1. /\ wired'.drivers = wired.drivers \cup {name}
          /\ wired'.active = (IF activate \/ wired.active = "none" THEN name ELSE wired.active)
          /\ wired'.resolvers = wired.resolvers /\ wired'.chain = wired.chain
      BY <1>0, <2>3 DEF Registered, WiredType
    <3> QED
      BY <1>0, <2>1, <2>3, <3>1 DEF WiringInv, AtBoot
  <2> QED
    BY <1>5, <2>2, <2>3 DEF RegisterOwn
<1>6. ASSUME NEW l \in Lookups, LookupStep(l) PROVE WiringInv'
  BY <1>6, LookupFrame DEF WiringInv, AtBoot
<1>7. CASE Shutdown
  BY <1>0, <1>7 DEF WiringInv, Shutdown, GoOn, AtBoot, AppType
<1>8. CASE BootAgain
  <2>1. booting.number + 1 \in Nat
    BY <1>0 DEF AppType
  <2>2. booting'.step = "registered" /\ booting'.why = "none"
    BY <1>8, <2>1, NewAppIs DEF BootAgain
  <2> QED
    BY <1>8, <2>2 DEF WiringInv, BootAgain, NothingWired, AtBoot
<1>9. CASE UNCHANGED providerVars
  BY <1>9 DEF WiringInv, providerVars, AtBoot
<1> QED
  BY <1>1, <1>2, <1>3, <1>4, <1>5, <1>6, <1>7, <1>8, <1>9, NextSplit DEF BootStep

\* AppsAreTheirOwn, for any modules with caches, any number of lookups and applications:
\* what crosses from one application to the next is what strayed, and nothing else.
THEOREM AppsStayApart == ProviderSpec => []AppsAreTheirOwn
<1>1. ProviderTypes /\ CachedInv /\ SeededInv /\ WiringInv => AppsAreTheirOwn
  BY DEF CachedInv, SeededInv, WiringInv, AppsAreTheirOwn, ProbesAreSeeded, WiringIsAsConfigured
<1> QED
  BY <1>1, TypesInit, TypesNext, CachedInit, CachedNext, SeededInit, SeededNext, WiringInit, WiringNext,
     PTL DEF ProviderSpec

=============================================================================
