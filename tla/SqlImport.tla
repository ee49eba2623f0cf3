------------------------------ MODULE SqlImport ------------------------------
(***************************************************************************)
(* The import of an SQL dump into a tenant (services/sql_import_service.ts,*)
(* commands/import_tenant_sql.ts) and the tagged splitter it reads the     *)
(* dump with (utils/sql_splitter.ts). A dump is a sequence of lines, each  *)
(* a statement, or part of a COPY block; only what a line does is told.    *)
(***************************************************************************)
EXTENDS Naturals, Sequences, FiniteSets

\* good and bad: statements that PostgreSQL runs and refuses; path: SET search_path;
\* commented: the same behind a comment; commit: COMMIT; copy, row, end: a COPY
\* header, a data row, and the line \. that ends the block.
Lines == {"good", "bad", "path", "commented", "commit", "copy", "row", "end"}

VARIABLES
  dump,       \* the lines of the dump
  split,      \* the splitter: the line it is at, whether in a COPY block, and its tokens
  import,     \* the import: its step, mode, next token and result
  pending,    \* the lines run in the open transaction
  applied,    \* the lines whose effect is committed
  searchPath  \* whose tables an unqualified name means

importVars == <<dump, split, import, pending, applied, searchPath>>

Result0 == [step |-> "start", mode |-> "none", next |-> 1, executed |-> 0, skipped |-> 0, errors |-> 0]

ImportInit(dumps) ==
  /\ dump \in dumps
  /\ split = [line |-> 1, open |-> FALSE, tokens |-> <<>>]
  /\ import = Result0
  /\ pending = {}
  /\ applied = {}
  /\ searchPath = "tenant"

-----------------------------------------------------------------------------
(* The command and splitSqlStatementsTagged.                               *)

\* The command refuses a tenant that is not active, but for --force, and a missing file.
Refuse ==
  /\ import.step = "start"
  /\ import' = [import EXCEPT !.step = "refused"]
  /\ UNCHANGED <<dump, split, pending, applied, searchPath>>

ReadDump ==
  /\ import.step = "start"
  /\ import' = [import EXCEPT !.step = "split"]
  /\ UNCHANGED <<dump, split, pending, applied, searchPath>>

\* A token is the number of the line it starts on. Every line of an open block is a row;
\* \. outside of one is a psql command, which the statement splitter drops.
CutLine ==
  LET line == dump[split.line] IN
  /\ import.step = "split" /\ split.line <= Len(dump)
  /\ split' = [line   |-> split.line + 1,
               open   |-> IF split.open THEN line # "end" ELSE line = "copy",
               tokens |-> IF split.open \/ line = "end" THEN split.tokens ELSE Append(split.tokens, split.line)]
  /\ UNCHANGED <<dump, import, pending, applied, searchPath>>

IsCut == import.step = "split" /\ split.line > Len(dump)

Tokens == split.tokens

Kind(i) == dump[Tokens[i]]

Count(kinds) == Cardinality({i \in 1..Len(Tokens) : Kind(i) \in kinds})

\* SKIP_PATTERNS are anchored: a comment before the statement hides it from them.
Skipped(kind) == kind = "path"

SkippedKinds == {k \in Lines : Skipped(k)}

-----------------------------------------------------------------------------
(* The three modes.                                                        *)

DryRun ==
  /\ IsCut
  /\ import' = [import EXCEPT !.step = "done", !.mode = "dry-run",
                              !.skipped = Count(SkippedKinds), !.executed = Count(Lines \ SkippedKinds)]
  /\ UNCHANGED <<dump, split, pending, applied, searchPath>>

\* A dump with COPY blocks needs psql and its configuration.
Begin ==
  /\ IsCut
  /\ IF Count({"copy"}) = 0
     THEN import' = [import EXCEPT !.step = "run", !.mode = "transactional"]
     ELSE \E psqlReady \in BOOLEAN :
            import' = [import EXCEPT !.step = IF psqlReady THEN "run" ELSE "threw", !.mode = "psql"]
  /\ UNCHANGED <<dump, split, pending, applied, searchPath>>

Running(mode) == import.step = "run" /\ import.mode = mode

\* The token at hand.
At == Kind(import.next)

SkipStatement ==
  /\ Running("transactional") /\ import.next <= Len(Tokens)
  /\ Skipped(At)
  /\ import' = [import EXCEPT !.next = @ + 1, !.skipped = @ + 1]
  /\ UNCHANGED <<dump, split, pending, applied, searchPath>>

\* Variant of RunStatement: every statement commits by itself.
RunCommitting ==
  /\ Running("transactional") /\ import.next <= Len(Tokens)
  /\ ~Skipped(At)
  /\ At # "commit"
  /\ applied' = IF At = "good" THEN applied \cup {Tokens[import.next]} ELSE applied
  /\ searchPath' = IF At \in {"path", "commented"} THEN "other" ELSE searchPath
  /\ import' = IF At \in {"bad", "row"} THEN [import EXCEPT !.next = @ + 1, !.errors = @ + 1]
               ELSE [import EXCEPT !.next = @ + 1, !.executed = @ + 1]
  /\ UNCHANGED <<dump, split, pending>>

\* A statement under its savepoint: one that fails is undone and recorded.
RunStatement ==
  /\ Running("transactional") /\ import.next <= Len(Tokens)
  /\ ~Skipped(At)
  /\ At # "commit"
  /\ pending' = IF At = "good" THEN pending \cup {Tokens[import.next]} ELSE pending
  /\ searchPath' = IF At \in {"path", "commented"} THEN "other" ELSE searchPath
  /\ import' = IF At \in {"bad", "row"} THEN [import EXCEPT !.next = @ + 1, !.errors = @ + 1]
               ELSE [import EXCEPT !.next = @ + 1, !.executed = @ + 1]
  /\ UNCHANGED <<dump, split, applied>>

\* The dump's own COMMIT ends the import's transaction and its savepoint: releasing
\* the savepoint throws, and so does rolling back to it.
RunCommit ==
  /\ Running("transactional") /\ import.next <= Len(Tokens)
  /\ At = "commit"
  /\ applied' = applied \cup pending
  /\ pending' = {}
  /\ import' = [import EXCEPT !.step = "threw"]
  /\ UNCHANGED <<dump, split, searchPath>>

EndTransaction ==
  /\ Running("transactional") /\ import.next > Len(Tokens)
  /\ applied' = applied \cup pending
  /\ pending' = {}
  /\ import' = [import EXCEPT !.step = "done"]
  /\ UNCHANGED <<dump, split, searchPath>>

\* The connection is lost: the server rolls the transaction back.
LoseTransaction ==
  /\ Running("transactional")
  /\ pending' = {}
  /\ import' = [import EXCEPT !.step = "threw"]
  /\ UNCHANGED <<dump, split, applied, searchPath>>

\* psql commits every statement by itself, and runs the skipped ones like the others.
PsqlStatement ==
  /\ Running("psql") /\ import.next <= Len(Tokens)
  /\ applied' = IF At \in {"good", "copy"} THEN applied \cup {Tokens[import.next]} ELSE applied
  /\ searchPath' = IF At \in {"path", "commented"} THEN "other" ELSE searchPath
  /\ import' = [import EXCEPT !.next = @ + 1]
  /\ UNCHANGED <<dump, split, pending>>

\* The counts are computed from the tokens. psql puts its name, the file and the line
\* before the ERROR: of a file it reads, and such a line is not taken for an error.
PsqlEnds ==
  /\ Running("psql") /\ import.next > Len(Tokens)
  /\ import' = [import EXCEPT !.step = "done", !.skipped = Count(SkippedKinds),
                              !.executed = Count(Lines \ SkippedKinds)]
  /\ UNCHANGED <<dump, split, pending, applied, searchPath>>

\* psql exits with another code than 0 and 3.
PsqlFails ==
  /\ Running("psql")
  /\ import' = [import EXCEPT !.step = "threw"]
  /\ UNCHANGED <<dump, split, pending, applied, searchPath>>

ImportNext ==
  \/ Refuse \/ ReadDump \/ CutLine \/ DryRun \/ Begin
  \/ SkipStatement \/ RunStatement \/ RunCommit \/ EndTransaction \/ LoseTransaction
  \/ PsqlStatement \/ PsqlEnds \/ PsqlFails

ImportSpec == ImportInit(Seq(Lines)) /\ [][ImportNext]_importVars

-----------------------------------------------------------------------------
(* Properties.                                                             *)

LinesOf(kinds) == {n \in 1..Len(dump) : dump[n] \in kinds}

\* A line of a terminated or unterminated block other than its first.
InBlock(n) == \E h \in 1..(n - 1) : dump[h] = "copy" /\ \A m \in (h + 1)..(n - 1) : dump[m] # "end"

\* Every statement that could run is in the tenant's schema when the import is done,
\* and no block has swallowed one but the block it stands in.
DoneMeansApplied ==
  import.step = "done" /\ import.mode # "dry-run" =>
    {n \in LinesOf({"good"}) : ~InBlock(n)} = applied \ LinesOf({"copy"})

\* The result of a transactional import says what happened: "executed" statements took
\* effect, and the others are the skipped ones and the errors.
ResultIsExact ==
  import.step = "done" /\ import.mode = "transactional" =>
    /\ import.executed = Cardinality(applied \cup LinesOf({"commented"}))
    /\ import.executed + import.skipped + import.errors = Len(Tokens)

\* An import that throws has changed nothing, unless it ran through psql or the dump
\* had a COMMIT of its own.
ThrowsAndLeavesNothing ==
  import.step = "threw" /\ import.mode = "transactional" /\ LinesOf({"commit"}) = {} => applied = {}

\* The search path of the tenant is kept from a transactional dump that names another
\* one, unless a comment stands before the statement.
KeepsSearchPath ==
  import.mode = "transactional" /\ LinesOf({"commented"}) = {} => searchPath = "tenant"

\* An import is what its result and its failure say it is, and stays in the schema.
ImportIsExact ==
  DoneMeansApplied /\ ResultIsExact /\ ThrowsAndLeavesNothing /\ KeepsSearchPath
=============================================================================
