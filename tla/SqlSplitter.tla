----------------------------- MODULE SqlSplitter -----------------------------
(***************************************************************************)
(* splitSqlStatements (utils/sql_splitter.ts): the state machine that cuts *)
(* a dump into statements, one step per turn of its loop, against the      *)
(* lexical rules of PostgreSQL for what its states know: strings, dollar   *)
(* quotes, whose tag is one symbol, comments and psql's commands. Quoted   *)
(* identifiers and escapes in strings are not among them.                  *)
(***************************************************************************)
EXTENDS Naturals, Sequences, FiniteSets

Symbols == {"quote", "$a$", "$b$", "semi", "newline", "dash", "slash", "star", "back", "x"}

Tags == {"$a$", "$b$"}

VARIABLES
  sql,        \* the input
  at,         \* the position of the loop
  lexing,     \* the state: default, or the construct it is in
  current,    \* the statement so far
  statements  \* the statements so far

splitVars == <<sql, at, lexing, current, statements>>

SplitInit(inputs) ==
  /\ sql \in inputs
  /\ at = 1
  /\ lexing = "default"
  /\ current = <<>>
  /\ statements = <<>>

Ch(i) == IF i \in 1..Len(sql) THEN sql[i] ELSE "none"

Pair(first, second) == Ch(at) = first /\ Ch(at + 1) = second

Content(s) == {i \in 1..Len(s) : s[i] # "newline"}

Trim(s) == IF Content(s) = {} THEN <<>>
           ELSE SubSeq(s, CHOOSE i \in Content(s) : \A k \in Content(s) : i <= k,
                          CHOOSE i \in Content(s) : \A k \in Content(s) : i >= k)

Push(s) == statements' = IF Trim(s) = <<>> THEN statements ELSE Append(statements, Trim(s))

Take(n, state) ==
  /\ current' = current \o SubSeq(sql, at, at + n - 1)
  /\ at' = at + n
  /\ lexing' = state
  /\ UNCHANGED <<sql, statements>>

\* The first of some positions that is not before i; the last of s if none is.
FirstFrom(s, i, some) ==
  IF \E k \in some : k >= i
  THEN CHOOSE k \in some : k >= i /\ \A m \in some : m >= i => k <= m
  ELSE Len(s)

Newlines(s) == {k \in 1..Len(s) : s[k] = "newline"}

LineStart(s, i) == i > 1 => s[i - 1] = "newline"

In(state) == at <= Len(sql) /\ lexing = state

OpensComment == Pair("dash", "dash") \/ Pair("slash", "star")

Meta == Ch(at) = "back" /\ LineStart(sql, at)

OpenComment ==
  /\ In("default")
  /\ OpensComment
  /\ Take(1, IF Ch(at) = "dash" THEN "line_comment" ELSE "block_comment")

\* Variant of OpenQuote: dollar quotes are ordinary text.
OpenSingleQuote ==
  /\ In("default")
  /\ Ch(at) \in {"quote"} \cup Tags
  /\ Take(1, IF Ch(at) = "quote" THEN "quote" ELSE "default")

OpenQuote ==
  /\ In("default")
  /\ Ch(at) \in {"quote"} \cup Tags
  /\ Take(1, Ch(at))

EndStatement ==
  /\ In("default")
  /\ Ch(at) = "semi"
  /\ Push(current)
  /\ current' = <<>>
  /\ at' = at + 1
  /\ UNCHANGED <<sql, lexing>>

\* A psql command is dropped with its line.
DropMeta ==
  /\ In("default")
  /\ Meta
  /\ at' = FirstFrom(sql, at, Newlines(sql)) + 1
  /\ UNCHANGED <<sql, lexing, current, statements>>

Plain ==
  /\ In("default")
  /\ ~OpensComment /\ ~Meta /\ Ch(at) \notin {"quote", "semi"} \cup Tags
  /\ Take(1, "default")

\* A doubled quote stays in the string.
InQuote ==
  /\ In("quote")
  /\ IF Pair("quote", "quote") THEN Take(2, "quote")
     ELSE Take(1, IF Ch(at) = "quote" THEN "default" ELSE "quote")

InLineComment ==
  /\ In("line_comment")
  /\ Take(1, IF Ch(at) = "newline" THEN "default" ELSE "line_comment")

InBlockComment ==
  /\ In("block_comment")
  /\ IF Pair("star", "slash") THEN Take(2, "default") ELSE Take(1, "block_comment")

\* Only its own tag closes a dollar quote.
InDollarQuote ==
  /\ at <= Len(sql) /\ lexing \in Tags
  /\ Take(1, IF Ch(at) = lexing THEN "default" ELSE lexing)

FlushTrailing ==
  /\ at > Len(sql) /\ lexing # "done"
  /\ Push(current)
  /\ lexing' = "done"
  /\ UNCHANGED <<sql, at, current>>

SplitNext ==
  \/ OpenComment \/ OpenQuote \/ EndStatement \/ DropMeta \/ Plain
  \/ InQuote \/ InLineComment \/ InBlockComment \/ InDollarQuote \/ FlushTrailing

SplitSpec == SplitInit(Seq(Symbols)) /\ [][SplitNext]_splitVars

-----------------------------------------------------------------------------
(* PostgreSQL's lexemes in an input s: where the one that begins at i      *)
(* ends.                                                                   *)

IsPair(s, i, first, second) == i < Len(s) /\ s[i] = first /\ s[i + 1] = second

IsQuoted(s, i) == s[i] \in {"quote"} \cup Tags
IsLineComment(s, i) == IsPair(s, i, "dash", "dash")
IsBlockComment(s, i) == IsPair(s, i, "slash", "star")
IsMeta(s, i) == s[i] = "back" /\ LineStart(s, i)

Closings(s) == {k \in 2..Len(s) : IsPair(s, k - 1, "star", "slash")}

LexemeEnd(s, i) ==
  CASE IsQuoted(s, i)       -> FirstFrom(s, i + 1, {k \in 1..Len(s) : s[k] = s[i]})
    [] IsLineComment(s, i)  -> FirstFrom(s, i, Newlines(s))
    [] IsBlockComment(s, i) -> FirstFrom(s, i + 3, Closings(s))
    [] IsMeta(s, i)         -> FirstFrom(s, i, Newlines(s))
    [] OTHER                -> i

\* A lexeme begins at i: from the first position on one ends before another, or before i.
Begins(s, i) ==
  \E before \in SUBSET (1..(i - 1)) :
    /\ 1 \in before \cup {i}
    /\ \A h \in before : LexemeEnd(s, h) + 1 \in before \cup {i}

Dropped(s) ==
  {i \in 1..Len(s) : \E h \in 1..i : IsMeta(s, h) /\ Begins(s, h) /\ i <= LexemeEnd(s, h)}

Cuts(s) == {0, Len(s) + 1} \cup {i \in 1..Len(s) : s[i] = "semi" /\ Begins(s, i)}

\* The n-th of some positions, and what stands at them.
Nth(some, n) == CHOOSE i \in some : Cardinality({k \in some : k <= i}) = n

Text(s, some) == [n \in 1..Cardinality(some) |-> s[Nth(some, n)]]

\* What stands between a cut and the next.
PieceAfter(s, c) ==
  Trim(Text(s, {i \in 1..Len(s) \ Dropped(s) : c < i /\ \A d \in Cuts(s) : d > c => i < d}))

PiecesAfter(s, some) == [n \in 1..Cardinality(some) |-> PieceAfter(s, Nth(some, n))]

Pieces(s) == PiecesAfter(s, {c \in Cuts(s) : c <= Len(s) /\ PieceAfter(s, c) # <<>>})

\* Comments that the splitter ends before PostgreSQL does: /*/ is a whole one for the
\* splitter, and it does not know that a comment may stand in a comment.
HasOddComment(s) ==
  \E i \in 1..Len(s) :
    /\ IsBlockComment(s, i) /\ Begins(s, i)
    /\ \/ IsPair(s, i + 1, "star", "slash")
       \/ \E k \in (i + 2)..(LexemeEnd(s, i) - 1) : IsPair(s, k, "slash", "star")

\* The statements are what stands between the semicolons that are not quoted and not
\* in a comment, without the psql commands.
SplitsLikePostgres == lexing = "done" /\ ~HasOddComment(sql) => statements = Pieces(sql)
=============================================================================
