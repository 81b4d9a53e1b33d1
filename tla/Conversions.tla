---------------------------- MODULE Conversions ----------------------------
(***************************************************************************)
(* What the console does to amounts and statements before it shows or      *)
(* sends them: money and toMinor of apps/web/src/api.ts, toEntryDisplay    *)
(* and entriesAreBalanced of ledger-display.ts, and the CSV statement      *)
(* parser of csv.ts.  They are pure; MCWorkbench checks them over bounded  *)
(* inputs.                                                                 *)
(*                                                                         *)
(* A decimal text is its sign, the number its whole part is, the number    *)
(* its fraction is, and the number of digits that is written with.  A text *)
(* of CSV is a sequence of characters.                                     *)
(***************************************************************************)
EXTENDS Integers, Sequences, SequencesExt

Refused == "refused"

-----------------------------------------------------------------------------
(* Amounts.                                                                *)

Abs(n) == IF n < 0 THEN -n ELSE n

\* toEntryDisplay: a debit is positive; nothing is shown for an entry of 0.
EntryDisplay(signed) ==
  IF signed = 0 THEN Refused
  ELSE [direction |-> IF signed > 0 THEN "DEBIT" ELSE "CREDIT", magnitude |-> Abs(signed)]

EntriesAreBalanced(amounts) ==
  /\ Len(amounts) > 0
  /\ \A i \in DOMAIN amounts : amounts[i] # 0
  /\ FoldLeft(LAMBDA total, amount : total + amount, 0, amounts) = 0

\* money
Money(minor, scale) ==
  [negative |-> minor < 0, whole |-> Abs(minor) \div 10^scale,
   fraction |-> Abs(minor) % 10^scale, digits |-> scale]

\* toMinor: the pattern has no sign; up to scale digits, none for an asset without fractions;
\* missing digits are zeros.
ToMinor(value, scale) ==
  LET minor == value.whole * 10^scale + value.fraction * 10^(scale - value.digits)
  IN  IF value.negative \/ value.digits > scale \/ minor = 0 THEN Refused ELSE minor

-----------------------------------------------------------------------------
(* Statements.                                                             *)

Quote == "\""
Comma == ","
LF    == "\n"
CR    == "\r"
Space == " "

White == {Space, LF, CR}

\* What trim() leaves nothing of.
Blank(field) == \A i \in DOMAIN field : field[i] \in White

\* A line without anything in it is no row.
Pushed(rows, row) == IF \E j \in DOMAIN row : ~Blank(row[j]) THEN Append(rows, row) ELSE rows

Start == [rows |-> <<>>, row |-> <<>>, field |-> <<>>, quoted |-> FALSE, closed |-> FALSE,
          skip |-> FALSE, malformed |-> FALSE]

\* The loop of parseStatementCsv at position i; skip is its i++.
Step(text, s, i) ==
  LET c    == text[i]
      Next(x) == i < Len(text) /\ text[i + 1] = x
  IN  CASE s.malformed                               -> s
        [] ~s.malformed /\ s.skip                    -> [s EXCEPT !.skip = FALSE]
        [] OTHER ->
             CASE s.quoted /\ c = Quote /\ Next(Quote)  -> [s EXCEPT !.field = Append(@, c), !.skip = TRUE]
               [] s.quoted /\ c = Quote /\ ~Next(Quote) -> [s EXCEPT !.quoted = FALSE, !.closed = TRUE]
               [] s.quoted /\ c # Quote                 -> [s EXCEPT !.field = Append(@, c)]
               [] ~s.quoted /\ c = Comma ->
                    [s EXCEPT !.row = Append(@, s.field), !.field = <<>>, !.closed = FALSE]
               [] ~s.quoted /\ c \in {LF, CR} ->
                    [s EXCEPT !.rows = Pushed(@, Append(s.row, s.field)), !.row = <<>>, !.field = <<>>,
                              !.closed = FALSE, !.skip = c = CR /\ Next(LF)]
               [] ~s.quoted /\ c = Quote ->
                    IF s.field = <<>> /\ ~s.closed THEN [s EXCEPT !.quoted = TRUE] ELSE [s EXCEPT !.malformed = TRUE]
               [] OTHER ->
                    IF s.closed THEN [s EXCEPT !.malformed = TRUE] ELSE [s EXCEPT !.field = Append(@, c)]

Read(text) == FoldLeftDomain(LAMBDA s, i : Step(text, s, i), Start, text)

\* A quote in the middle of a field, or one that is not closed, is an error.
WellFormed(text) == ~Read(text).malformed /\ ~Read(text).quoted

Rows(text) == LET end == Read(text) IN Pushed(end.rows, Append(end.row, end.field))

Trim(field) == SelectSeq(field, LAMBDA c : c \notin White)   \* names of columns have no inner spaces

MaxRecords == 1000

Headers(rows) == [j \in DOMAIN rows[1] |-> Trim(rows[1][j])]

Record(rows, i) ==
  [h \in ToSet(Headers(rows)) |-> rows[i][CHOOSE j \in DOMAIN Headers(rows) : Headers(rows)[j] = h]]

\* The first row names the columns, each once and the required ones among them; every other
\* row is a record with as many fields and of the set Valid.
Importable(text, Required, Valid) ==
  LET rows == Rows(text)
  IN  /\ WellFormed(text) /\ rows # <<>>
      /\ Required \subseteq ToSet(Headers(rows)) /\ IsInjective(Headers(rows))
      /\ Len(rows) - 1 \in 1..MaxRecords
      /\ \A i \in 2..Len(rows) : Len(rows[i]) = Len(Headers(rows)) /\ Record(rows, i) \in Valid

\* The number of a record counts rows, not lines of the file.
Import(text) ==
  LET rows == Rows(text)
  IN  [i \in 1..(Len(rows) - 1) |-> [record |-> Record(rows, i + 1), source_line |-> i + 1]]

-----------------------------------------------------------------------------
(* What they are checked against.                                          *)

\* A field as RFC 4180 writes it, quoted where it must be.
Written(field) ==
  IF \E i \in DOMAIN field : field[i] \in {Quote, Comma, LF, CR}
    THEN <<Quote>> \o FoldLeft(LAMBDA s, c : IF c = Quote THEN s \o <<c, c>> ELSE Append(s, c), <<>>, field) \o <<Quote>>
    ELSE field

Joined(parts, separator) ==
  FoldLeftDomain(LAMBDA s, i : IF i = 1 THEN parts[i] ELSE s \o separator \o parts[i], <<>>, parts)

\* A table as a text, each line ended by eol.
Text(table, eol) ==
  Joined([i \in DOMAIN table |-> Joined([j \in DOMAIN table[i] |-> Written(table[i][j])], <<Comma>>)], eol) \o eol
=============================================================================
