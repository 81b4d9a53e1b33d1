---------------------------- MODULE MCWorkbench ----------------------------
(* Instances of Workbench for TLC, and the bounded checks of Conversions. *)
EXTENDS Workbench, Integers, Sequences, TLC

CONSTANTS usd, eur, new, alice, bob, eva, carol, r1

\* Two ledgers of the first sandbox, and one of the next.
Sandboxes  == (usd :> 1) @@ (eur :> 1) @@ (new :> 2)
Books      == (alice :> usd) @@ (bob :> usd) @@ (eva :> eur) @@ (carol :> new)
Primaries  == (usd :> alice) @@ (eur :> eva) @@ (new :> carol)
Firsts     == (1 :> usd) @@ (2 :> new)

\* What the next steps and the properties read: a refresh that is superseded and that no write
\* waits for changes nothing when it is answered, nor does the answer to a panel that is gone,
\* and a draft that was given up has no ledger.
View ==
  LET live == {r \in refreshes.sent : r.version = refreshes.version \/ Awaited(r)}
      held == [r \in Requests |-> IF r = draft \/ r \in journal THEN requests[r] ELSE NoRequest]
      answer == IF load.mounted THEN load ELSE load.pc
  IN  <<written, tenant, newest, ledger, accounts, selected, balance, refreshes.version, live, held, journal, write,
        changes, draft, boot, area, panel, answer>>

C == INSTANCE Conversions

\* An amount that is shown and typed again is the same amount, in assets of every scale, and
\* what cannot be sent (nothing, a negative amount) is refused.
ASSUME AmountsSurvive ==
  \A scale \in 0..3 : \A n \in -1100..1100 :
    C!ToMinor(C!Money(n, scale), scale) = (IF n > 0 THEN n ELSE C!Refused)

\* Typed with fewer digits an amount is what the digits say, and with more it is refused.
ASSUME FractionsAreScaled ==
  \A scale, digits \in 0..3 : \A whole \in 0..12, fraction \in 0..(10^digits - 1) :
    LET minor == C!ToMinor([negative |-> FALSE, whole |-> whole, fraction |-> fraction, digits |-> digits], scale)
    IN  IF digits > scale \/ whole + fraction = 0 THEN minor = C!Refused
        ELSE minor * 10^digits = (whole * 10^digits + fraction) * 10^scale

\* Entries that are shown as balanced show debits and credits of the same total.
ASSUME BalancedEntriesShowIt ==
  \A amounts \in C!SeqOf(-3..3, 4) :
    C!EntriesAreBalanced(amounts) =>
      LET Total(direction) ==
            LET shown == SelectSeq(amounts, LAMBDA n : C!EntryDisplay(n).direction = direction)
            IN  C!FoldLeft(LAMBDA total, n : total + C!EntryDisplay(n).magnitude, 0, shown)
      IN  Total("DEBIT") = Total("CREDIT") /\ Total("DEBIT") > 0

\* A line with something in it.
Shown(row) == \E j \in DOMAIN row : ~C!Blank(row[j])

Tables(rows, columns, fields) == [1..rows -> [1..columns -> fields]]

\* A table written by the rules of RFC 4180 is read back, whatever its fields hold and its
\* lines end with; a row of blank fields is left out.
ASSUME StatementsSurvive ==
  LET characters == {C!Quote, C!Comma, C!LF, C!CR, C!Space, "x"}
      short      == C!SeqOf(characters, 1)
      some       == Tables(1, 1, C!SeqOf(characters, 3)) \cup Tables(2, 2, short) \cup Tables(3, 1, short)
  IN  \A table \in some : \A eol \in {<<C!LF>>, <<C!CR>>, <<C!CR, C!LF>>} :
        C!WellFormed(C!Text(table, eol)) /\ C!Rows(C!Text(table, eol)) = SelectSeq(table, Shown)

\* What any text is read as does not change when it is written and read again: nothing is
\* read two ways.
ASSUME ReadingIsStable ==
  \A text \in C!SeqOf({C!Quote, C!Comma, C!LF, C!CR, "x"}, 5) :
    LET rows == C!Rows(text)
    IN  C!WellFormed(text) /\ rows # <<>> =>
          C!WellFormed(C!Text(rows, <<C!LF>>)) /\ C!Rows(C!Text(rows, <<C!LF>>)) = rows

\* A record has the values of its own line under the names of the columns, in any order of
\* the columns; a statement is imported whole, but for blank
\* lines, or not at all.
ASSUME RecordsAreWhole ==
  LET id == <<"i">>
      amount == <<"a">>
      values == {<<>>, <<"1">>, <<"2">>}
      Valid == [{id, amount} -> values \ {<<>>}]
  IN  \A headers \in {<<id, amount>>, <<amount, id>>, <<id, id>>, <<id>>}, body \in Tables(2, 2, values) :
        LET text  == C!Text(<<headers>> \o body, <<C!LF>>)
            lines == SelectSeq(body, Shown)
        IN  C!Importable(text, {id, amount}, Valid) =>
              /\ C!IsInjective(headers) /\ Len(headers) = 2
              /\ Len(C!Import(text)) = Len(lines)
              /\ \A i \in DOMAIN lines, j \in 1..2 : C!Import(text)[i].record[headers[j]] = lines[i][j]
=============================================================================
