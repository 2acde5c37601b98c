---------------------------- MODULE ResultBudget ----------------------------
(***************************************************************************)
(* The byte budget of a query result.  The three engines have a copy of it *)
(* each (query_result.go of src/internal/connection/postgres, mysql and    *)
(* sqlite); the definitions below are those of postgres, and the engines'  *)
(* modules say where the others differ.                                    *)
(*                                                                         *)
(* A result is encoded as a JSON object: fixed parts (names, kind, source, *)
(* columns), the rows with a comma between any two, the digits of the row  *)
(* count, and the flag "truncated".  The budget is kept before a row is    *)
(* retained, so that a result over the limit is never built.               *)
(***************************************************************************)
EXTENDS Integers, Sequences

CONSTANT ByteLimit  \* QueryOptions.ResponseByteLimit

ASSUME BudgetAssumption == ByteLimit \in Nat \ {0}

\* A cell as the driver hands it out: a null, or a text or binary value of raw
\* bytes.  Encoding a text as JSON adds extra bytes for what must be escaped,
\* and encoding that JSON once more adds again bytes.
Cell == [kind : {"null", "text", "binary"}, raw : Nat, extra : Nat, again : Nat]

Digits[n \in Nat] == IF n < 10 THEN 1 ELSE 1 + Digits[n \div 10]

SizeOfFalse == 5  \* the longer of the two values of "truncated"
SizeOfNull == 4

\* queryResultBudget; the fixed parts come with the columns of the query.
NewBudget(fixedSize) == [fixedSize |-> fixedSize, rowsSize |-> 2, retainedRows |-> 0]
---------------------------------------------------------------------------
\* json.Marshal of the cell: in quotes, escaped; null as such.
TextSize(cell) == IF cell.kind = "null" THEN SizeOfNull ELSE cell.raw + cell.extra + 2

\* What the first of some parts take together, and all of them.
Used(parts) ==
    LET used[i \in 0..Len(parts)] == IF i = 0 THEN 0 ELSE used[i - 1] + parts[i]
    IN used

Total(parts) == Used(parts)[Len(parts)]

\* The limit is used up part by part; a part that exceeds what remains fits not.
fits(parts) == \A i \in 1..Len(parts) : parts[i] <= ByteLimit - Used(parts)[i - 1]

\* encodedRawRowSize, its result when the row fits: the brackets, a comma between
\* cells, and the cells, given by their sizes.
rowParts(sizes) ==
    <<2>> \o [i \in 1..Len(sizes) |-> sizes[i] + (IF i > 1 THEN 1 ELSE 0)]

rowSize(sizes) == Total(rowParts(sizes))

newBudgetFits(fixedSize) == fits(<<fixedSize, 2, Digits[0], SizeOfFalse>>)

\* Mutant: the digits of the present count, not of the next one.
BugFitsAdditionalRow(b, size) ==
    fits(<<b.fixedSize, b.rowsSize, IF b.retainedRows > 0 THEN 1 ELSE 0, size,
           Digits[b.retainedRows], SizeOfFalse>>)

FitsAdditionalRow(b, size) ==
    fits(<<b.fixedSize, b.rowsSize, IF b.retainedRows > 0 THEN 1 ELSE 0, size,
           Digits[b.retainedRows + 1], SizeOfFalse>>)

RetainRow(b, size) ==
    [b EXCEPT !.rowsSize = @ + size + (IF b.retainedRows > 0 THEN 1 ELSE 0),
              !.retainedRows = @ + 1]

\* The check of readRows before a row is retained.
RowFits(b, sizes) == fits(rowParts(sizes)) /\ FitsAdditionalRow(b, rowSize(sizes))
---------------------------------------------------------------------------
\* For reference: what a row, and n rows of so many bytes in all, are encoded in.
EncodedRow(sizes) == 2 + (IF Len(sizes) > 0 THEN Len(sizes) - 1 ELSE 0) + Total(sizes)

EncodedSize(fixedSize, n, bytes) ==
    fixedSize + 2 + bytes + (IF n > 0 THEN n - 1 ELSE 0) + Digits[n] + SizeOfFalse
===========================================================================
