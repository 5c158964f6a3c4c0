--------------------------- MODULE ExportContent ---------------------------
(***************************************************************************)
(* metrics/export.py: solved data as the lines of a Touchstone 1.0 file    *)
(* and of a CSV table. A number is written so that it reads back as itself *)
(* and stands for itself here; of the provenance one free text is kept,    *)
(* a sequence of characters. A line that is not data has no frequency.     *)
(***************************************************************************)
EXTENDS Values, SequencesExt

MaxPairsPerLine == 4

ExportContentError == <<>>

Control == {"newline", "tab"}

\* Every control character becomes a space: names may hold newlines.
Clean(text) == [i \in DOMAIN text |-> IF text[i] \in Control THEN "space" ELSE text[i]]

----------------------------------------------------------------------------
(* _port_grid *)

Canonical(key) == key.spelling \in {"plain", "padded"}

Position(key) == <<key.row, key.column>>

RowMajor(ports) ==
  [i \in 1..(ports * ports) |-> <<(i - 1) \div ports + 1, ((i - 1) % ports) + 1>>]

PortCount(solved) ==
  LET keys == DOMAIN solved.s_parameters
  IN Max({key.row : key \in keys} \cup {key.column : key \in keys})

SweepIsExportable(frequencies) ==
  /\ frequencies # <<>>
  /\ \A i \in 2..Len(frequencies) : ~ Leq(frequencies[i], frequencies[i - 1])

\* Two spellings of one position are ambiguous, a missing position would have
\* to be invented, and a series of another length belongs to another sweep.
MatrixIsWhole(solved) ==
  LET keys == DOMAIN solved.s_parameters
  IN /\ keys # {}
     /\ \A key \in keys : Canonical(key) /\ 0 \notin {key.row, key.column}
     /\ \A key, other \in keys : Position(key) = Position(other) => key = other
     /\ \A place \in ToSet(RowMajor(PortCount(solved))) :
          \E key \in keys : Position(key) = place
     /\ \A key \in keys : Len(solved.s_parameters[key]) = Len(solved.frequencies)

Exportable(solved) ==
  SweepIsExportable(solved.frequencies) /\ MatrixIsWhole(solved)

GridKey(solved, place) ==
  CHOOSE key \in DOMAIN solved.s_parameters : Position(key) = place

Entry(solved, place, point) == solved.s_parameters[GridKey(solved, place)][point]

----------------------------------------------------------------------------
(* Touchstone *)

\* Mutant: two ports row by row, as any other count.
MatrixRowsUntransposed(solved, ports, point) ==
  [row \in 1..ports |->
     [column \in 1..ports |-> Entry(solved, <<row, column>>, point)]]

\* A two-port point is one row in the order the format fixed for it.
MatrixRows(solved, ports, point) ==
  IF ports = 2
  THEN <<[i \in 1..4 |->
            Entry(solved, <<<<1, 1>>, <<2, 1>>, <<1, 2>>, <<2, 2>>>>[i], point)]>>
  ELSE [row \in 1..ports |->
          [column \in 1..ports |-> Entry(solved, <<row, column>>, point)]]

Chunks(row) ==
  [i \in 1..((Len(row) + MaxPairsPerLine - 1) \div MaxPairsPerLine) |->
     SubSeq(row, (i - 1) * MaxPairsPerLine + 1,
            IF i * MaxPairsPerLine < Len(row) THEN i * MaxPairsPerLine ELSE Len(row))]

\* The first line of a point carries its frequency, the others continue it.
TouchstonePointLines(solved, ports, point) ==
  LET rows == MatrixRows(solved, ports, point)
      chunks == FlattenSeq([i \in DOMAIN rows |-> Chunks(rows[i])])
  IN [i \in DOMAIN chunks |->
        [mark |-> "data", text |-> <<>>,
         frequency |-> IF i = 1 THEN solved.frequencies[point] ELSE None,
         pairs |-> chunks[i]]]

HeaderLine(mark, text) ==
  [mark |-> mark, text |-> text, frequency |-> None, pairs |-> <<>>]

ProvenanceLines(provenance) == <<HeaderLine("comment", Clean(provenance))>>

TouchstoneContent(solved, provenance) ==
  IF ~ Exportable(solved) THEN ExportContentError
  ELSE LET ports == PortCount(solved)
       IN ProvenanceLines(provenance) \o <<HeaderLine("option", <<>>)>>
            \o FlattenSeq([point \in DOMAIN solved.frequencies |->
                             TouchstonePointLines(solved, ports, point)])

----------------------------------------------------------------------------
(* CSV *)

NeedsQuotes(text) == \E i \in DOMAIN text : text[i] \in {"quote", "comma", "newline"}

CsvField(text) ==
  LET doubled == [i \in DOMAIN text |->
                    IF text[i] = "quote" THEN <<"quote", "quote">> ELSE <<text[i]>>]
  IN IF NeedsQuotes(text) THEN <<"quote">> \o FlattenSeq(doubled) \o <<"quote">>
     ELSE text

\* One row per frequency; the columns are row-major at every port count, and
\* each row repeats the provenance.
CsvContent(solved, provenance) ==
  IF ~ Exportable(solved) THEN ExportContentError
  ELSE LET columns == RowMajor(PortCount(solved))
       IN [point \in DOMAIN solved.frequencies |->
             [frequency |-> solved.frequencies[point],
              columns |-> columns,
              samples |-> [i \in DOMAIN columns |-> Entry(solved, columns[i], point)],
              provenance |-> CsvField(Clean(provenance))]]
=============================================================================
