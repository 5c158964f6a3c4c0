---------------------------- MODULE AuditLogProofs --------------------------
(***************************************************************************)
(* An audit record whose append returned keeps a line of its own whatever  *)
(* appends failed around it, the damage is no more than the appends that   *)
(* failed, and the log implements the trail it promises its reader: for    *)
(* every length of log and every way of tearing a line, when appends take  *)
(* turns.  Where they overlap, only the ones that do can be lost.          *)
(***************************************************************************)
EXTENDS AuditLog, SharedLog, FiniteSetTheorems, NaturalsInduction, WellFoundedInduction, TLAPS

-----------------------------------------------------------------------------
(* Part 1: what the guard saw is still so when the record is written.      *)

WellFormedLog ==
    /\ AuditTypeOK
    /\ GuardIsFresh
    /\ RecordIsIssued
    /\ AcknowledgedHasItsLine

\* Nothing is written yet.
LEMMA LogInitially ==
  ASSUME AuditInit
  PROVE  LogInv
  <1>1. /\ lines = <<>> /\ tail = <<>> /\ kinds = <<>> /\ step = "idle"
        /\ guard = FALSE /\ acknowledged = {}
    BY DEF AuditInit
  <1>2. AuditTypeOK
    <2>1. tail \in Line /\ lines \in Seq(Line)
      BY <1>1 DEF Line
    <2>2. Len(kinds) = 0 /\ kinds \in Seq(Kind)
      BY <1>1
    <2>3. step \in {"idle", "write"} /\ guard \in BOOLEAN /\ acknowledged \subseteq 1..Len(kinds)
      BY <1>1
    <2> HIDE DEF Line
    <2> QED
      BY <2>1, <2>2, <2>3, AuditAssumption DEF AuditTypeOK
  <1>3. FileLines = <<>>
    BY <1>1 DEF FileLines
  <1>4. LinesAreRecords
    BY <1>3 DEF LinesAreRecords
  <1> QED
    BY <1>1, <1>2, <1>4
    DEF LogInv, GuardIsFresh, RecordIsIssued, AcknowledgedHasItsLine, InFlightIsNew

\* A fragment of a record that has been issued stays one when more are issued.
LEMMA CheckTailKeepsLog ==
  ASSUME LogInv, NEW kind \in Kind, CheckTail(kind)
  PROVE  WellFormedLog'
  <1>1. /\ kinds' \in Seq(Kind) /\ Len(kinds') = Len(kinds) + 1
        /\ Len(kinds') <= MaxRecords /\ Len(kinds) \in Nat
    BY AuditAssumption DEF LogInv, AuditTypeOK, CheckTail
  <1>2. Fragment \subseteq Fragment'
    BY <1>1 DEF Fragment
  <1>3. Line \subseteq Line'
    BY <1>2 DEF Line
  <1>4. lines' \in Seq(Line') /\ tail' \in Line'
    BY <1>3 DEF LogInv, AuditTypeOK, CheckTail
  <1>5. AuditTypeOK'
    BY <1>1, <1>4 DEF LogInv, AuditTypeOK, CheckTail, TailMissingNewline
  <1>6. GuardIsFresh' /\ RecordIsIssued' /\ AcknowledgedHasItsLine'
    BY <1>1 DEF LogInv, AuditTypeOK, CheckTail, GuardIsFresh, RecordIsIssued,
       AcknowledgedHasItsLine, LineOfItsOwn, TailMissingNewline, rec
  <1> QED
    BY <1>5, <1>6 DEF WellFormedLog

\* What a writer that looked at this very tail puts down.
LEMMA TextIsOwnLine ==
  ASSUME LogInv, step = "write"
  PROVE  /\ LastLine = <<>>
         /\ EndedLines \in Seq(Line)
         /\ Len(EndedLines) >= Len(lines)
         /\ \A i \in 1..Len(lines) : EndedLines[i] = lines[i]
         /\ \A size \in 1..Size :
               /\ Text(size) = << [rec |-> rec, size |-> size] >>
               /\ Text(size) \in Line
  <1>1. lines \in Seq(Line) /\ tail \in Line /\ rec \in 1..Len(kinds)
    BY DEF LogInv, AuditTypeOK, RecordIsIssued, rec
  <1>2. LastLine = <<>>
    BY DEF LogInv, GuardIsFresh, TailMissingNewline, LastLine
  <1>3. /\ EndedLines \in Seq(Line)
        /\ Len(EndedLines) >= Len(lines)
        /\ \A i \in 1..Len(lines) : EndedLines[i] = lines[i]
    BY <1>1 DEF EndedLines
  <1>4. ASSUME NEW size \in 1..Size
        PROVE  /\ Text(size) = << [rec |-> rec, size |-> size] >>
               /\ Text(size) \in Line
    <2>1. [rec |-> rec, size |-> size] \in Fragment
      BY <1>1 DEF Fragment
    <2> QED
      BY <1>2, <2>1 DEF Text, Line
  <1> QED
    BY <1>2, <1>3, <1>4

\* A line that went out whole is the record's own; the lines before it stay.
LEMMA PutLineKeepsLines ==
  ASSUME LogInv, step = "write", PutLine
  PROVE  /\ lines' \in Seq(Line) /\ tail' = <<>>
         /\ Len(lines') > Len(lines)
         /\ \A i \in 1..Len(lines) : lines'[i] = lines[i]
         /\ lines'[Len(lines')] = << [rec |-> rec, size |-> Size] >>
  <1>1. Size \in 1..Size /\ lines \in Seq(Line)
    BY AuditAssumption DEF LogInv, AuditTypeOK
  <1>2. /\ EndedLines \in Seq(Line)
        /\ Len(EndedLines) >= Len(lines)
        /\ \A i \in 1..Len(lines) : EndedLines[i] = lines[i]
        /\ Text(Size) = << [rec |-> rec, size |-> Size] >>
        /\ Text(Size) \in Line
    BY <1>1, TextIsOwnLine
  <1>3. lines' = Append(EndedLines, Text(Size)) /\ tail' = <<>>
    BY DEF PutLine
  <1> HIDE DEF EndedLines, Text
  <1> QED
    BY <1>1, <1>2, <1>3

\* A line that was cut short is a torn line of its own; the lines stay.
LEMMA PutPrefixKeepsLines ==
  ASSUME LogInv, step = "write", PutPrefix
  PROVE  /\ lines' \in Seq(Line) /\ tail' \in Line
         /\ Len(lines') >= Len(lines)
         /\ \A i \in 1..Len(lines) : lines'[i] = lines[i]
  <1>1. lines \in Seq(Line) /\ tail \in Line /\ <<>> \in Line
    BY DEF LogInv, AuditTypeOK, Line
  <1>2. CASE UNCHANGED <<lines, tail>>
    BY <1>1, <1>2
  <1>3. CASE lines' = EndedLines /\ tail' = LastLine
    BY <1>1, <1>3, TextIsOwnLine
  <1>4. CASE lines' = EndedLines /\ \E size \in 1..Size : tail' = Text(size)
    BY <1>4, TextIsOwnLine
  <1> QED
    BY <1>2, <1>3, <1>4 DEF PutPrefix

\* Every record acknowledged before keeps its line.
LEMMA LinesKept ==
  ASSUME LogInv, lines' \in Seq(Line), Len(lines') >= Len(lines),
         \A i \in 1..Len(lines) : lines'[i] = lines[i]
  PROVE  \A n \in acknowledged : \E i \in DOMAIN lines' :
             lines'[i] = << [rec |-> n, size |-> Size] >>
  <1>1. lines \in Seq(Line)
    BY DEF LogInv, AuditTypeOK
  <1> SUFFICES ASSUME NEW n \in acknowledged
               PROVE  \E i \in DOMAIN lines' : lines'[i] = << [rec |-> n, size |-> Size] >>
    OBVIOUS
  <1>2. PICK i \in DOMAIN lines : lines[i] = << [rec |-> n, size |-> Size] >>
    BY DEF LogInv, AcknowledgedHasItsLine, LineOfItsOwn
  <1>3. i \in 1..Len(lines) /\ i \in DOMAIN lines'
    BY <1>1, <1>2
  <1> QED
    BY <1>2, <1>3

\* The step that ends an append, whether the record went out or not.
LEMMA EndKeepsLog ==
  ASSUME LogInv, step = "write", EndAppend,
         lines' \in Seq(Line), tail' \in Line
  PROVE  /\ lines' \in Seq(Line)' /\ tail' \in Line'
         /\ kinds' \in Seq(Kind) /\ Len(kinds') <= MaxRecords
         /\ step' \in {"idle", "write"} /\ guard' \in BOOLEAN
         /\ GuardIsFresh' /\ RecordIsIssued'
  <1>1. kinds' = kinds /\ guard' = guard /\ step' = "idle"
    BY DEF EndAppend
  <1>2. Fragment' = Fragment
    BY <1>1 DEF Fragment
  <1>3. Line' = Line
    BY <1>2 DEF Line
  <1>4. GuardIsFresh' /\ RecordIsIssued'
    BY <1>1 DEF GuardIsFresh, RecordIsIssued
  <1> QED
    BY <1>1, <1>3, <1>4 DEF LogInv, AuditTypeOK

\* An acknowledged append leaves the log well formed.
LEMMA WriteKeepsLog ==
  ASSUME LogInv, Write
  PROVE  WellFormedLog'
  <1>1. step = "write" /\ EndAppend /\ acknowledged' = acknowledged \union {rec}
        /\ PutLine
    BY DEF Write
  <1>2. /\ lines' \in Seq(Line) /\ tail' = <<>>
        /\ Len(lines') > Len(lines) /\ Len(lines) \in Nat /\ Len(lines') \in Nat
        /\ \A i \in 1..Len(lines) : lines'[i] = lines[i]
        /\ lines'[Len(lines')] = << [rec |-> rec, size |-> Size] >>
    BY <1>1, PutLineKeepsLines DEF LogInv, AuditTypeOK
  <1>3. tail' \in Line
    BY <1>2 DEF Line
  <1>4. \A n \in acknowledged : \E i \in DOMAIN lines' :
            lines'[i] = << [rec |-> n, size |-> Size] >>
    BY <1>2, LinesKept
  <1>5. AcknowledgedHasItsLine'
    <2>1. Len(lines') \in DOMAIN lines'
      BY <1>2
    <2> SUFFICES ASSUME NEW n \in acknowledged'
                 PROVE  \E i \in DOMAIN lines' :
                            lines'[i] = << [rec |-> n, size |-> Size] >>
      BY DEF AcknowledgedHasItsLine, LineOfItsOwn
    <2>2. CASE n \in acknowledged
      BY <1>4, <2>2
    <2>3. CASE n = rec
      BY <1>2, <2>1, <2>3
    <2> QED
      BY <1>1, <2>2, <2>3
  <1>6. rec \in 1..Len(kinds) /\ kinds' = kinds
    BY <1>1 DEF LogInv, AuditTypeOK, RecordIsIssued, EndAppend, rec
  <1>7. acknowledged' \subseteq 1..Len(kinds')
    BY <1>1, <1>6 DEF LogInv, AuditTypeOK
  <1> QED
    BY <1>1, <1>2, <1>3, <1>5, <1>7, EndKeepsLog DEF WellFormedLog, AuditTypeOK

\* So does one that failed, wherever it was cut.
LEMMA WriteFailsKeepsLog ==
  ASSUME LogInv, WriteFails
  PROVE  WellFormedLog'
  <1>1. /\ step = "write" /\ EndAppend /\ acknowledged' = acknowledged
        /\ PutPrefix \/ PutLine
        /\ kinds' = kinds
    BY DEF WriteFails, EndAppend
  <1>2. /\ lines' \in Seq(Line) /\ tail' \in Line
        /\ Len(lines') >= Len(lines)
        /\ \A i \in 1..Len(lines) : lines'[i] = lines[i]
    <2>1. <<>> \in Line /\ Len(lines) \in Nat
      BY DEF Line, LogInv, AuditTypeOK
    <2>2. CASE PutLine
      <3>1. /\ lines' \in Seq(Line) /\ tail' = <<>> /\ Len(lines') > Len(lines)
            /\ \A i \in 1..Len(lines) : lines'[i] = lines[i]
        BY <1>1, <2>2, PutLineKeepsLines
      <3>2. Len(lines') \in Nat
        BY <3>1
      <3> QED
        BY <2>1, <3>1, <3>2
    <2>3. CASE PutPrefix
      BY <1>1, <2>3, PutPrefixKeepsLines
    <2> QED
      BY <1>1, <2>2, <2>3
  <1>3. AcknowledgedHasItsLine'
    BY <1>1, <1>2, LinesKept DEF AcknowledgedHasItsLine, LineOfItsOwn
  <1>4. acknowledged' \subseteq 1..Len(kinds')
    BY <1>1 DEF LogInv, AuditTypeOK
  <1> QED
    BY <1>1, <1>2, <1>3, <1>4, EndKeepsLog DEF WellFormedLog, AuditTypeOK

-----------------------------------------------------------------------------
(* Part 2: the lines of the file.                                          *)

\* The line of a fragment.
LineOf(n, size) == << [rec |-> n, size |-> size] >>

\* A write leaves the file's lines as they were, or adds one of its own.
LEMMA WriteAddsItsLine ==
  ASSUME LogInv, step = "write"
  PROVE  /\ PutLine => FileLines' = Append(FileLines, LineOf(rec, Size))
         /\ PutPrefix => \/ FileLines' = FileLines
                            \/ \E size \in 1..Size :
                                  FileLines' = Append(FileLines, LineOf(rec, size))
  <1>1. EndedLines = FileLines
    BY DEF LogInv, GuardIsFresh, TailMissingNewline, EndedLines, FileLines
  <1>2. \A size \in 1..Size : Text(size) = LineOf(rec, size)
    BY TextIsOwnLine DEF LineOf
  <1>3. Size \in 1..Size /\ LastLine = <<>>
    BY AuditAssumption, TextIsOwnLine
  <1>4. \A size : LineOf(rec, size) # <<>>
    BY DEF LineOf
  <1>5. ASSUME PutLine
        PROVE  FileLines' = Append(FileLines, LineOf(rec, Size))
    BY <1>1, <1>2, <1>3, <1>5 DEF PutLine, FileLines
  <1>6. ASSUME PutPrefix
        PROVE  \/ FileLines' = FileLines
               \/ \E size \in 1..Size : FileLines' = Append(FileLines, LineOf(rec, size))
    <2>1. CASE UNCHANGED <<lines, tail>>
      BY <2>1 DEF FileLines
    <2>2. CASE lines' = EndedLines /\ tail' = LastLine
      <3>1. FileLines' = lines'
        BY <1>3, <2>2 DEF FileLines
      <3> QED
        BY <1>1, <2>2, <3>1
    <2>3. ASSUME NEW size \in 1..Size, lines' = EndedLines, tail' = Text(size)
          PROVE  FileLines' = Append(FileLines, LineOf(rec, size))
      <3>1. tail' = LineOf(rec, size) /\ tail' # <<>>
        BY <1>2, <1>4, <2>3
      <3>2. FileLines' = Append(lines', tail')
        BY <3>1 DEF FileLines
      <3> QED
        BY <1>1, <2>3, <3>1, <3>2
    <2> QED
      BY <1>6, <2>1, <2>2, <2>3 DEF PutPrefix
  <1> QED
    BY <1>5, <1>6

\* The lines of the file are lines of fragments.
LEMMA FileLinesTyped ==
  ASSUME AuditTypeOK
  PROVE  /\ FileLines \in Seq(Line)
         /\ Len(FileLines) \in Nat /\ DOMAIN FileLines = 1..Len(FileLines)
         /\ \A i \in DOMAIN FileLines : \A j \in DOMAIN FileLines[i] :
               /\ FileLines[i][j] \in Fragment
               /\ FileLines[i][j].rec \in 1..Len(kinds)
               /\ FileLines[i][j].size \in 1..Size
  <1>1. FileLines \in Seq(Line)
    BY DEF AuditTypeOK, FileLines
  <1>2. ASSUME NEW i \in DOMAIN FileLines, NEW j \in DOMAIN FileLines[i]
        PROVE  FileLines[i][j] \in Fragment
    <2>1. FileLines[i] \in Seq(Fragment)
      BY <1>1 DEF Line
    <2> QED
      BY <2>1
  <1> QED
    BY <1>1, <1>2 DEF Fragment

\* Lines added in the order of the records are in the order of the records.
LEMMA AddedLineInOrder ==
  ASSUME LogInv, step = "write", EndAppend,
         NEW size \in 1..Size, FileLines' = Append(FileLines, LineOf(rec, size)),
         \/ acknowledged' = acknowledged
         \/ acknowledged' = acknowledged \union {rec} /\ size = Size
  PROVE  LinesAreRecords' /\ InFlightIsNew'
  <1> DEFINE L == Len(FileLines)
  <1>1. AuditTypeOK
    BY DEF LogInv
  <1>2. /\ FileLines \in Seq(Line) /\ L \in Nat
        /\ DOMAIN FileLines = 1..L
        /\ \A i \in DOMAIN FileLines : 1 \in DOMAIN FileLines[i] /\ FileLines[i][1].rec \in 1..Len(kinds)
    <2>1. \A i \in DOMAIN FileLines : FileLines[i] \in Seq(Fragment) /\ Len(FileLines[i]) = 1
      BY <1>1, FileLinesTyped DEF LogInv, LinesAreRecords, Line
    <2>2. \A i \in DOMAIN FileLines : 1 \in DOMAIN FileLines[i]
      BY <2>1
    <2> QED
      BY <1>1, <2>2, FileLinesTyped
  <1>3. /\ LineOf(rec, size) \in Line /\ Len(LineOf(rec, size)) = 1
        /\ LineOf(rec, size)[1].rec = rec /\ LineOf(rec, size)[1].size = size
    BY TextIsOwnLine DEF LineOf
  <1> HIDE DEF L
  <1>4. /\ DOMAIN FileLines' = 1..(L + 1)
        /\ FileLines'[L + 1] = LineOf(rec, size)
        /\ \A i \in 1..L : FileLines'[i] = FileLines[i]
    <2>1. /\ DOMAIN Append(FileLines, LineOf(rec, size)) = 1..(L + 1)
          /\ Append(FileLines, LineOf(rec, size))[L + 1] = LineOf(rec, size)
          /\ \A i \in 1..L : Append(FileLines, LineOf(rec, size))[i] = FileLines[i]
      BY <1>2, <1>3 DEF L
    <2> QED
      BY <2>1
  <1>5. \A i \in 1..L : FileLines[i][1].rec < rec
    <2>1. rec = Len(kinds) /\ Len(kinds) \in Nat
      BY DEF LogInv, AuditTypeOK, rec
    <2>2. \A i \in 1..L : FileLines[i][1].rec # rec
      BY <1>2 DEF LogInv, InFlightIsNew
    <2> QED
      BY <1>2, <2>1, <2>2
  <1>6. \A i \in 1..(L + 1) : i \in 1..L \/ i = L + 1
    BY <1>2
  <1>7. \A i \in 1..(L + 1) : Len(FileLines'[i]) = 1
    BY <1>2, <1>3, <1>4, <1>6 DEF LogInv, LinesAreRecords
  <1>8. \A i, j \in 1..(L + 1) : i < j => FileLines'[i][1].rec < FileLines'[j][1].rec
    <2> TAKE i, j \in 1..(L + 1)
    <2> HAVE i < j
    <2>1. i \in 1..L
      BY <1>2
    <2>2. CASE j = L + 1
      BY <1>3, <1>4, <1>5, <2>1, <2>2
    <2>3. CASE j \in 1..L
      BY <1>2, <1>4, <2>1, <2>3 DEF LogInv, LinesAreRecords
    <2> QED
      BY <1>6, <2>2, <2>3
  <1>9. rec \notin acknowledged
    BY DEF LogInv, InFlightIsNew
  <1>10. ASSUME NEW i \in 1..(L + 1), FileLines'[i][1].rec \in acknowledged'
         PROVE  FileLines'[i][1].size = Size
    <2>1. CASE i = L + 1
      BY <1>3, <1>4, <1>9, <1>10, <2>1
    <2>2. CASE i \in 1..L
      <3>1. FileLines'[i] = FileLines[i] /\ FileLines[i][1].rec # rec
        BY <1>4, <1>2, <2>2 DEF LogInv, InFlightIsNew
      <3>2. FileLines[i][1].rec \in acknowledged
        BY <1>10, <3>1
      <3> QED
        BY <1>2, <2>2, <3>1, <3>2 DEF LogInv, LinesAreRecords
    <2> QED
      BY <1>6, <2>1, <2>2
  <1>11. LinesAreRecords'
    BY <1>4, <1>7, <1>8, <1>10 DEF LinesAreRecords
  <1>12. InFlightIsNew'
    BY DEF EndAppend, InFlightIsNew
  <1> QED
    BY <1>11, <1>12

\* The steps of an append keep the lines in order.
LEMMA LinesInOrder ==
  ASSUME LogInv,
         (\E kind \in Kind : CheckTail(kind)) \/ Write \/ WriteFails
  PROVE  LinesAreRecords' /\ InFlightIsNew'
  <1>1. Size \in 1..Size
    BY AuditAssumption
  <1>2. ASSUME NEW kind \in Kind, CheckTail(kind)
        PROVE  LinesAreRecords' /\ InFlightIsNew'
    <2>1. FileLines' = FileLines /\ acknowledged' = acknowledged
      BY <1>2 DEF CheckTail, FileLines
    <2>2. LinesAreRecords'
      BY <2>1 DEF LogInv, LinesAreRecords
    <2>3. Len(kinds') = Len(kinds) + 1 /\ Len(kinds) \in Nat
      BY <1>2 DEF CheckTail, LogInv, AuditTypeOK
    <2>4. rec' = Len(kinds) + 1
      BY <2>3 DEF rec
    <2>5. Len(kinds) + 1 \notin acknowledged
      BY <2>3 DEF LogInv, AuditTypeOK
    <2>6. \A i \in DOMAIN FileLines : FileLines[i][1].rec # Len(kinds) + 1
      <3> TAKE i \in DOMAIN FileLines
      <3>1. FileLines[i] \in Seq(Fragment) /\ Len(FileLines[i]) = 1
        BY FileLinesTyped DEF LogInv, LinesAreRecords, Line
      <3>2. FileLines[i][1].rec \in 1..Len(kinds)
        BY <3>1, FileLinesTyped DEF LogInv
      <3> QED
        BY <2>3, <3>2
    <2>7. InFlightIsNew'
      BY <2>1, <2>3, <2>4, <2>5, <2>6 DEF InFlightIsNew
    <2> QED
      BY <2>2, <2>7
  <1>3. CASE Write
    <2>1. /\ step = "write" /\ PutLine /\ EndAppend
          /\ acknowledged' = acknowledged \union {rec}
      BY <1>3 DEF Write
    <2>2. FileLines' = Append(FileLines, LineOf(rec, Size))
      BY <2>1, WriteAddsItsLine
    <2> QED
      BY <1>1, <2>1, <2>2, AddedLineInOrder
  <1>4. CASE WriteFails
    <2>1. /\ step = "write" /\ EndAppend /\ acknowledged' = acknowledged
          /\ PutPrefix \/ PutLine
      BY <1>4 DEF WriteFails
    <2>2. CASE FileLines' = FileLines
      <3>1. step' = "idle"
        BY <2>1 DEF EndAppend
      <3> QED
        BY <2>1, <2>2, <3>1 DEF LogInv, LinesAreRecords, InFlightIsNew
    <2>3. ASSUME NEW size \in 1..Size, FileLines' = Append(FileLines, LineOf(rec, size))
          PROVE  LinesAreRecords' /\ InFlightIsNew'
      BY <2>1, <2>3, AddedLineInOrder
    <2> QED
      BY <1>1, <2>1, <2>2, <2>3, WriteAddsItsLine
  <1> QED
    BY <1>2, <1>3, <1>4

\* Every step of the log preserves its invariant.
LEMMA LogStep ==
  ASSUME LogInv, [AuditNext]_logVars
  PROVE  LogInv'
  <1>1. ASSUME NEW kind \in Kind, CheckTail(kind)
        PROVE  LogInv'
    BY <1>1, CheckTailKeepsLog, LinesInOrder DEF WellFormedLog, LogInv
  <1>2. ASSUME Write
        PROVE  LogInv'
    BY <1>2, WriteKeepsLog, LinesInOrder DEF WellFormedLog, LogInv
  <1>3. ASSUME WriteFails
        PROVE  LogInv'
    BY <1>3, WriteFailsKeepsLog, LinesInOrder DEF WellFormedLog, LogInv
  <1>4. CASE UNCHANGED logVars
    BY <1>4 DEF logVars, LogInv, AuditTypeOK, Line, Fragment, GuardIsFresh,
       RecordIsIssued, AcknowledgedHasItsLine, LineOfItsOwn, TailMissingNewline,
       LinesAreRecords, InFlightIsNew, FileLines, rec
  <1> QED
    BY <1>1, <1>2, <1>3, <1>4 DEF AuditNext

-----------------------------------------------------------------------------
(* Part 3: what is kept, and what cannot be decoded.                       *)

\* The log is well formed: what the newline guard saw is still so when the record
\* is written, an acknowledged record has its own line, and the lines are of one
\* record each, in order.
THEOREM LogInvariant ==
  AuditSpec => []LogInv
  <1>1. AuditInit => LogInv
    BY LogInitially
  <1>2. LogInv /\ [AuditNext]_logVars => LogInv'
    BY LogStep
  <1> QED
    BY <1>1, <1>2, PTL DEF AuditSpec

\* A line of a well-formed log is a fragment of one record.
LEMMA LineIsOneFragment ==
  ASSUME LogInv, NEW i \in DOMAIN FileLines
  PROVE  /\ DOMAIN FileLines[i] = {1} /\ FileLines[i][1] \in Fragment
         /\ FileLines[i][1].rec \in 1..Len(kinds)
         /\ FileLines[i][1].size # Size => FileLines[i][1].rec \in Failed
  <1>1. Len(FileLines[i]) = 1 /\ FileLines[i] \in Seq(Fragment)
    BY FileLinesTyped DEF LogInv, LinesAreRecords, Line
  <1>2. DOMAIN FileLines[i] = {1} /\ FileLines[i][1] \in Fragment
    BY <1>1
  <1>3. FileLines[i][1].rec \in 1..Len(kinds)
    BY <1>2, FileLinesTyped DEF LogInv
  <1>4. FileLines[i][1].rec \notin InFlight
    BY DEF LogInv, InFlightIsNew, InFlight
  <1>5. FileLines[i][1].size # Size => FileLines[i][1].rec \notin acknowledged
    BY DEF LogInv, LinesAreRecords
  <1> QED
    BY <1>2, <1>3, <1>4, <1>5 DEF Failed

\* A record with a line of its own is kept.
LEMMA LineIsKept ==
  ASSUME LogInv, NEW n \in 1..Len(kinds), LineOfItsOwn(n)
  PROVE  IsKept(n)
  <1>1. PICK i \in DOMAIN lines : lines[i] = << [rec |-> n, size |-> Size] >>
    BY DEF LineOfItsOwn
  <1>2. i \in DOMAIN FileLines /\ FileLines[i] = lines[i]
    BY <1>1 DEF LogInv, AuditTypeOK, FileLines
  <1>3. FileLines[i][1].rec = n /\ FileLines[i][1].size = Size /\ Len(FileLines[i]) = 1
        /\ DOMAIN FileLines[i] = {1}
    BY <1>1, <1>2
  <1>4. CASE kinds[n] = "separator"
    <2>1. Broken(FileLines[i])
      BY <1>3, <1>4, AuditAssumption DEF Broken
    <2>2. i \in CorruptLines
      BY <1>2, <2>1 DEF CorruptLines, Malformed, Parses
    <2> QED
      BY <1>1, <1>2, <1>4, <2>2 DEF IsKept
  <1>5. CASE kinds[n] # "separator"
    <2>1. ~Broken(FileLines[i])
      BY <1>3, <1>5 DEF Broken
    <2>2. i \notin Malformed
      BY <1>3, <2>1 DEF Malformed, Parses, Whole
    <2>3. n \in Returned
      BY <1>2, <1>3, <2>2 DEF Returned
    <2> QED
      BY <1>5, <2>3 DEF IsKept
  <1> QED
    BY <1>4, <1>5

\* A read of such a log returns every acknowledged record, or names its line.
LEMMA LogInvReads ==
  ASSUME LogInv, NEW n \in acknowledged
  PROVE  IsKept(n)
  BY LineIsKept DEF LogInv, AuditTypeOK, AcknowledgedHasItsLine

\* The one way to a file no read can decode, which reader.py's "never fatal" does
\* not count.
LEMMA TornCharacterIsOfAFailure ==
  ASSUME LogInv, ~Decodable
  PROVE  \E n \in Failed : kinds[n] = "wide"
  <1>1. PICK i \in DOMAIN FileLines : \E j \in DOMAIN FileLines[i] :
                kinds[FileLines[i][j].rec] = "wide" /\ FileLines[i][j].size = Cut
    BY DEF Decodable
  <1>2. kinds[FileLines[i][1].rec] = "wide" /\ FileLines[i][1].size = Cut
    BY <1>1, LineIsOneFragment
  <1> QED
    BY <1>2, LineIsOneFragment, AuditAssumption

\* An append that returned is kept, whatever failed before or after it: its record
\* has a line of its own, which a read returns, or names if the text has a line
\* separator, unless the failed append of a record that is not plain text has made
\* the log one that no read decodes.
THEOREM AcknowledgedRecordsAreRead ==
  AuditSpec => []AcknowledgedIsRead
  <1>1. LogInv => AcknowledgedIsRead
    BY LogInvReads, TornCharacterIsOfAFailure DEF AcknowledgedIsRead
  <1> QED
    BY <1>1, LogInvariant, PTL

\* The finding about "never fatal" has one cause: a record that is not plain text,
\* whose append failed.
THEOREM OnlyATornCharacterIsFatal ==
  AuditSpec => [](~NeverFatal => \E n \in Failed : kinds[n] = "wide")
  <1>1. LogInv => (~NeverFatal => \E n \in Failed : kinds[n] = "wide")
    BY TornCharacterIsOfAFailure DEF NeverFatal
  <1> QED
    BY <1>1, LogInvariant, PTL

\* A malformed line of text without separators is of a record whose append failed.
LEMMA MalformedIsOfAFailure ==
  ASSUME "separator" \notin Kind, LogInv, NEW i \in Malformed
  PROVE  /\ i \in DOMAIN FileLines
         /\ FileLines[i][1].rec \in Failed
  <1>1. i \in DOMAIN FileLines /\ ~Parses(FileLines[i])
    BY DEF Malformed
  <1>2. ~Broken(FileLines[i])
    <2>1. \A j \in DOMAIN FileLines[i] : kinds[FileLines[i][j].rec] # "separator"
      BY <1>1, FileLinesTyped DEF LogInv, AuditTypeOK
    <2> QED
      BY <2>1 DEF Broken
  <1>3. FileLines[i][1].size # Size
    BY <1>1, <1>2 DEF Parses, Whole, LogInv, LinesAreRecords
  <1> QED
    BY <1>1, <1>3, LineIsOneFragment

\* Unless text breaks lines, there are no more malformed lines than appends that
\* failed: the newline guard neither joins records nor adds lines.
THEOREM DamageIsNoMoreThanFailures ==
  ASSUME "separator" \notin Kind
  PROVE  AuditSpec => []DamageIsCounted
  <1>1. ASSUME LogInv
        PROVE  DamageIsCounted
    <2> DEFINE RecordOf == [i \in Malformed |-> FileLines[i][1].rec]
    <2>1. IsFiniteSet(Failed) /\ Failed \subseteq Nat
      <3>1. Len(kinds) \in Nat
        BY <1>1 DEF LogInv, AuditTypeOK
      <3>2. IsFiniteSet(1..Len(kinds)) /\ 1..Len(kinds) \subseteq Nat
        BY <3>1, FS_Interval
      <3>3. Failed \subseteq 1..Len(kinds)
        BY DEF Failed
      <3> QED
        BY <3>2, <3>3, FS_Subset
    <2>2. \A i \in Malformed : i \in DOMAIN FileLines /\ FileLines[i][1].rec \in Failed
      BY <1>1, MalformedIsOfAFailure
    <2>3. \A i, j \in Malformed : FileLines[i][1].rec = FileLines[j][1].rec => i = j
      <3> TAKE i, j \in Malformed
      <3> HAVE FileLines[i][1].rec = FileLines[j][1].rec
      <3>1. i \in Nat /\ j \in Nat /\ i \in DOMAIN FileLines /\ j \in DOMAIN FileLines
        BY <1>1, <2>2, FileLinesTyped DEF LogInv
      <3>2. FileLines[i][1].rec \in Nat
        BY <2>1, <2>2
      <3>3. ~(i < j) /\ ~(j < i)
        BY <1>1, <3>1, <3>2 DEF LogInv, LinesAreRecords
      <3> QED
        BY <3>1, <3>3
    <2>4. RecordOf \in Injection(Malformed, Failed)
      <3>1. RecordOf \in [Malformed -> Failed]
        BY <2>2
      <3>2. \A i, j \in Malformed : RecordOf[i] = RecordOf[j] => i = j
        BY <2>3
      <3> QED
        BY <3>1, <3>2 DEF Injection, IsInjective
    <2>5. Cardinality(Malformed) <= Cardinality(Failed)
      BY <2>1, <2>4, FS_Injection
    <2> QED
      BY <2>5 DEF DamageIsCounted
  <1> QED
    BY <1>1, LogInvariant, PTL

-----------------------------------------------------------------------------
(* Part 4: the log is the trail it promises.                               *)

\* Induction, of a set in place of a predicate.
LEMMA NatSetInduction ==
  ASSUME NEW S, 0 \in S, \A n \in Nat : n \in S => n + 1 \in S
  PROVE  Nat \subseteq S
  <1> DEFINE T == Nat \ S
  <1> SUFFICES ASSUME T # {} PROVE FALSE
    OBVIOUS
  <1>1. PICK x \in T : \A y \in T : ~(<<y, x>> \in OpToRel(<, Nat))
    <2>1. T \subseteq Nat
      OBVIOUS
    <2> HIDE DEF T
    <2> QED
      BY <2>1, WFMin, NatLessThanWellFounded
  <1>2. \A y \in T : ~(y < x)
    BY <1>1 DEF OpToRel
  <1>3. x # 0 /\ x - 1 \in Nat /\ x - 1 < x
    OBVIOUS
  <1> QED
    BY <1>2, <1>3

\* What one line adds to a reading, given which lines parse.
ReadOn(out, line, parses) == IF parses THEN Append(out, line[1].rec) ELSE out

\* T is a reading of the first n of the lines L, those in P being records.
Reading(T, L, P, n) ==
    T = [i \in 0..n |-> IF i = 0 THEN <<>> ELSE ReadOn(T[i - 1], L[i], i \in P)]

\* The definition of Trail is of a reading: there is one of any number of lines.
LEMMA ReadingExists ==
  ASSUME NEW L, NEW P, NEW n \in Nat
  PROVE  \E T : Reading(T, L, P, n)
  <1> DEFINE S == {k \in Nat : \E T : Reading(T, L, P, k)}
  <1>1. 0 \in S
    <2>1. Reading([i \in 0..0 |-> <<>>], L, P, 0)
      BY DEF Reading
    <2> QED
      BY <2>1
  <1>2. ASSUME NEW k \in Nat, k \in S
        PROVE  k + 1 \in S
    <2>1. PICK T : Reading(T, L, P, k)
      BY <1>2
    <2> DEFINE next == [i \in 0..(k + 1) |-> IF i = k + 1
                                             THEN ReadOn(T[k], L[k + 1], k + 1 \in P)
                                             ELSE T[i]]
    <2>2. \A i \in 0..k : T[i] = IF i = 0 THEN <<>> ELSE ReadOn(T[i - 1], L[i], i \in P)
      BY <2>1 DEF Reading
    <2>3. ASSUME NEW i \in 0..(k + 1)
          PROVE  next[i] = IF i = 0 THEN <<>> ELSE ReadOn(next[i - 1], L[i], i \in P)
      <3>1. CASE i = k + 1
        <4>1. next[k] = T[k] /\ k + 1 # 0 /\ (k + 1) - 1 = k
          OBVIOUS
        <4> QED
          BY <3>1, <4>1
      <3>2. CASE i \in 0..k
        <4>1. next[i] = T[i] /\ (i # 0 => next[i - 1] = T[i - 1])
          BY <3>2
        <4> QED
          BY <2>2, <3>2, <4>1
      <3> QED
        BY <3>1, <3>2
    <2>4. Reading(next, L, P, k + 1)
      BY <2>3 DEF Reading
    <2> QED
      BY <2>4
  <1> HIDE DEF S
  <1>3. Nat \subseteq S
    BY <1>1, <1>2, NatSetInduction
  <1> QED
    BY <1>3 DEF S

\* A reading, line by line: T[i] is what the first i lines of L hold.
Follow(T, L, n) ==
    /\ T[0] = <<>>
    /\ \A i \in 1..n : T[i] = ReadOn(T[i - 1], L[i], Whole(L[i]))

\* The trail is the end of a reading of the file.
TrailIsRead == \E T : Follow(T, FileLines, Len(FileLines)) /\ Trail = T[Len(FileLines)]

LEMMA PlainTrailIsRead ==
  ASSUME AuditTypeOK, "separator" \notin Kind
  PROVE  TrailIsRead
  <1> DEFINE N == Len(FileLines)
             P == {i \in 1..N : Parses(FileLines[i])}
             T == CHOOSE f : Reading(f, FileLines, P, N)
  <1>1. N \in Nat /\ DOMAIN FileLines = 1..N
    BY FileLinesTyped
  <1>2. Reading(T, FileLines, P, N)
    BY <1>1, ReadingExists
  <1>3. \A i \in 1..N : (i \in P) <=> Parses(FileLines[i])
    OBVIOUS
  <1>4. \A f : Reading(f, FileLines, P, N) <=>
                 f = [i \in 0..N |-> IF i = 0 THEN <<>>
                                     ELSE IF Parses(FileLines[i])
                                          THEN Append(f[i - 1], FileLines[i][1].rec)
                                     ELSE f[i - 1]]
    BY <1>1 DEF Reading, ReadOn
  <1>5. Trail = T[N]
    BY <1>4 DEF Trail
  <1>6. \A i \in 1..N : Parses(FileLines[i]) <=> Whole(FileLines[i])
    <2> TAKE i \in 1..N
    <2>1. \A n \in 1..Len(kinds) : kinds[n] # "separator"
      BY DEF AuditTypeOK
    <2>2. \A j \in DOMAIN FileLines[i] : FileLines[i][j].rec \in 1..Len(kinds)
      BY <1>1, FileLinesTyped
    <2> QED
      BY <2>1, <2>2 DEF Parses, Broken
  <1> HIDE DEF P, T
  <1>7. Follow(T, FileLines, N)
    <2> HIDE DEF N
    <2>1. \A i \in 0..N : T[i] = IF i = 0 THEN <<>> ELSE ReadOn(T[i - 1], FileLines[i], i \in P)
      BY <1>2 DEF Reading
    <2>2. T[0] = <<>>
      BY <1>1, <2>1
    <2>3. ASSUME NEW i \in 1..N
          PROVE  T[i] = ReadOn(T[i - 1], FileLines[i], Whole(FileLines[i]))
      <3>1. i \in 0..N /\ i # 0
        BY <1>1
      <3>2. T[i] = ReadOn(T[i - 1], FileLines[i], i \in P)
        BY <2>1, <3>1
      <3> QED
        BY <1>3, <1>6, <3>2 DEF ReadOn
    <2> QED
      BY <2>2, <2>3 DEF Follow
  <1> QED
    BY <1>5, <1>7 DEF TrailIsRead

\* Two readings agree as long as the lines do.
LEMMA ReadingsAgree ==
  ASSUME NEW T, NEW U, NEW L, NEW M, NEW n \in Nat,
         Follow(T, L, n), Follow(U, M, n), \A i \in 1..n : L[i] = M[i]
  PROVE  T[n] = U[n]
  <1> DEFINE S == {k \in Nat : k <= n => T[k] = U[k]}
  <1>1. 0 \in S
    BY DEF Follow
  <1>2. ASSUME NEW k \in Nat, k \in S
        PROVE  k + 1 \in S
    <2>1. CASE k + 1 <= n
      <3>1. k + 1 \in 1..n /\ (k + 1) - 1 = k /\ T[k] = U[k]
        BY <1>2, <2>1
      <3> QED
        BY <3>1 DEF Follow
    <2> QED
      BY <2>1
  <1> HIDE DEF S
  <1>3. Nat \subseteq S
    BY <1>1, <1>2, NatSetInduction
  <1> QED
    BY <1>3 DEF S

\* A reading holds what the lines do.
LEMMA ReadingTyped ==
  ASSUME NEW T, NEW L, NEW n \in Nat, NEW R,
         Follow(T, L, n), \A i \in 1..n : L[i][1].rec \in R
  PROVE  T[n] \in Seq(R)
  <1> DEFINE S == {k \in Nat : k <= n => T[k] \in Seq(R)}
  <1>1. 0 \in S
    <2>1. T[0] = <<>>
      BY DEF Follow
    <2>2. T[0] \in Seq(R)
      BY <2>1
    <2> QED
      BY <2>2
  <1>2. ASSUME NEW k \in Nat, k \in S
        PROVE  k + 1 \in S
    <2>1. CASE k + 1 <= n
      <3>1. k + 1 \in 1..n /\ (k + 1) - 1 = k /\ T[k] \in Seq(R)
        BY <1>2, <2>1
      <3>2. T[k + 1] = ReadOn(T[k], L[k + 1], Whole(L[k + 1])) /\ L[k + 1][1].rec \in R
        BY <3>1 DEF Follow
      <3>3. Append(T[k], L[k + 1][1].rec) \in Seq(R)
        BY <3>1, <3>2
      <3>4. T[k + 1] \in Seq(R)
        BY <3>1, <3>2, <3>3 DEF ReadOn
      <3> QED
        BY <3>4
    <2> QED
      BY <2>1
  <1> HIDE DEF S
  <1>3. Nat \subseteq S
    BY <1>1, <1>2, NatSetInduction
  <1> QED
    BY <1>3 DEF S

\* The line of a record in flight goes at the end of the trail if it is whole, and
\* is no part of it otherwise.
LEMMA AddedLineIsRead ==
  ASSUME LogInv, TrailIsRead, TrailIsRead', step = "write",
         NEW size \in 1..Size, FileLines' = Append(FileLines, LineOf(rec, size))
  PROVE  /\ rec \in 1..MaxRecords
         /\ Promise!Follows(rec)
         /\ Trail' = IF size = Size THEN Append(Trail, rec) ELSE Trail
  <1>1. PICK T : Follow(T, FileLines, Len(FileLines)) /\ Trail = T[Len(FileLines)]
    BY DEF TrailIsRead
  <1>2. PICK U : Follow(U, FileLines', Len(FileLines')) /\ Trail' = U[Len(FileLines')]
    BY DEF TrailIsRead
  <1> DEFINE N == Len(FileLines)
             R == 1..(rec - 1)
  <1>3. AuditTypeOK
    BY DEF LogInv
  <1>4. /\ N \in Nat /\ DOMAIN FileLines = 1..N /\ FileLines \in Seq(Line)
        /\ LineOf(rec, size) \in Line
    BY <1>3, FileLinesTyped, TextIsOwnLine DEF LineOf
  <1>5. /\ Len(FileLines') = N + 1
        /\ FileLines'[N + 1] = LineOf(rec, size)
        /\ \A i \in 1..N : FileLines[i] = FileLines'[i]
    <2> DEFINE F == FileLines
               G == Append(F, LineOf(rec, size))
    <2> HIDE DEF F
    <2>1. /\ Len(G) = Len(F) + 1 /\ G[Len(F) + 1] = LineOf(rec, size)
          /\ \A i \in 1..Len(F) : F[i] = G[i]
      BY <1>4 DEF F
    <2> QED
      BY <2>1 DEF F
  <1>6. rec = Len(kinds) /\ Len(kinds) \in Nat /\ rec \in 1..Len(kinds)
    BY DEF LogInv, AuditTypeOK, RecordIsIssued, rec
  <1>7. \A i \in 1..N : FileLines[i][1].rec \in R
    <2> TAKE i \in 1..N
    <2>1. Len(FileLines[i]) = 1
      BY <1>4 DEF LogInv, LinesAreRecords
    <2>2. FileLines[i][1].rec \in 1..Len(kinds)
      BY <1>3, <1>4, <2>1, FileLinesTyped
    <2>3. FileLines[i][1].rec # rec
      BY <1>4 DEF LogInv, InFlightIsNew
    <2> QED
      BY <1>6, <2>2, <2>3
  <1> HIDE DEF N, R
  <1>8. Trail \in Seq(R)
    BY <1>1, <1>4, <1>7, ReadingTyped DEF N
  <1>9. Promise!Follows(rec)
    <2>1. \A i \in DOMAIN Trail : Trail[i] \in R
      BY <1>8
    <2>2. \A r \in R : r < rec
      BY <1>6 DEF R
    <2> QED
      BY <2>1, <2>2 DEF Promise!Follows
  <1>10. /\ Follow(U, FileLines', N)
         /\ U[N + 1] = ReadOn(U[N], LineOf(rec, size), Whole(LineOf(rec, size)))
    <2>1. N + 1 \in 1..(N + 1) /\ (N + 1) - 1 = N /\ 1..N \subseteq 1..(N + 1)
      BY <1>4
    <2> QED
      BY <1>2, <1>5, <2>1 DEF Follow
  <1>11. U[N] = Trail
    BY <1>1, <1>4, <1>5, <1>10, ReadingsAgree DEF N
  <1>12. /\ Whole(LineOf(rec, size)) <=> size = Size
         /\ LineOf(rec, size)[1].rec = rec
    BY DEF Whole, LineOf
  <1>13. Trail' = IF size = Size THEN Append(Trail, rec) ELSE Trail
    BY <1>2, <1>5, <1>10, <1>11, <1>12 DEF ReadOn
  <1>14. rec \in 1..MaxRecords
    BY <1>3, <1>6, AuditAssumption DEF AuditTypeOK
  <1> QED
    BY <1>9, <1>13, <1>14

\* The same file reads the same.
LEMMA SameLinesSameTrail ==
  ASSUME AuditTypeOK, TrailIsRead, TrailIsRead', FileLines' = FileLines
  PROVE  Trail' = Trail
  <1>1. PICK T : Follow(T, FileLines, Len(FileLines)) /\ Trail = T[Len(FileLines)]
    BY DEF TrailIsRead
  <1>2. PICK U : Follow(U, FileLines, Len(FileLines)) /\ Trail' = U[Len(FileLines)]
    BY DEF TrailIsRead
  <1>3. Len(FileLines) \in Nat
    BY FileLinesTyped
  <1> QED
    BY <1>1, <1>2, <1>3, ReadingsAgree

\* A record goes at the end of the trail and into the set of the confirmed in one
\* step, or goes there unconfirmed, or the reader sees nothing of the step.
LEMMA StepOfTrail ==
  ASSUME LogInv, TrailIsRead, TrailIsRead', [AuditNext]_logVars
  PROVE  [Promise!Next]_(Promise!trailVars)
  <1>1. Size \in 1..Size
    BY AuditAssumption
  <1>2. CASE FileLines' = FileLines /\ acknowledged' = acknowledged
    <2>1. Trail' = Trail
      BY <1>2, SameLinesSameTrail DEF LogInv
    <2> QED
      BY <1>2, <2>1 DEF Promise!trailVars
  <1>3. ASSUME NEW size \in 1..Size, step = "write",
               FileLines' = Append(FileLines, LineOf(rec, size)),
               \/ acknowledged' = acknowledged
               \/ acknowledged' = acknowledged \union {rec} /\ size = Size
        PROVE  [Promise!Next]_(Promise!trailVars)
    <2>1. /\ rec \in 1..MaxRecords
          /\ Promise!Follows(rec)
          /\ Trail' = IF size = Size THEN Append(Trail, rec) ELSE Trail
      BY <1>3, AddedLineIsRead
    <2> QED
      BY <1>3, <2>1 DEF Promise!Next, Promise!Confirm, Promise!Fail, Promise!trailVars
  <1>4. ASSUME NEW kind \in Kind, CheckTail(kind)
        PROVE  FileLines' = FileLines /\ acknowledged' = acknowledged
    BY <1>4 DEF CheckTail, FileLines
  <1>5. ASSUME Write
        PROVE  [Promise!Next]_(Promise!trailVars)
    <2>1. FileLines' = Append(FileLines, LineOf(rec, Size))
      BY <1>5, WriteAddsItsLine DEF Write
    <2> QED
      BY <1>1, <1>3, <1>5, <2>1 DEF Write
  <1>6. ASSUME WriteFails
        PROVE  [Promise!Next]_(Promise!trailVars)
    <2>1. /\ step = "write" /\ acknowledged' = acknowledged
          /\ \/ FileLines' = FileLines
             \/ \E size \in 1..Size : FileLines' = Append(FileLines, LineOf(rec, size))
      BY <1>1, <1>6, WriteAddsItsLine DEF WriteFails
    <2> QED
      BY <1>2, <1>3, <2>1
  <1>7. CASE UNCHANGED logVars
    BY <1>2, <1>7 DEF logVars, FileLines
  <1> QED
    BY <1>2, <1>4, <1>5, <1>6, <1>7 DEF AuditNext

\* The lines of a log whose text has no line separators are the trail of AuditTrail:
\* it only grows, in the order of the calls, each record whole and once, and a record
\* is confirmed as it gets there.
THEOREM LogImplementsTrail ==
  ASSUME "separator" \notin Kind
  PROVE  AuditSpec => KeepsTrail
  <1>1. AuditInit => Promise!Init
    <2> SUFFICES ASSUME AuditInit PROVE Promise!Init
      OBVIOUS
    <2>1. FileLines = <<>> /\ acknowledged = {}
      BY DEF AuditInit, FileLines
    <2>2. LogInv
      BY LogInitially
    <2>3. TrailIsRead
      BY <2>2, PlainTrailIsRead DEF LogInv
    <2>4. Trail = <<>>
      BY <2>1, <2>3 DEF TrailIsRead, Follow
    <2> QED
      BY <2>1, <2>4 DEF Promise!Init
  <1>2. LogInv => TrailIsRead
    BY PlainTrailIsRead DEF LogInv
  <1>3. LogInv /\ TrailIsRead /\ TrailIsRead' /\ [AuditNext]_logVars
          => [Promise!Next]_(Promise!trailVars)
    BY StepOfTrail
  <1>4. AuditSpec => []LogInv
    BY LogInvariant
  <1> QED
    BY <1>1, <1>2, <1>3, <1>4, PTL DEF AuditSpec, KeepsTrail, Promise!Spec
-----------------------------------------------------------------------------
(* Part 5: appends of several processes, that overlap as they like.        *)

\* A record has pieces.
LEMMA RecordHasPieces ==
  ASSUME SharedTypeOK, NEW n \in 1..Len(lengths)
  PROVE  lengths[n] \in Nat /\ lengths[n] > 0
  <1>1. lengths[n] \in Lengths
    BY DEF SharedTypeOK
  <1>2. lengths[n] \in Nat \ {0}
    BY <1>1, SharedAssumption
  <1> QED
    BY <1>2

\* The line of an append in flight is of its record's pieces.
LEMMA LineTyped ==
  ASSUME SharedTypeOK, NEW p \in Process, phase[p] # "idle"
  PROVE  /\ mine[p] \in 1..Len(lengths) /\ Len(lengths) \in Nat
         /\ lengths[mine[p]] \in Nat /\ lengths[mine[p]] > 0
         /\ LineLength(p) \in Nat
         /\ LineLength(p) = lengths[mine[p]] + (IF lead[p] THEN 2 ELSE 1)
         /\ \A i \in Nat : LineCell(p, i) \in Cell
  <1>1. mine[p] \in 1..Len(lengths) /\ lengths \in Seq(Lengths) /\ Len(lengths) \in Nat
    BY DEF SharedTypeOK
  <1>2. lengths[mine[p]] \in Nat /\ lengths[mine[p]] > 0
    BY <1>1, RecordHasPieces
  <1>3. /\ LineLength(p) \in Nat
        /\ LineLength(p) = lengths[mine[p]] + (IF lead[p] THEN 2 ELSE 1)
    BY <1>2 DEF LineLength
  <1>4. ASSUME NEW i \in Nat
        PROVE  LineCell(p, i) \in Cell
    <2> DEFINE part == IF lead[p] THEN i - 1 ELSE i
    <2>1. part \in 1..lengths[mine[p]] => part \in Nat
      BY <1>2
    <2>2. mine[p] \in Nat
      BY <1>1
    <2>3. LineCell(p, i) = IF part \in 1..lengths[mine[p]]
                             THEN [rec |-> mine[p], part |-> part] ELSE Newline
      BY DEF LineCell
    <2> HIDE DEF part
    <2> QED
      BY <2>1, <2>2, <2>3 DEF Cell, Newline
  <1> QED
    BY <1>1, <1>2, <1>3, <1>4

\* A write in flight.
Writing(p, upTo) ==
    /\ p \in Process /\ phase[p] = "put"
    /\ upTo \in (sent[p] + 1)..LineLength(p)

\* Where it ends.
EndOf(p, upTo) == offset[p] + (upTo - sent[p])

\* A write keeps what is before its offset, and the file does not get shorter.
LEMMA WriteKeepsWhatIsBefore ==
  ASSUME SharedTypeOK, NEW p, NEW upTo, Writing(p, upTo)
  PROVE  /\ Overwritten(p, upTo) \in Seq(Cell)
         /\ Len(Overwritten(p, upTo)) \in Nat /\ EndOf(p, upTo) \in Nat
         /\ Len(Overwritten(p, upTo)) =
              (IF EndOf(p, upTo) > Len(file) THEN EndOf(p, upTo) ELSE Len(file))
         /\ Len(Overwritten(p, upTo)) >= Len(file)
         /\ \A i \in 1..offset[p] : Overwritten(p, upTo)[i] = file[i]
         /\ \A i \in (offset[p] + 1)..EndOf(p, upTo) :
               Overwritten(p, upTo)[i] = LineCell(p, sent[p] + (i - offset[p]))
  <1> DEFINE end == EndOf(p, upTo)
             size == IF end > Len(file) THEN end ELSE Len(file)
             cell(i) == IF i \in (offset[p] + 1)..end
                          THEN LineCell(p, sent[p] + (i - offset[p])) ELSE file[i]
             new == Overwritten(p, upTo)
  <1>1. p \in Process /\ phase[p] # "idle"
    BY DEF Writing
  <1>2. /\ file \in Seq(Cell) /\ Len(file) \in Nat
        /\ offset[p] \in 0..Len(file) /\ sent[p] \in Nat
    BY <1>1 DEF SharedTypeOK
  <1>3. LineLength(p) \in Nat /\ \A i \in Nat : LineCell(p, i) \in Cell
    BY <1>1, LineTyped
  <1>4. /\ upTo \in Nat /\ upTo > sent[p]
        /\ end \in Nat /\ end = offset[p] + (upTo - sent[p]) /\ end > offset[p]
    BY <1>2, <1>3 DEF Writing, EndOf
  <1>5. size \in Nat /\ size >= Len(file) /\ size >= end
    BY <1>2, <1>4
  <1>6. new = [i \in 1..size |-> cell(i)]
    BY DEF Overwritten, EndOf
  <1>7. ASSUME NEW i \in 1..size
        PROVE  cell(i) \in Cell
    <2>1. CASE i \in (offset[p] + 1)..end
      <3>1. sent[p] + (i - offset[p]) \in Nat
        BY <1>2, <1>4, <2>1
      <3> QED
        BY <1>3, <2>1, <3>1
    <2>2. CASE i \notin (offset[p] + 1)..end
      <3>1. i \in 1..Len(file)
        BY <1>2, <1>4, <1>5, <2>2
      <3> QED
        BY <1>2, <2>2, <3>1
    <2> QED
      BY <2>1, <2>2
  <1> HIDE DEF end, cell, new
  <1>8. new \in Seq(Cell) /\ Len(new) = size
    <2> HIDE DEF size
    <2>1. new \in [1..size -> Cell]
      BY <1>6, <1>7
    <2> QED
      BY <1>5, <2>1
  <1>9. \A i \in 1..offset[p] : new[i] = file[i]
    <2> TAKE i \in 1..offset[p]
    <2>1. i \in 1..size /\ i \notin (offset[p] + 1)..end
      BY <1>2, <1>4, <1>5
    <2> QED
      BY <1>6, <2>1 DEF cell
  <1>10. \A i \in (offset[p] + 1)..end : new[i] = LineCell(p, sent[p] + (i - offset[p]))
    <2> TAKE i \in (offset[p] + 1)..end
    <2>1. i \in 1..size
      BY <1>2, <1>4, <1>5
    <2> QED
      BY <1>6, <2>1 DEF cell
  <1> QED
    BY <1>4, <1>5, <1>8, <1>9, <1>10 DEF end, new

\* A line that no write reaches stays.
LEMMA LineStays ==
  ASSUME SharedTypeOK, NEW n \in 1..Len(lengths), NEW s \in 0..Len(file), LineAt(n, s),
         lengths'[n] = lengths[n], Len(file') \in Nat, Len(file') >= Len(file),
         \A i \in 1..(s + lengths[n] + 1) : file'[i] = file[i]
  PROVE  LineAt(n, s)' /\ s \in 0..Len(file')
  <1>1. lengths[n] \in Nat /\ lengths[n] > 0 /\ Len(file) \in Nat
    BY RecordHasPieces DEF SharedTypeOK
  <1>2. s + lengths[n] + 1 <= Len(file')
    BY <1>1 DEF LineAt
  <1>3. s = 0 \/ file'[s] = Newline
    <2>1. s = 0 \/ s \in 1..(s + lengths[n] + 1)
      BY <1>1
    <2> QED
      BY <2>1 DEF LineAt
  <1>4. \A part \in 1..lengths[n] : file'[s + part] = [rec |-> n, part |-> part]
    <2> TAKE part \in 1..lengths[n]
    <2>1. s + part \in 1..(s + lengths[n] + 1)
      BY <1>1
    <2>2. file[s + part] = [rec |-> n, part |-> part]
      BY DEF LineAt
    <2> QED
      BY <2>1, <2>2
  <1>5. file'[s + lengths[n] + 1] = Newline
    <2>1. s + lengths[n] + 1 \in 1..(s + lengths[n] + 1)
      BY <1>1
    <2> QED
      BY <2>1 DEF LineAt
  <1>6. s \in 0..Len(file')
    BY <1>1
  <1> QED
    BY <1>2, <1>3, <1>4, <1>5, <1>6 DEF LineAt

\* No write is in flight into a line that an append put down alone.
Placed(n) == \E s \in 0..Len(file) : Safe(n, s)

\* A step of another append leaves such a line there.
LEMMA PlacedStays ==
  ASSUME SharedTypeOK, SharedTypeOK', NEW n \in 1..Len(lengths), Placed(n),
         lengths'[n] = lengths[n], Len(file') >= Len(file),
         NEW p \in Process,
         \A i \in 1..Len(file) : file'[i] = file[i] \/ (phase[p] = "put" /\ i > offset[p]),
         \A q \in Process : phase'[q] = "put" =>
              offset'[q] >= Len(file) \/ (phase[q] = "put" /\ offset'[q] = offset[q])
  PROVE  Placed(n)'
  <1>1. PICK s \in 0..Len(file) : Safe(n, s)
    BY DEF Placed
  <1>2. /\ Len(file) \in Nat /\ lengths[n] \in Nat /\ lengths[n] > 0
        /\ \A q \in Process : offset[q] \in Nat /\ offset'[q] \in Nat
    <2>1. /\ Len(file) \in Nat /\ Len(file') \in Nat
          /\ offset \in [Process -> 0..Len(file)] /\ offset' \in [Process -> 0..Len(file')]
      BY DEF SharedTypeOK
    <2>2. \A q \in Process : offset[q] \in 0..Len(file) /\ offset'[q] \in 0..Len(file')
      BY <2>1
    <2> QED
      BY <2>1, <2>2, RecordHasPieces
  <1> DEFINE end == s + lengths[n] + 1
  <1>3. /\ LineAt(n, s) /\ end \in Nat /\ end <= Len(file)
        /\ \A q \in Process : phase[q] = "put" => offset[q] >= end
    BY <1>1, <1>2 DEF Safe, LineAt
  <1>4. \A i \in 1..end : file'[i] = file[i]
    <2> TAKE i \in 1..end
    <2>1. i \in 1..Len(file) /\ (phase[p] = "put" => ~(i > offset[p]))
      BY <1>2, <1>3
    <2> QED
      BY <2>1
  <1>5. LineAt(n, s)' /\ s \in 0..Len(file')
    <2>1. Len(file') \in Nat
      BY DEF SharedTypeOK
    <2> QED
      BY <1>3, <1>4, <2>1, LineStays
  <1>6. \A q \in Process : phase'[q] = "put" => offset'[q] >= s + lengths'[n] + 1
    <2> TAKE q \in Process
    <2> HAVE phase'[q] = "put"
    <2>1. CASE offset'[q] >= Len(file)
      <3>1. Len(file) >= end
        BY <1>2, <1>3
      <3>2. offset'[q] >= end
        BY <1>2, <1>3, <2>1, <3>1
      <3> QED
        BY <3>2
    <2>2. CASE phase[q] = "put" /\ offset'[q] = offset[q]
      BY <1>3, <2>2
    <2> QED
      BY <2>1, <2>2
  <1> QED
    BY <1>5, <1>6 DEF Placed, Safe

\* The guard's look issues a record, and says of it and of the others in flight that
\* they overlap, if there are others.
LEMMA LookKeepsInv ==
  ASSUME SharedInv, NEW p \in Process, NEW length \in Lengths, Look(p, length)
  PROVE  SharedInv'
  <1> DEFINE n == Len(lengths) + 1
  <1>1. SharedTypeOK
    BY DEF SharedInv
  <1>2. /\ lengths \in Seq(Lengths) /\ Len(lengths) \in Nat /\ Len(lengths) < MaxAppends
        /\ lengths' = Append(lengths, length) /\ MaxAppends \in Nat
        /\ file' = file /\ offset' = offset /\ returned' = returned
        /\ phase[p] = "idle"
    BY <1>1, SharedAssumption DEF SharedTypeOK, Look
  <1>3. /\ Len(lengths') = n /\ lengths' \in Seq(Lengths) /\ lengths'[n] = length
        /\ \A m \in 1..Len(lengths) : lengths'[m] = lengths[m]
        /\ n \in Nat /\ n > 0 /\ n <= MaxAppends
    BY <1>2
  <1>4. /\ phase' = [phase EXCEPT ![p] = "seek"]
        /\ mine' = [mine EXCEPT ![p] = n]
        /\ lead' = [lead EXCEPT ![p] = TailLacksNewline]
        /\ sent' = [sent EXCEPT ![p] = 0]
        /\ overlapped' = overlapped \union
              IF Busy = {} THEN {} ELSE {n} \union {mine[q] : q \in Busy}
    BY <1>3 DEF Look
  <1> HIDE DEF n
  <1>5. /\ phase' \in [Process -> {"idle", "seek", "put"}]
        /\ mine' \in [Process -> 0..n]
        /\ lead' \in [Process -> BOOLEAN]
        /\ sent' \in [Process -> Nat]
        /\ phase'[p] = "seek" /\ mine'[p] = n /\ sent'[p] = 0 /\ lead'[p] = TailLacksNewline
        /\ \A q \in Process : q # p =>
              phase'[q] = phase[q] /\ mine'[q] = mine[q]
    <2>1. 0..Len(lengths) \subseteq 0..n /\ n \in 0..n
      BY <1>2, <1>3 DEF n
    <2>2. TailLacksNewline \in BOOLEAN
      BY DEF TailLacksNewline
    <2> QED
      BY <1>1, <1>4, <2>1, <2>2 DEF SharedTypeOK
  <1>6. \A q \in Busy : mine[q] \in 1..Len(lengths)
    BY <1>1, LineTyped DEF Busy
  <1>7. overlapped' \subseteq 1..n /\ returned' \subseteq 1..n
    <2>1. 1..Len(lengths) \subseteq 1..n /\ n \in 1..n
      BY <1>2, <1>3 DEF n
    <2> QED
      BY <1>1, <1>2, <1>4, <1>6, <2>1 DEF SharedTypeOK
  <1>8. SharedTypeOK'
    <2>1. \A q \in Process : phase'[q] # "idle" => mine'[q] # 0
      <3> TAKE q \in Process
      <3>1. CASE q = p
        BY <1>3, <1>5, <3>1
      <3>2. CASE q # p
        BY <1>1, <1>5, <3>2 DEF SharedTypeOK
      <3> QED
        BY <3>1, <3>2
    <2> QED
      BY <1>1, <1>2, <1>3, <1>5, <1>7, <2>1 DEF SharedTypeOK
  <1>9. CASE Busy = {}
    <2>1. Busy' = {p} /\ overlapped' = overlapped
      BY <1>4, <1>5, <1>9 DEF Busy
    <2>2. HasTheEnd(p)'
      <3>1. /\ file \in Seq(Cell) /\ Len(file) \in Nat
        BY <1>1 DEF SharedTypeOK
      <3>2. lead'[p] \/ Len(file) = 0 \/ file[Len(file)] = Newline
        BY <1>5, <3>1 DEF TailLacksNewline
      <3>3. LineLength(p)' \in Nat
        <4>1. length \in Nat
          BY SharedAssumption
        <4> QED
          BY <1>3, <1>5, <4>1 DEF LineLength
      <3> QED
        BY <1>2, <1>5, <3>1, <3>2, <3>3 DEF HasTheEnd
    <2>3. AloneHasTheEnd'
      BY <2>1, <2>2 DEF AloneHasTheEnd
    <2>4. ASSUME NEW m \in returned \ overlapped
          PROVE  Placed(m)'
      <3>1. Placed(m) /\ m \in 1..Len(lengths)
        BY <1>1, <2>4 DEF SharedInv, Placed, SharedTypeOK
      <3>2. Len(file) \in Nat /\ Len(file') >= Len(file)
        BY <1>1, <1>2 DEF SharedTypeOK
      <3>3. \A q \in Process : phase'[q] # "put"
        BY <1>5, <1>9 DEF Busy
      <3> QED
        BY <1>1, <1>2, <1>3, <1>8, <3>1, <3>2, <3>3, PlacedStays
    <2> QED
      BY <1>2, <1>8, <2>1, <2>3, <2>4 DEF SharedInv, Placed
  <1>10. CASE Busy # {}
    <2>1. overlapped' = overlapped \union ({n} \union {mine[q] : q \in Busy})
      BY <1>4, <1>10
    <2>2. \A q \in Busy' : mine'[q] \in overlapped'
      BY <1>5, <2>1 DEF Busy
    <2>3. AloneHasTheEnd'
      BY <2>2 DEF AloneHasTheEnd
    <2>4. ASSUME NEW m \in returned \ overlapped
          PROVE  Placed(m)'
      <3>1. Placed(m) /\ m \in 1..Len(lengths)
        BY <1>1, <2>4 DEF SharedInv, Placed, SharedTypeOK
      <3>2. Len(file) \in Nat /\ Len(file') >= Len(file)
        BY <1>1, <1>2 DEF SharedTypeOK
      <3>3. \A q \in Process : phase'[q] = "put" => phase[q] = "put"
        BY <1>5
      <3> QED
        BY <1>1, <1>2, <1>3, <1>8, <3>1, <3>2, <3>3, PlacedStays
    <2> QED
      BY <1>2, <1>8, <2>1, <2>3, <2>4 DEF SharedInv, Placed
  <1> QED
    BY <1>9, <1>10

\* A seek to the end is past every line there.
LEMMA SeekKeepsInv ==
  ASSUME SharedInv, NEW p \in Process, Seek(p)
  PROVE  SharedInv'
  <1>1. SharedTypeOK
    BY DEF SharedInv
  <1>2. /\ phase[p] = "seek"
        /\ offset' = [offset EXCEPT ![p] = Len(file)]
        /\ phase' = [phase EXCEPT ![p] = "put"]
        /\ UNCHANGED <<file, lengths, mine, lead, sent, returned, overlapped>>
    BY DEF Seek
  <1>3. /\ phase' \in [Process -> {"idle", "seek", "put"}]
        /\ offset' \in [Process -> 0..Len(file)]
        /\ phase'[p] = "put" /\ offset'[p] = Len(file) /\ Len(file) \in Nat
        /\ \A q \in Process : q # p => phase'[q] = phase[q] /\ offset'[q] = offset[q]
    BY <1>1, <1>2 DEF SharedTypeOK
  <1>4. SharedTypeOK'
    BY <1>1, <1>2, <1>3 DEF SharedTypeOK
  <1>5. Busy' = Busy
    BY <1>2, <1>3 DEF Busy
  <1>6. AloneHasTheEnd'
    <2> SUFFICES ASSUME NEW q \in Busy, mine[q] \notin overlapped
                 PROVE  Busy = {q} /\ HasTheEnd(q)'
      BY <1>2, <1>5 DEF AloneHasTheEnd
    <2>1. Busy = {q} /\ HasTheEnd(q)
      BY DEF SharedInv, AloneHasTheEnd
    <2>2. q = p
      BY <1>2, <2>1 DEF Busy
    <2>3. LineLength(q)' = LineLength(q) /\ \A i \in 1..sent[q] : LineCell(q, i)' = LineCell(q, i)
      BY <1>2 DEF LineLength, LineCell
    <2> QED
      BY <1>2, <1>3, <2>1, <2>2, <2>3 DEF HasTheEnd
  <1>7. ASSUME NEW m \in returned \ overlapped
        PROVE  Placed(m)'
    <2>1. Placed(m) /\ m \in 1..Len(lengths)
      BY <1>1, <1>7 DEF SharedInv, Placed, SharedTypeOK
    <2>2. Len(file') >= Len(file)
      BY <1>2, <1>3
    <2>3. \A q \in Process : phase'[q] = "put" =>
              offset'[q] >= Len(file) \/ (phase[q] = "put" /\ offset'[q] = offset[q])
      BY <1>3
    <2> QED
      BY <1>1, <1>2, <1>4, <2>1, <2>2, <2>3, PlacedStays
  <1> QED
    BY <1>2, <1>4, <1>6, <1>7 DEF SharedInv, Placed

\* A write of an append that has the log to itself goes at the end of what it sent;
\* no write reaches back into a line that is placed.
LEMMA PutKeepsInv ==
  ASSUME SharedInv, NEW p \in Process, Put(p)
  PROVE  SharedInv'
  <1>1. SharedTypeOK
    BY DEF SharedInv
  <1>2. PICK upTo \in (sent[p] + 1)..LineLength(p) :
             file' = Overwritten(p, upTo) /\ sent' = [sent EXCEPT ![p] = upTo]
    BY DEF Put
  <1>3. /\ phase[p] = "put"
        /\ phase' = [phase EXCEPT ![p] = "seek"]
        /\ UNCHANGED <<lengths, mine, lead, offset, returned, overlapped>>
    BY DEF Put
  <1>4. /\ file \in Seq(Cell) /\ Len(file) \in Nat
        /\ offset[p] \in 0..Len(file) /\ sent[p] \in Nat
    BY <1>1 DEF SharedTypeOK
  <1>5. LineLength(p) \in Nat /\ upTo \in Nat /\ upTo > sent[p] /\ upTo <= LineLength(p)
    BY <1>1, <1>2, <1>3, <1>4, LineTyped
  <1>6. Writing(p, upTo)
    BY <1>2, <1>3 DEF Writing
  <1> DEFINE end == EndOf(p, upTo)
  <1>7. /\ file' \in Seq(Cell) /\ Len(file') \in Nat /\ end \in Nat
        /\ Len(file') = (IF end > Len(file) THEN end ELSE Len(file))
        /\ Len(file') >= Len(file)
        /\ \A i \in 1..offset[p] : file'[i] = file[i]
        /\ \A i \in (offset[p] + 1)..end : file'[i] = LineCell(p, sent[p] + (i - offset[p]))
    BY <1>1, <1>2, <1>6, WriteKeepsWhatIsBefore
  <1>8. end = offset[p] + (upTo - sent[p])
    BY DEF EndOf
  <1> HIDE DEF end
  <1>9. /\ phase' \in [Process -> {"idle", "seek", "put"}] /\ phase'[p] = "seek"
        /\ \A q \in Process : q # p => phase'[q] = phase[q]
        /\ sent' \in [Process -> Nat] /\ sent'[p] = upTo
    BY <1>1, <1>2, <1>3, <1>5 DEF SharedTypeOK
  <1>10. SharedTypeOK'
    <2>1. offset' \in [Process -> 0..Len(file')]
      <3>1. 0..Len(file) \subseteq 0..Len(file')
        BY <1>4, <1>7
      <3> QED
        BY <1>1, <1>3, <3>1 DEF SharedTypeOK
    <2>2. \A q \in Process : phase'[q] # "idle" => mine'[q] # 0
      BY <1>1, <1>3, <1>9 DEF SharedTypeOK
    <2> QED
      BY <1>1, <1>3, <1>7, <1>9, <2>1, <2>2 DEF SharedTypeOK
  <1>11. Busy' = Busy
    BY <1>3, <1>9 DEF Busy
  <1>12. AloneHasTheEnd'
    <2> SUFFICES ASSUME NEW q \in Busy, mine[q] \notin overlapped
                 PROVE  Busy = {q} /\ HasTheEnd(q)'
      BY <1>3, <1>11 DEF AloneHasTheEnd
    <2>1. Busy = {q} /\ HasTheEnd(q)
      BY DEF SharedInv, AloneHasTheEnd
    <2>2. q = p
      BY <1>3, <2>1 DEF Busy
    <2>3. /\ LineLength(p)' = LineLength(p)
          /\ \A i \in 1..upTo : LineCell(p, i)' = LineCell(p, i)
      BY <1>3 DEF LineLength, LineCell
    <2> DEFINE start == Len(file) - sent[p]
    <2>4. /\ sent[p] <= Len(file) /\ offset[p] = Len(file)
          /\ \A i \in 1..sent[p] : file[start + i] = LineCell(p, i)
          /\ lead[p] \/ start = 0 \/ file[start] = Newline
      BY <1>3, <2>1, <2>2 DEF HasTheEnd
    <2>5. start \in Nat /\ start + sent[p] = Len(file)
      BY <1>4, <2>4
    <2>6. Len(file') = end /\ end = Len(file) + (upTo - sent[p]) /\ end - upTo = start
      BY <1>4, <1>5, <1>7, <1>8, <2>4
    <2> HIDE DEF start
    <2>7. ASSUME NEW i \in 1..upTo
          PROVE  file'[start + i] = LineCell(p, i)
      <3>1. CASE i \in 1..sent[p]
        <4>1. start + i \in 1..offset[p]
          BY <1>4, <2>4, <2>5, <3>1
        <4>2. file[start + i] = LineCell(p, i)
          BY <2>4, <3>1
        <4> QED
          BY <1>7, <4>1, <4>2
      <3>2. CASE i \notin 1..sent[p]
        <4>0. /\ i \in Nat /\ i > sent[p] /\ i <= upTo
              /\ offset[p] = Len(file) /\ end = Len(file) + (upTo - sent[p])
          BY <1>4, <1>5, <2>4, <2>6, <3>2
        <4>1. start + i \in (offset[p] + 1)..end /\ sent[p] + ((start + i) - offset[p]) = i
          <5> DEFINE L == Len(file)
                     S == sent[p]
          <5>1. L \in Nat /\ S \in Nat /\ start + S = L /\ start \in Nat
            BY <1>4, <2>5
          <5> HIDE DEF L, S
          <5>2. i \in Nat /\ i > S /\ i <= upTo /\ upTo \in Nat
            BY <1>5, <4>0 DEF S
          <5>3. start + i \in (L + 1)..(L + (upTo - S)) /\ S + ((start + i) - L) = i
            BY <5>1, <5>2
          <5> QED
            BY <4>0, <5>3 DEF L, S
        <4>2. file'[start + i] = LineCell(p, sent[p] + ((start + i) - offset[p]))
          BY <1>7, <4>1
        <4> QED
          BY <4>1, <4>2
      <3> QED
        BY <3>1, <3>2
    <2>8. lead[p] \/ start = 0 \/ file'[start] = Newline
      <3>1. start = 0 \/ start \in 1..offset[p]
        BY <1>4, <2>4, <2>5
      <3> QED
        BY <1>7, <2>4, <3>1
    <2>9. upTo <= Len(file')
      BY <1>5, <2>5, <2>6, <1>7
    <2>10. HasTheEnd(p)'
      BY <1>3, <1>5, <1>9, <2>3, <2>6, <2>7, <2>8, <2>9 DEF HasTheEnd
    <2> QED
      BY <2>1, <2>2, <2>10
  <1>13. ASSUME NEW m \in returned \ overlapped
         PROVE  Placed(m)'
    <2>1. Placed(m) /\ m \in 1..Len(lengths)
      BY <1>1, <1>13 DEF SharedInv, Placed, SharedTypeOK
    <2>2. \A i \in 1..Len(file) : file'[i] = file[i] \/ (phase[p] = "put" /\ i > offset[p])
      BY <1>3, <1>4, <1>7
    <2>3. \A q \in Process : phase'[q] = "put" => (phase[q] = "put" /\ offset'[q] = offset[q])
      BY <1>3, <1>9
    <2> QED
      BY <1>1, <1>3, <1>7, <1>10, <2>1, <2>2, <2>3, PlacedStays
  <1> QED
    BY <1>3, <1>10, <1>12, <1>13 DEF SharedInv, Placed

\* The end of an append, whether it returns or not.
LEMMA EndKeepsPlaces ==
  ASSUME SharedInv, NEW p \in Process, phase[p] # "idle", End(p),
         returned' \subseteq 1..Len(lengths)
  PROVE  /\ SharedTypeOK' /\ AloneHasTheEnd'
         /\ \A q \in Process : phase'[q] = "put" => q # p /\ phase[q] = "put"
         /\ \A m \in returned \ overlapped : Placed(m)'
  <1>1. SharedTypeOK
    BY DEF SharedInv
  <1>2. /\ phase' = [phase EXCEPT ![p] = "idle"] /\ mine' = [mine EXCEPT ![p] = 0]
        /\ lead' = [lead EXCEPT ![p] = FALSE] /\ sent' = [sent EXCEPT ![p] = 0]
        /\ offset' = [offset EXCEPT ![p] = 0]
        /\ UNCHANGED <<file, lengths, overlapped>>
    BY DEF End
  <1>3. /\ phase' \in [Process -> {"idle", "seek", "put"}] /\ phase'[p] = "idle"
        /\ mine' \in [Process -> 0..Len(lengths)] /\ offset' \in [Process -> 0..Len(file)]
        /\ lead' \in [Process -> BOOLEAN] /\ sent' \in [Process -> Nat]
        /\ \A q \in Process : q # p =>
              phase'[q] = phase[q] /\ mine'[q] = mine[q] /\ offset'[q] = offset[q]
    <2>1. 0 \in 0..Len(lengths) /\ 0 \in 0..Len(file)
      BY <1>1 DEF SharedTypeOK
    <2> QED
      BY <1>1, <1>2, <2>1 DEF SharedTypeOK
  <1>4. \A q \in Process : phase'[q] # "idle" => mine'[q] # 0
    BY <1>1, <1>3 DEF SharedTypeOK
  <1>5. SharedTypeOK'
    BY <1>1, <1>2, <1>3, <1>4 DEF SharedTypeOK
  <1>6. AloneHasTheEnd'
    <2> SUFFICES ASSUME NEW q \in Busy', mine'[q] \notin overlapped PROVE FALSE
      BY <1>2 DEF AloneHasTheEnd
    <2>1. q \in Busy /\ q # p /\ mine'[q] = mine[q] /\ p \in Busy
      BY <1>3 DEF Busy
    <2>2. Busy = {q}
      BY <2>1 DEF SharedInv, AloneHasTheEnd
    <2> QED
      BY <2>1, <2>2
  <1>7. \A q \in Process : phase'[q] = "put" => q # p /\ phase[q] = "put"
    BY <1>3
  <1>8. ASSUME NEW m \in returned \ overlapped
        PROVE  Placed(m)'
    <2>1. Placed(m) /\ m \in 1..Len(lengths)
      BY <1>1, <1>8 DEF SharedInv, Placed, SharedTypeOK
    <2>2. Len(file') >= Len(file)
      BY <1>1, <1>2 DEF SharedTypeOK
    <2>3. \A q \in Process : phase'[q] = "put" => (phase[q] = "put" /\ offset'[q] = offset[q])
      BY <1>3, <1>7
    <2> QED
      BY <1>1, <1>2, <1>5, <2>1, <2>2, <2>3, PlacedStays
  <1> QED
    BY <1>5, <1>6, <1>7, <1>8

\* An append that had the log to itself leaves its line placed when it returns.
LEMMA ReturnKeepsInv ==
  ASSUME SharedInv, NEW p \in Process, Return(p)
  PROVE  SharedInv'
  <1>1. SharedTypeOK
    BY DEF SharedInv
  <1>2. /\ phase[p] = "seek" /\ sent[p] = LineLength(p) /\ End(p)
        /\ returned' = returned \union {mine[p]}
        /\ UNCHANGED <<file, lengths, overlapped>>
    BY DEF Return, End
  <1>3. PICK n \in 1..Len(lengths) : n = mine[p]
    BY <1>1, <1>2, LineTyped
  <1>4. PICK k \in {0, 1} : k = IF lead[p] THEN 1 ELSE 0
    OBVIOUS
  <1>5. /\ lengths[n] \in Nat /\ lengths[n] > 0
        /\ LineLength(p) = lengths[n] + 1 + k
    BY <1>1, <1>2, <1>3, <1>4, LineTyped
  <1>6. \A i \in Nat : LineCell(p, i) = IF i - k \in 1..lengths[n]
                                          THEN [rec |-> n, part |-> i - k] ELSE Newline
    BY <1>3, <1>4 DEF LineCell
  <1>7. returned' = returned \union {n} /\ returned' \subseteq 1..Len(lengths)
    BY <1>1, <1>2, <1>3 DEF SharedTypeOK
  <1>8. /\ SharedTypeOK' /\ AloneHasTheEnd'
        /\ \A q \in Process : phase'[q] = "put" => q # p /\ phase[q] = "put"
        /\ \A m \in returned \ overlapped : Placed(m)'
    BY <1>2, <1>7, EndKeepsPlaces
  <1>9. ASSUME n \notin overlapped
        PROVE  Placed(n)'
    <2>1. Busy = {p} /\ HasTheEnd(p)
      BY <1>2, <1>3, <1>9 DEF SharedInv, AloneHasTheEnd, Busy
    <2>2. PICK start \in Nat : start + sent[p] = Len(file)
      <3>1. Len(file) \in Nat /\ sent[p] \in Nat /\ sent[p] <= Len(file)
        BY <1>1, <2>1 DEF HasTheEnd, SharedTypeOK
      <3>2. Len(file) - sent[p] \in Nat /\ (Len(file) - sent[p]) + sent[p] = Len(file)
        BY <3>1
      <3> QED
        BY <3>2
    <2>3. /\ Len(file) \in Nat /\ sent[p] \in Nat /\ Len(file) - sent[p] = start
      BY <1>1, <2>2 DEF SharedTypeOK
    <2>4. /\ \A i \in 1..sent[p] : file[start + i] = LineCell(p, i)
          /\ k = 1 \/ start = 0 \/ file[start] = Newline
      BY <1>4, <2>1, <2>3 DEF HasTheEnd
    <2>5. PICK s \in 0..Len(file) : s = start + k
      <3>1. start + k \in 0..Len(file)
        BY <1>2, <1>4, <1>5, <2>2, <2>3
      <3> QED
        BY <3>1
    <2>6. sent[p] = lengths[n] + 1 + k /\ s + lengths[n] + 1 = Len(file)
      <3>1. sent[p] = lengths[n] + 1 + k
        BY <1>2, <1>5
      <3> QED
        BY <1>5, <2>2, <2>5, <3>1
    <2>7. ASSUME NEW part \in 1..lengths[n]
          PROVE  file[s + part] = [rec |-> n, part |-> part]
      <3>1. part + k \in 1..sent[p] /\ s + part = start + (part + k) /\ (part + k) - k = part
        BY <1>5, <2>2, <2>5, <2>6
      <3>2. LineCell(p, part + k) = [rec |-> n, part |-> part]
        BY <1>6, <3>1
      <3> QED
        BY <2>4, <3>1, <3>2
    <2>8. file[s + lengths[n] + 1] = Newline
      <3>1. sent[p] \in 1..sent[p] /\ s + lengths[n] + 1 = start + sent[p]
        BY <1>5, <2>2, <2>6
      <3>2. sent[p] - k \notin 1..lengths[n]
        BY <1>5, <2>6
      <3> QED
        BY <1>6, <2>3, <2>4, <3>1, <3>2
    <2>9. s = 0 \/ file[s] = Newline
      <3>1. CASE k = 1
        <4>1. 1 \in 1..sent[p] /\ s = start + 1
          BY <1>5, <2>5, <2>6, <3>1
        <4>2. LineCell(p, 1) = Newline
          BY <1>6, <3>1
        <4> QED
          BY <2>4, <4>1, <4>2
      <3>2. CASE k = 0
        BY <2>2, <2>4, <2>5, <3>2
      <3> QED
        BY <3>1, <3>2
    <2>10. LineAt(n, s)
      BY <1>5, <2>3, <2>5, <2>6, <2>7, <2>8, <2>9 DEF LineAt
    <2>11. LineAt(n, s)' /\ s \in 0..Len(file')
      <3>1. file' = file /\ lengths' = lengths
        BY <1>2
      <3> QED
        BY <2>10, <3>1 DEF LineAt
    <2>12. \A q \in Process : phase'[q] # "put"
      BY <1>8, <2>1 DEF Busy
    <2> QED
      BY <2>11, <2>12 DEF Placed, Safe
  <1>10. ASSUME NEW m \in returned' \ overlapped'
         PROVE  Placed(m)'
    <2>1. m \in returned \ overlapped \/ (m = n /\ n \notin overlapped)
      BY <1>2, <1>7
    <2>2. CASE m \in returned \ overlapped
      BY <1>8, <2>2
    <2>3. CASE m = n /\ n \notin overlapped
      BY <1>9, <2>3
    <2> QED
      BY <2>1, <2>2, <2>3
  <1> QED
    BY <1>8, <1>10 DEF SharedInv, Placed

\* An append that fails acknowledges nothing.
LEMMA AbortKeepsInv ==
  ASSUME SharedInv, NEW p \in Process, Abort(p)
  PROVE  SharedInv'
  <1>1. phase[p] # "idle" /\ End(p) /\ returned' = returned /\ overlapped' = overlapped
    BY DEF Abort, End
  <1>2. returned' \subseteq 1..Len(lengths)
    BY <1>1 DEF SharedInv, SharedTypeOK
  <1>3. SharedTypeOK' /\ AloneHasTheEnd' /\ \A m \in returned \ overlapped : Placed(m)'
    BY <1>1, <1>2, EndKeepsPlaces
  <1> QED
    BY <1>1, <1>3 DEF SharedInv, Placed

\* Only overlapping appends lose records: one that had the log to itself is read back,
\* for every number of processes, lengths of record, splits of a line into writes and
\* failures, whatever other appends overwrote or tore.
THEOREM OnlyOverlapsLoseRecords ==
  SharedSpec => []OnlyOverlapsLose
  <1>1. SharedInit => SharedInv
    <2> SUFFICES ASSUME SharedInit PROVE SharedInv
      OBVIOUS
    <2>1. /\ file = <<>> /\ lengths = <<>> /\ returned = {} /\ overlapped = {}
          /\ Len(file) = 0 /\ Len(lengths) = 0
      BY DEF SharedInit
    <2>2. SharedTypeOK
      <3>1. file \in Seq(Cell) /\ lengths \in Seq(Lengths) /\ 0 <= MaxAppends
        BY <2>1, SharedAssumption
      <3> QED
        BY <2>1, <3>1 DEF SharedInit, SharedTypeOK
    <2>3. AloneHasTheEnd
      BY DEF SharedInit, AloneHasTheEnd, Busy
    <2> QED
      BY <2>1, <2>2, <2>3 DEF SharedInv
  <1>2. SharedInv /\ [SharedNext]_sharedVars => SharedInv'
    <2> SUFFICES ASSUME SharedInv, [SharedNext]_sharedVars PROVE SharedInv'
      OBVIOUS
    <2>1. CASE SharedNext
      BY <2>1, LookKeepsInv, SeekKeepsInv, PutKeepsInv, ReturnKeepsInv, AbortKeepsInv
      DEF SharedNext
    <2>2. CASE UNCHANGED sharedVars
      <3>1. UNCHANGED <<file, lengths, phase, mine, lead, sent, offset, returned, overlapped>>
        BY <2>2 DEF sharedVars, appendVars
      <3>2. /\ SharedTypeOK' /\ Busy' = Busy
            /\ \A p : HasTheEnd(p)' = HasTheEnd(p)
            /\ \A n, s : Safe(n, s)' = Safe(n, s)
        BY <3>1 DEF SharedInv, SharedTypeOK, Busy, HasTheEnd, LineLength, LineCell, Safe, LineAt
      <3>3. AloneHasTheEnd'
        BY <3>1, <3>2 DEF SharedInv, AloneHasTheEnd
      <3> QED
        BY <3>1, <3>2, <3>3 DEF SharedInv
    <2> QED
      BY <2>1, <2>2
  <1>3. SharedInv => OnlyOverlapsLose
    BY DEF SharedInv, OnlyOverlapsLose, Safe
  <1> QED
    BY <1>1, <1>2, <1>3, PTL DEF SharedSpec
=============================================================================
