------------------------------ MODULE AuditLog ------------------------------
(***************************************************************************)
(* The audit log: a JSONL file that only ever grows.  A writer opens it    *)
(* twice per record: once to see whether the last byte is a newline (the   *)
(* newline guard), once to append.  A crash or a full disk can cut the     *)
(* second short anywhere, which leaves a torn line.                        *)
(*                                                                         *)
(* Appends take turns here, by one process after another: "safe only for a *)
(* single writer in a single thread" (writer.py), which the server's lock  *)
(* makes of every append of a process.  Appends that overlap are SharedLog.*)
(*                                                                         *)
(* The file is held as its lines; what of a record's JSON reached a line   *)
(* is a fragment <rec, size>, whole when size = Size.  A record's text is  *)
(* plain, or has a character that takes several bytes in UTF-8 ("wide"),   *)
(* or one that str.splitlines takes for a line ending ("separator": U+2028 *)
(* and U+2029 are not control characters, so sanitize_str keeps them, and  *)
(* JSON does not escape them).  Each such character is in the middle: a    *)
(* fragment of size Cut ends inside the wide one, a longer one holds the   *)
(* separator.                                                              *)
(***************************************************************************)
EXTENDS Naturals, Sequences, FiniteSets

CONSTANTS
    Kind,        \* kinds of text that records have
    Size, Cut,   \* how finely a write can be torn
    MaxRecords   \* bound on the records ever appended

ASSUME AuditAssumption ==
    /\ Kind \subseteq {"plain", "wide", "separator"}
    /\ Size \in Nat /\ Cut \in Nat /\ 0 < Cut /\ Cut < Size
    /\ MaxRecords \in Nat

VARIABLES
    lines,         \* the lines that have their newline
    tail,          \* what follows the last newline
    kinds,         \* kinds[n]: the text of the n-th record
    step,          \* where the append is
    guard,         \* the tail lacked its newline when the append looked
    acknowledged   \* the records whose append returned

logVars == <<lines, tail, kinds, step, guard, acknowledged>>

Fragment == [rec : 1..Len(kinds), size : 1..Size]
Line == Seq(Fragment)

AuditTypeOK ==
    /\ lines \in Seq(Line)
    /\ tail \in Line
    /\ kinds \in Seq(Kind) /\ Len(kinds) <= MaxRecords
    /\ step \in {"idle", "write"}
    /\ guard \in BOOLEAN
    /\ acknowledged \subseteq 1..Len(kinds)

AuditInit ==
    /\ lines = <<>>
    /\ tail = <<>>
    /\ kinds = <<>>
    /\ step = "idle"
    /\ guard = FALSE
    /\ acknowledged = {}

-----------------------------------------------------------------------------
(* AuditLogWriter.append.                                                  *)

\* Mutant: no newline guard.
NeverMissing == FALSE

\* Mutant: a newline before every record but the first.
NotEmpty == lines # <<>> \/ tail # <<>>

\* _tail_missing_newline
TailMissingNewline == tail # <<>>

\* The guard's own open, for the next record.
CheckTail(kind) ==
    /\ step = "idle"
    /\ Len(kinds) < MaxRecords
    /\ kinds' = Append(kinds, kind)
    /\ guard' = TailMissingNewline
    /\ step' = "write"
    /\ UNCHANGED <<lines, tail, acknowledged>>

\* The record being appended is the last one issued.
rec == Len(kinds)

\* The guard's newline ends the line that was there.
EndedLines == IF guard THEN Append(lines, tail) ELSE lines
LastLine == IF guard THEN <<>> ELSE tail

Text(size) == Append(LastLine, [rec |-> rec, size |-> size])

\* The line went out whole.
PutLine ==
    /\ lines' = Append(EndedLines, Text(Size))
    /\ tail' = <<>>

\* It was cut short: before the first byte, after the guard's newline, or
\* somewhere in the record, its end included.
PutPrefix ==
    \/ UNCHANGED <<lines, tail>>
    \/ lines' = EndedLines /\ tail' = LastLine
    \/ lines' = EndedLines /\ \E size \in 1..Size : tail' = Text(size)

EndAppend ==
    /\ step' = "idle"
    /\ UNCHANGED <<kinds, guard>>

\* Mutant: the record is acknowledged although the write raised.
WriteFailsSilently ==
    /\ step = "write"
    /\ PutPrefix
    /\ EndAppend
    /\ acknowledged' = acknowledged \union {rec}

Write ==
    /\ step = "write"
    /\ PutLine
    /\ EndAppend
    /\ acknowledged' = acknowledged \union {rec}

\* An OSError of either open, of the write or of the close, or a crash of the
\* process, which is then started again: the caller is not told it is written.
WriteFails ==
    /\ step = "write"
    /\ PutPrefix \/ PutLine
    /\ EndAppend
    /\ UNCHANGED acknowledged

AuditNext ==
    \/ \E kind \in Kind : CheckTail(kind)
    \/ Write
    \/ WriteFails

AuditSpec == AuditInit /\ [][AuditNext]_logVars

-----------------------------------------------------------------------------
(* read_audit_records: what a read of the file at this moment answers.     *)

FileLines == IF tail = <<>> THEN lines ELSE Append(lines, tail)

\* A stub that ends inside a character is not UTF-8, and what follows does not
\* make it so: handle.read() raises for the whole file.
Decodable ==
    \A i \in DOMAIN FileLines : \A j \in DOMAIN FileLines[i] :
        kinds[FileLines[i][j].rec] = "wide" => FileLines[i][j].size # Cut

\* splitlines breaks the line once more.
Broken(line) ==
    \E j \in DOMAIN line : kinds[line[j].rec] = "separator" /\ line[j].size > Cut

Whole(line) == Len(line) = 1 /\ line[1].size = Size

\* The line is one record's JSON.
Parses(line) == Whole(line) /\ ~Broken(line)

Malformed == {i \in DOMAIN FileLines : ~Parses(FileLines[i])}

TornTail == Len(FileLines) \in Malformed

\* Numbered by lines of the file; all parts of a broken line but the last of
\* the file are interior.
CorruptLines ==
    {i \in Malformed : i < Len(FileLines) \/ Broken(FileLines[i])}

\* The records a read returns.
Returned == {FileLines[i][1].rec : i \in (DOMAIN FileLines) \ Malformed}

\* In the order of the file: one pass over the lines.
Trail ==
    LET upTo[i \in 0..Len(FileLines)] ==
            IF i = 0 THEN <<>>
            ELSE IF Parses(FileLines[i]) THEN Append(upTo[i - 1], FileLines[i][1].rec)
            ELSE upTo[i - 1]
    IN  upTo[Len(FileLines)]

-----------------------------------------------------------------------------
(* Properties.                                                             *)

\* The invariant: nothing is written between the two opens, and a record whose
\* append returned has a line of its own.
GuardIsFresh == step = "write" => guard = TailMissingNewline

RecordIsIssued == step = "write" => rec # 0

LineOfItsOwn(n) == \E i \in DOMAIN lines : lines[i] = << [rec |-> n, size |-> Size] >>

AcknowledgedHasItsLine == \A n \in acknowledged : LineOfItsOwn(n)

\* The lines are of one record each, in the order of the records; those of the
\* acknowledged ones are whole.
LinesAreRecords ==
    /\ \A i \in DOMAIN FileLines : Len(FileLines[i]) = 1
    /\ \A i, j \in DOMAIN FileLines : i < j => FileLines[i][1].rec < FileLines[j][1].rec
    /\ \A i \in DOMAIN FileLines :
          FileLines[i][1].rec \in acknowledged => FileLines[i][1].size = Size

\* The record in flight is not in the file yet.
InFlightIsNew ==
    step = "write" =>
        /\ rec \notin acknowledged
        /\ \A i \in DOMAIN FileLines : FileLines[i][1].rec # rec

LogInv ==
    /\ AuditTypeOK
    /\ GuardIsFresh
    /\ RecordIsIssued
    /\ AcknowledgedHasItsLine
    /\ LinesAreRecords
    /\ InFlightIsNew

InFlight == IF step = "write" THEN {rec} ELSE {}
Failed == (1..Len(kinds)) \ (acknowledged \union InFlight)

\* A record is on a line of its own, and a read of the file returns it; or says
\* that its line is corrupt, if its text has a line separator.
IsKept(n) ==
    /\ LineOfItsOwn(n)
    /\ Decodable =>
          IF kinds[n] = "separator"
            THEN \E i \in CorruptLines : FileLines[i] = << [rec |-> n, size |-> Size] >>
            ELSE n \in Returned

\* "A log that silently drops or rewrites a record is worse than no log"
\* (writer.py): a record whose append returned is kept, whatever failed before or
\* after it; and only the failed append of a record that is not plain text can
\* make the log one that no read decodes.
AcknowledgedIsRead ==
    /\ \A n \in acknowledged : IsKept(n)
    /\ Decodable \/ \E n \in Failed : kinds[n] = "wide"

\* Damage is what it looks like: there are no more malformed lines than appends
\* that failed, so the newline guard neither joins records nor adds lines.
DamageIsCounted == Cardinality(Malformed) <= Cardinality(Failed)

\* The log keeps its promise, line by line, to a reader that decodes it.
Promise == INSTANCE AuditTrail
    WITH Call <- 1..MaxRecords, trail <- Trail, confirmed <- acknowledged
KeepsTrail == Promise!Spec

-----------------------------------------------------------------------------
(* What reader.py says of itself and the model refutes.                    *)

\* read_audit_records: malformed lines are "never fatal".
NeverFatal == Decodable
=============================================================================
