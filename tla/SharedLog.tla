------------------------------ MODULE SharedLog -----------------------------
(***************************************************************************)
(* The audit log when several processes append to it.  Nothing orders      *)
(* their appends: one looks at the tail, and each of its writes seeks to   *)
(* the end and then puts its bytes there ("append-mode open is not atomic  *)
(* on Windows", writer.py), so two that overlap write over one another.    *)
(* Within a process the server's lock makes appends take turns.            *)
(*                                                                         *)
(* The file is held as cells: a piece of a record, or a newline.           *)
(***************************************************************************)
EXTENDS Naturals, Sequences

CONSTANTS
    Process,    \* the processes that share the log
    Lengths,    \* how many pieces a record can have
    MaxAppends  \* bound on the records ever appended

ASSUME SharedAssumption ==
    /\ Lengths \subseteq Nat \ {0}
    /\ MaxAppends \in Nat

VARIABLES
    file,       \* its cells
    lengths,    \* lengths[n]: the pieces of the n-th record
    phase,      \* where a process's append is
    mine,       \* the record it is of
    lead,       \* the line begins with a newline: the tail lacked its own
    sent,       \* how much of the line is in the file
    offset,     \* where the next write goes
    returned,   \* the records whose append returned
    overlapped  \* those appended while another append was in flight

appendVars == <<phase, mine, lead, sent, offset>>
sharedVars == <<file, lengths, appendVars, returned, overlapped>>

Newline == [rec |-> 0, part |-> 0]
Cell == [rec : Nat, part : Nat]

SharedTypeOK ==
    /\ file \in Seq(Cell)
    /\ lengths \in Seq(Lengths) /\ Len(lengths) <= MaxAppends
    /\ phase \in [Process -> {"idle", "seek", "put"}]
    /\ mine \in [Process -> 0..Len(lengths)]
    /\ \A p \in Process : phase[p] # "idle" => mine[p] # 0
    /\ lead \in [Process -> BOOLEAN]
    /\ sent \in [Process -> Nat]
    /\ offset \in [Process -> 0..Len(file)]
    /\ returned \subseteq 1..Len(lengths)
    /\ overlapped \subseteq 1..Len(lengths)

SharedInit ==
    /\ file = <<>> /\ lengths = <<>>
    /\ phase = [p \in Process |-> "idle"]
    /\ mine = [p \in Process |-> 0]
    /\ lead = [p \in Process |-> FALSE]
    /\ sent = [p \in Process |-> 0]
    /\ offset = [p \in Process |-> 0]
    /\ returned = {} /\ overlapped = {}

-----------------------------------------------------------------------------
(* AuditLogWriter.append, of each process.                                 *)

\* Mutant: no newline guard.
NoTailLacksNewline == FALSE

\* _tail_missing_newline
TailLacksNewline == file # <<>> /\ file[Len(file)] # Newline

Busy == {p \in Process : phase[p] # "idle"}

\* The guard's own open, for a record of this length.
Look(p, length) ==
    /\ phase[p] = "idle"
    /\ Len(lengths) < MaxAppends
    /\ lengths' = Append(lengths, length)
    /\ phase' = [phase EXCEPT ![p] = "seek"]
    /\ mine' = [mine EXCEPT ![p] = Len(lengths')]
    /\ lead' = [lead EXCEPT ![p] = TailLacksNewline]
    /\ sent' = [sent EXCEPT ![p] = 0]
    /\ overlapped' = overlapped \union
          IF Busy = {} THEN {} ELSE {Len(lengths')} \union {mine[q] : q \in Busy}
    /\ UNCHANGED <<file, offset, returned>>

\* The line: a newline if there was none, the record's pieces, its own newline.
LineLength(p) == lengths[mine[p]] + IF lead[p] THEN 2 ELSE 1
LineCell(p, i) ==
    LET part == IF lead[p] THEN i - 1 ELSE i
    IN  IF part \in 1..lengths[mine[p]] THEN [rec |-> mine[p], part |-> part]
        ELSE Newline

\* A write in mode "a" goes to what is then the end of the file.
Seek(p) ==
    /\ phase[p] = "seek"
    /\ sent[p] < LineLength(p)
    /\ offset' = [offset EXCEPT ![p] = Len(file)]
    /\ phase' = [phase EXCEPT ![p] = "put"]
    /\ UNCHANGED <<file, lengths, mine, lead, sent, returned, overlapped>>

\* The file with the next cells of the line at the offset, over what may have come
\* there since.
Overwritten(p, upTo) ==
    LET end == offset[p] + (upTo - sent[p])
    IN  [i \in 1..(IF end > Len(file) THEN end ELSE Len(file)) |->
            IF i \in (offset[p] + 1)..end THEN LineCell(p, sent[p] + (i - offset[p]))
            ELSE file[i]]

\* All of the line that is left, or what a buffer or a full disk let through.
Put(p) ==
    /\ phase[p] = "put"
    /\ \E upTo \in (sent[p] + 1)..LineLength(p) :
          /\ file' = Overwritten(p, upTo)
          /\ sent' = [sent EXCEPT ![p] = upTo]
    /\ phase' = [phase EXCEPT ![p] = "seek"]
    /\ UNCHANGED <<lengths, mine, lead, offset, returned, overlapped>>

\* append returns or raises, and its local state is gone.
End(p) ==
    /\ phase' = [phase EXCEPT ![p] = "idle"]
    /\ mine' = [mine EXCEPT ![p] = 0]
    /\ lead' = [lead EXCEPT ![p] = FALSE]
    /\ sent' = [sent EXCEPT ![p] = 0]
    /\ offset' = [offset EXCEPT ![p] = 0]
    /\ UNCHANGED <<file, lengths, overlapped>>

\* The file is closed with the line in it.
Return(p) ==
    /\ phase[p] = "seek"
    /\ sent[p] = LineLength(p)
    /\ End(p)
    /\ returned' = returned \union {mine[p]}

\* An OSError, or the end of the process, which is then started again.
Abort(p) ==
    /\ phase[p] # "idle"
    /\ End(p)
    /\ UNCHANGED returned

SharedNext ==
    \E p \in Process :
        \/ \E length \in Lengths : Look(p, length)
        \/ Seek(p) \/ Put(p) \/ Return(p) \/ Abort(p)

SharedSpec == SharedInit /\ [][SharedNext]_sharedVars

-----------------------------------------------------------------------------
(* Properties.                                                             *)

\* The cells after the s-th are the record's line: read_audit_records returns it.
LineAt(n, s) ==
    /\ s + lengths[n] + 1 <= Len(file)
    /\ s = 0 \/ file[s] = Newline
    /\ \A part \in 1..lengths[n] : file[s + part] = [rec |-> n, part |-> part]
    /\ file[s + lengths[n] + 1] = Newline

\* What silently goes missing is a record whose append overlapped with another, and
\* no other: an append that had the log to itself is read back, whatever others
\* overwrote or tore before it or since (the limits that writer.py states).
OnlyOverlapsLose ==
    \A n \in returned \ overlapped : \E s \in 0..Len(file) : LineAt(n, s)

-----------------------------------------------------------------------------
(* The invariant it rests on.                                              *)

\* An append that has the log to itself: what it sent is the end of the file, after
\* a newline, and so is what it sends next.
HasTheEnd(p) ==
    LET start == Len(file) - sent[p]
    IN  /\ sent[p] <= Len(file) /\ sent[p] <= LineLength(p)
        /\ \A i \in 1..sent[p] : file[start + i] = LineCell(p, i)
        /\ lead[p] \/ start = 0 \/ file[start] = Newline
        /\ phase[p] = "put" => offset[p] = Len(file)

AloneHasTheEnd ==
    \A p \in Busy : mine[p] \notin overlapped => Busy = {p} /\ HasTheEnd(p)

\* No write in flight reaches back into its line.
Safe(n, s) ==
    /\ LineAt(n, s)
    /\ \A p \in Process : phase[p] = "put" => offset[p] >= s + lengths[n] + 1

SharedInv ==
    /\ SharedTypeOK
    /\ AloneHasTheEnd
    /\ \A n \in returned \ overlapped : \E s \in 0..Len(file) : Safe(n, s)
=============================================================================
