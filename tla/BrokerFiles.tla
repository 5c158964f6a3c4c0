----------------------------- MODULE BrokerFiles ----------------------------
(***************************************************************************)
(* The broker's writes: exports to a path the user names, created          *)
(* exclusively or replaced, and the design intent, replaced always.  Two   *)
(* server processes may share a data directory and a user's disk, so every *)
(* system call is a step.  Any of them can fail, a process can end between *)
(* any two, and a power loss takes what was not flushed.                   *)
(***************************************************************************)
EXTENDS Naturals, Sequences

CONSTANTS
    Server,     \* processes
    Export,     \* the paths users ask for
    Intent,     \* design intents
    NonFinite,  \* those with a number that is not finite: the file has null for it
    None,       \* no intent: the tombstone of a cleared one
    Absent,     \* no file
    Traits,     \* Traits[p]: what validation sees of path p
    MaxWrites   \* bound on the writes of a behaviour

\* The one file that no user names.
IntentFile == "intent.json"

ASSUME FilesAssumption ==
    /\ IntentFile \notin Export
    /\ None \notin Intent /\ NonFinite \subseteq Intent
    /\ MaxWrites \in Nat
    /\ Traits \in [Export -> [unc : BOOLEAN, absolute : BOOLEAN, parent : BOOLEAN,
                              components : Seq({"plain", "reserved", "trailing"})]]

\* A file is known by the write that made it; the user's own is 0.
Part == {"empty", "some", "all"}
Content == [by : 0..MaxWrites, part : Part, synced : BOOLEAN]

ASSUME AbsentAssumption == Absent \notin Content

VARIABLES
    disk,       \* the file under each name
    writes      \* the writes begun so far, in that order

filesVars == <<disk, writes>>

File == Export \union {IntentFile}

\* A write: where its code is, its temporary file, and how it ended.  It is done when
\* its caller was told that; what died, or whose answer was withheld, is unanswered.
At == {"open", "fill", "mkstemp", "fill_temp", "replace", "return", "done", "unanswered"}
Answer == {"none", "written", "refused_existing_path", "file_error"}
WriteRecord ==
    [server : Server, file : File, mode : {"create", "replace"},
     intent : Intent \union {None}, at : At,
     temp : {"none", "partial", "all"}, answer : Answer, orphan : BOOLEAN]

FilesTypeOK ==
    /\ disk \in [File -> Content \union {Absent}]
    /\ writes \in Seq(WriteRecord) /\ Len(writes) <= MaxWrites

FilesInit ==
    /\ disk = [f \in File |-> Absent]
    /\ writes = <<>>

-----------------------------------------------------------------------------
(* validate_export_path: the first reason found, "none" when acceptable.    *)

\* The reason of the first component that has one; a component is looked at for
\* a device name before its ending.
ComponentReason(components) ==
    LET Bad == {i \in DOMAIN components : components[i] # "plain"}
    IN  IF Bad = {} THEN "none"
        ELSE components[CHOOSE i \in Bad : \A j \in Bad : i <= j]

PathRefusal(p) ==
    LET t == Traits[p]
    IN  IF t.unc THEN "unc"
        ELSE IF ~t.absolute THEN "relative"
        ELSE IF ComponentReason(t.components) # "none" THEN ComponentReason(t.components)
        ELSE IF ~t.parent THEN "no_parent"
        ELSE "none"

-----------------------------------------------------------------------------
(* Beginning a write.  A server runs one at a time.                         *)

\* Mutant: a write gives way to the next once its bytes are safe.
BusyUntilReplace(s) == \E n \in DOMAIN writes :
    writes[n].server = s /\ writes[n].at \notin {"replace", "return", "done", "unanswered"}

Busy(s) == \E n \in DOMAIN writes :
    writes[n].server = s /\ writes[n].at \notin {"done", "unanswered"}

Begin(s, file, mode, intent, at, answer) ==
    /\ ~Busy(s)
    /\ Len(writes) < MaxWrites
    /\ writes' = Append(writes,
            [server |-> s, file |-> file, mode |-> mode, intent |-> intent,
             at |-> at, temp |-> "none", answer |-> answer, orphan |-> FALSE])
    /\ UNCHANGED disk

FirstCall(mode) == IF mode = "create" THEN "open" ELSE "mkstemp"

WriteExport(s, p, overwrite) ==
    LET mode == IF overwrite THEN "replace" ELSE "create"
    IN  IF PathRefusal(p) # "none"
          THEN Begin(s, p, mode, None, "done", "file_error")
          ELSE Begin(s, p, mode, None, FirstCall(mode), "none")

\* set_design_intent, and clear_design_intent with None.  The envelope also holds
\* the selection of that moment; it is the write's, like the intent.
SetDesignIntent(s, intent) ==
    Begin(s, IntentFile, "replace", intent, "mkstemp", "none")

-----------------------------------------------------------------------------
(* exclusive_create_write.                                                 *)

Ends(n, answer) == writes' = [writes EXCEPT ![n].at = "return", ![n].answer = answer]

\* The handle of write n is on the file of that name, and not on one that has
\* been replaced under it.
Owns(n) == disk[writes[n].file] # Absent /\ disk[writes[n].file].by = n

Put(n, part, synced) ==
    disk' = [disk EXCEPT ![writes[n].file] = [by |-> n, part |-> part, synced |-> synced]]

\* Mutant: whether the file is there was looked at before.
OpenExclusiveTruncating(n) ==
    /\ writes[n].at = "open"
    /\ \/ /\ Put(n, "empty", FALSE)
          /\ writes' = [writes EXCEPT ![n].at = "fill"]
       \/ UNCHANGED disk /\ Ends(n, "file_error")

\* open(path, "x"): the check and the claim are one call.
OpenExclusive(n) ==
    /\ writes[n].at = "open"
    /\ \/ /\ disk[writes[n].file] # Absent
          /\ UNCHANGED disk
          /\ Ends(n, "refused_existing_path")
       \/ /\ disk[writes[n].file] = Absent
          /\ Put(n, "empty", FALSE)
          /\ writes' = [writes EXCEPT ![n].at = "fill"]
       \/ UNCHANGED disk /\ Ends(n, "file_error")

\* The bytes, up to the close; a failure leaves the file as far as it got.
Fill(n) ==
    /\ writes[n].at = "fill"
    /\ \E part \in Part :
        /\ IF Owns(n) THEN Put(n, part, FALSE) ELSE UNCHANGED disk
        /\ Ends(n, IF part = "all" THEN "written" ELSE "file_error")

-----------------------------------------------------------------------------
(* atomic_replace_write.                                                   *)

MakeTemp(n) ==
    /\ writes[n].at = "mkstemp"
    /\ \/ writes' = [writes EXCEPT ![n].at = "fill_temp", ![n].temp = "partial"]
       \/ Ends(n, "file_error")
    /\ UNCHANGED disk

\* Mutant: only failures the handler's author thought of name the orphan.
TempFailsUnnamed(n) ==
    \/ writes' = [writes EXCEPT ![n].at = "return", ![n].answer = "file_error",
                                ![n].orphan = TRUE]
    \/ Ends(n, "file_error")

\* Whatever the failure, the error names the file left behind.
TempFails(n) ==
    writes' = [writes EXCEPT ![n].at = "return", ![n].answer = "file_error",
                             ![n].orphan = TRUE]

\* The bytes, flushed to the disk.
FillTemp(n) ==
    /\ writes[n].at = "fill_temp"
    /\ \/ writes' = [writes EXCEPT ![n].at = "replace", ![n].temp = "all"]
       \/ TempFails(n)
    /\ UNCHANGED disk

\* Mutant: the flush to the disk is left out.
ReplacedUnsynced(n) == Put(n, "all", FALSE)

\* The temporary file takes the name.
Replaced(n) == Put(n, "all", TRUE)

Replace(n) ==
    /\ writes[n].at = "replace"
    /\ \/ /\ Replaced(n)
          /\ writes' = [writes EXCEPT ![n].at = "return", ![n].answer = "written",
                                      ![n].temp = "none"]
       \/ UNCHANGED disk /\ TempFails(n)

-----------------------------------------------------------------------------
(* What the caller learns.                                                 *)

\* The intent's writes are dispatches: when the record of one cannot be appended,
\* AuditFailure withholds its result, and the sink's error replaces its own.
Withheld(w) == w.file = IntentFile

Return(n) ==
    /\ writes[n].at = "return"
    /\ \/ writes' = [writes EXCEPT ![n].at = "done"]
       \/ Withheld(writes[n]) /\ writes' = [writes EXCEPT ![n].at = "unanswered"]
    /\ UNCHANGED disk

-----------------------------------------------------------------------------
(* get_design_intent: what a read of the store answers.                     *)

\* A null where the schema has a number is as undecodable as half a file.
ReadIntent ==
    LET file == disk[IntentFile]
        intent == writes[file.by].intent
    IN  IF file = Absent THEN [kind |-> "unset", write |-> 0]
        ELSE IF file.part # "all" THEN [kind |-> "corrupt", write |-> 0]
        ELSE [kind |-> IF intent \in NonFinite THEN "corrupt"
                       ELSE IF intent = None THEN "unset" ELSE "set",
              write |-> file.by]

-----------------------------------------------------------------------------
(* What else happens.                                                      *)

\* The user puts a file of their own where there is none, and an export could go.
UserSaves(p) ==
    /\ PathRefusal(p) = "none"
    /\ disk[p] = Absent
    /\ Len(writes) < MaxWrites
    /\ disk' = [disk EXCEPT ![p] = [by |-> 0, part |-> "all", synced |-> TRUE]]
    /\ UNCHANGED writes

\* A server ends, Ctrl-C included, at any step of a write: some of the bytes of a
\* create may be there, and no caller is told.
Crash(s) ==
    /\ \E n \in DOMAIN writes :
        /\ writes[n].server = s
        /\ writes[n].at \notin {"done", "unanswered"}
        /\ writes' = [writes EXCEPT ![n].at = "unanswered"]
        /\ IF writes[n].at = "fill" /\ Owns(n)
             THEN \E part \in Part : Put(n, part, FALSE)
             ELSE UNCHANGED disk

\* The machine stops: every server with it, and unflushed bytes.
PowerLoss ==
    /\ writes' = [n \in DOMAIN writes |->
            IF writes[n].at = "done" THEN writes[n]
            ELSE [writes[n] EXCEPT !.at = "unanswered"]]
    /\ \E part \in Part : disk' = [f \in File |->
            IF disk[f] = Absent \/ disk[f].synced THEN disk[f]
            ELSE [disk[f] EXCEPT !.part = IF @ = "all" THEN part ELSE "empty",
                                 !.synced = TRUE]]

FilesNext ==
    \/ \E s \in Server, p \in Export, overwrite \in BOOLEAN : WriteExport(s, p, overwrite)
    \/ \E s \in Server, i \in Intent \union {None} : SetDesignIntent(s, i)
    \/ \E n \in DOMAIN writes :
        \/ OpenExclusive(n) \/ Fill(n)
        \/ MakeTemp(n) \/ FillTemp(n) \/ Replace(n)
        \/ Return(n)
    \/ \E s \in Server : Crash(s)
    \/ \E p \in Export : UserSaves(p)
    \/ PowerLoss

FilesSpec == FilesInit /\ [][FilesNext]_filesVars

-----------------------------------------------------------------------------
(* The invariant.                                                          *)

\* What the code of a write has made of it when it is where it is.
WriteOK(w) ==
    /\ w.file = IntentFile => w.mode = "replace"
    /\ w.at = "open" => w.mode = "create"
    /\ w.at \in {"mkstemp", "fill_temp", "replace"} => w.mode = "replace"
    /\ w.at = "fill" => w.mode = "create"
    /\ w.at \in {"open", "fill", "mkstemp"} => w.temp = "none"
    /\ w.at = "fill_temp" => w.temp = "partial"
    /\ w.at = "replace" => w.temp = "all"
    /\ w.at \notin {"return", "done", "unanswered"} => w.answer = "none"
    /\ w.at \in {"return", "done"} => w.answer # "none"
    /\ w.answer = "none" => ~w.orphan
    /\ w.answer # "none" => (w.orphan <=> w.temp # "none")

\* The user's own file is whole, and never the intent's; any other was put under
\* the name by a write of that name, and by a replace only whole, flushed and with
\* nothing left that could fail but its answer.
FileOK(f) ==
    LET by == disk[f].by
    IN  IF by = 0 THEN f # IntentFile /\ disk[f].part = "all" /\ disk[f].synced
        ELSE /\ by \in DOMAIN writes
             /\ writes[by].file = f
             /\ writes[by].mode = "replace" =>
                    disk[f].part = "all" /\ disk[f].synced /\ writes[by].answer = "written"

\* A later write of the same server, that went through.
Superseded(m, n) ==
    /\ m < n
    /\ writes[n].server = writes[m].server /\ writes[n].file = writes[m].file
    /\ writes[n].answer = "written"

\* A server's writes take turns.
TakeTurns ==
    \A m, n \in DOMAIN writes :
        (m < n /\ writes[n].server = writes[m].server)
            => writes[m].at \in {"done", "unanswered"}

\* What a file says of the write it is known by; a file that came by a replace is
\* not of a write that its server has since superseded; and without a file under
\* its name no replace went through.
FilesInv ==
    /\ FilesTypeOK
    /\ \A n \in DOMAIN writes : WriteOK(writes[n])
    /\ TakeTurns
    /\ \A f \in File : disk[f] # Absent => FileOK(f)
    /\ disk[IntentFile] # Absent =>
            \A n \in DOMAIN writes : ~Superseded(disk[IntentFile].by, n)
    /\ \A n \in DOMAIN writes :
            (writes[n].mode = "replace" /\ writes[n].answer = "written")
                => disk[writes[n].file] # Absent

-----------------------------------------------------------------------------
(* Properties.                                                             *)

\* writes.py: a partial file can only be at a path "that held nothing before":
\* it is of an exclusive create, never of the intent file, never of a replace,
\* whatever failed, crashed or lost power.
TornOnlyIfNew ==
    \A f \in File : (disk[f] # Absent /\ disk[f].part # "all") =>
        /\ f # IntentFile
        /\ disk[f].by # 0
        /\ writes[disk[f].by].mode = "create"

\* "No silent overwrite": what is under a name stays, but for the bytes its own
\* write still puts there, until a replace that was asked for puts a whole file
\* there; two creates that race for a name never share it.
KeepsFiles ==
    [][\A f \in File : (disk[f] # Absent /\ disk'[f] # disk[f]) =>
        \/ disk'[f].by = disk[f].by
        \/ /\ disk'[f].part = "all"
           /\ \E n \in DOMAIN writes : /\ n = disk'[f].by
                                       /\ writes[n].mode = "replace"
                                       /\ writes[n].file = f]_filesVars

\* errors.py: "a file left behind is never silent": a temporary file that outlives
\* its write is named in the error that its caller gets, and what an error names is
\* there; where no caller gets one, the process died or the sink failed too.
LeftoversAreNamed ==
    \A n \in DOMAIN writes :
        writes[n].at = "done" => (writes[n].orphan <=> writes[n].temp # "none")

\* "The target is either fully replaced or untouched": what get_design_intent answers
\* is of a set that went through, and never of one that told its caller it failed; a
\* server never reads back an intent older than the last one it wrote; and no set
\* went through when there is none.  Only a number that is not finite makes the
\* answer corrupt, never a failure, a crash or a power loss.
IntentIsOfTheLastSet ==
    LET read == ReadIntent
        Sets == {n \in DOMAIN writes : writes[n].file = IntentFile}
    IN  /\ read.kind = "corrupt" =>
                read.write \in Sets /\ writes[read.write].intent \in NonFinite
        /\ read.write # 0 =>
                /\ read.write \in Sets /\ writes[read.write].answer = "written"
                /\ \A n \in Sets : ~Superseded(read.write, n)
        /\ read.write = 0 => \A n \in Sets : writes[n].answer # "written"

-----------------------------------------------------------------------------
(* What the server says of itself and the model refutes.                   *)

\* app.py: "Design intent is stored on disk and returned as you supplied it": once
\* a caller was told that an intent is written, a read answers with one.
IntentIsReturned ==
    LET read == ReadIntent
    IN  (read.write # 0 /\ writes[read.write].at = "done" /\ writes[read.write].intent # None)
            => read.kind = "set"
=============================================================================
