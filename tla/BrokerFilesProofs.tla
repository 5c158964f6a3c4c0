-------------------------- MODULE BrokerFilesProofs -------------------------
(***************************************************************************)
(* What is under a name the broker writes is what some write of that name  *)
(* meant to put there: for every set of servers, paths and intents, any    *)
(* number of writes, every failure, crash and power loss between them.     *)
(***************************************************************************)
EXTENDS BrokerFiles, SequenceTheorems, TLAPS

-----------------------------------------------------------------------------
(* Part 1: steps of the invariant.                                         *)

\* Nothing is written yet.
LEMMA FilesInitially ==
  FilesInit => FilesInv
  BY FilesAssumption DEF FilesInit, FilesInv, FilesTypeOK, TakeTurns, File

\* A write keeps what it was begun with.
SameTask(v, w) ==
    w.server = v.server /\ w.file = v.file /\ w.mode = v.mode /\ w.intent = v.intent

\* A write that is under way goes on: it leaves the disk alone, and is not a
\* replace that only now goes through; or it puts its content under its own name,
\* and a replace only whole, flushed and as it goes through.
LEMMA WriteGoesOn ==
  ASSUME FilesInv, NEW n \in DOMAIN writes, writes[n].at \notin {"done", "unanswered"},
         NEW w \in WriteRecord, SameTask(writes[n], w), WriteOK(w),
         writes[n].answer \in {"none", w.answer},
         writes' = [writes EXCEPT ![n] = w],
         \/ /\ UNCHANGED disk
            /\ (w.mode = "replace" /\ w.answer = "written") => writes[n].answer = "written"
         \/ \E part \in Part, synced \in BOOLEAN :
            /\ Put(n, part, synced)
            /\ w.mode = "replace" => part = "all" /\ synced /\ w.answer = "written"
  PROVE  FilesInv'
  <1>1. /\ writes \in Seq(WriteRecord) /\ Len(writes) \in Nat /\ Len(writes) <= MaxWrites
        /\ DOMAIN writes = 1..Len(writes) /\ n \in 1..Len(writes)
        /\ \A m \in DOMAIN writes : writes[m] \in WriteRecord
        /\ disk \in [File -> Content \union {Absent}]
    BY DEF FilesInv, FilesTypeOK
  <1>2. /\ writes' \in Seq(WriteRecord) /\ Len(writes') = Len(writes)
        /\ DOMAIN writes' = DOMAIN writes
        /\ \A m \in DOMAIN writes : writes'[m] = IF m = n THEN w ELSE writes[m]
    BY <1>1, ExceptSeq
  <1>3. /\ writes[n].file \in File /\ w.file = writes[n].file /\ w.mode = writes[n].mode
        /\ writes[n].answer = "written" => w.answer = "written"
    BY <1>1 DEF WriteRecord, SameTask
  <1>4. \A m \in DOMAIN writes : /\ writes'[m].file = writes[m].file
                                 /\ writes'[m].mode = writes[m].mode
                                 /\ writes'[m].server = writes[m].server
                                 /\ writes[m].answer = "written" => writes'[m].answer = "written"
    BY <1>2, <1>3 DEF SameTask
  <1>5. \A m \in DOMAIN writes' : WriteOK(writes'[m])
    BY <1>2 DEF FilesInv
  <1>6. \A m \in DOMAIN writes : m > n => writes[m].server # writes[n].server
    BY <1>1 DEF FilesInv, TakeTurns
  <1>7. TakeTurns'
    <2> SUFFICES ASSUME NEW k \in DOMAIN writes, NEW m \in DOMAIN writes, k < m,
                        writes[m].server = writes[k].server
                 PROVE  writes'[k].at \in {"done", "unanswered"}
      BY <1>2, <1>4 DEF TakeTurns
    <2>1. k # n
      BY <1>1, <1>6
    <2>2. writes'[k] = writes[k]
      BY <1>2, <2>1
    <2> QED
      BY <2>2 DEF FilesInv, TakeTurns
  <1>8. IntentFile \in File /\ \A m \in DOMAIN writes :
              writes[m].file = IntentFile => writes[m].mode = "replace"
    BY DEF File, FilesInv, WriteOK
  <1>9. CASE UNCHANGED disk /\ ((w.mode = "replace" /\ w.answer = "written")
                                     => writes[n].answer = "written")
    <2>1. ASSUME NEW f \in File, disk'[f] # Absent
          PROVE  FileOK(f)'
      BY <1>2, <1>3, <1>4, <1>9, <2>1 DEF FilesInv, FileOK
    <2>2. ASSUME disk[IntentFile] # Absent, NEW m \in DOMAIN writes
          PROVE  ~Superseded(disk[IntentFile].by, m)'
      <3>1. /\ disk[IntentFile].by \in DOMAIN writes
            /\ writes[disk[IntentFile].by].file = IntentFile
            /\ ~Superseded(disk[IntentFile].by, m)
        BY <1>8, <2>2 DEF FilesInv, FileOK
      <3>2. (writes'[m].answer = "written" /\ writes[m].mode = "replace")
               => writes[m].answer = "written"
        BY <1>2, <1>3, <1>9
      <3> QED
        BY <1>4, <1>8, <1>9, <3>1, <3>2 DEF Superseded
    <2>3. ASSUME NEW m \in DOMAIN writes', writes'[m].mode = "replace",
                 writes'[m].answer = "written"
          PROVE  disk'[writes'[m].file] # Absent
      BY <1>2, <1>3, <1>4, <1>9, <2>3 DEF FilesInv
    <2> QED
      BY <1>1, <1>2, <1>5, <1>7, <1>9, <2>1, <2>2, <2>3 DEF FilesInv, FilesTypeOK
  <1>10. ASSUME NEW part \in Part, NEW synced \in BOOLEAN, Put(n, part, synced),
                w.mode = "replace" => part = "all" /\ synced /\ w.answer = "written"
         PROVE  FilesInv'
    <2> DEFINE file == [by |-> n, part |-> part, synced |-> synced]
    <2>1. file \in Content /\ file # Absent
      BY <1>1, AbsentAssumption, FilesAssumption DEF Content
    <2>2. /\ disk' \in [File -> Content \union {Absent}]
          /\ disk'[w.file] = file
          /\ \A f \in File \ {w.file} : disk'[f] = disk[f]
      BY <1>1, <1>3, <1>10, <2>1 DEF Put
    <2>3. n # 0
      BY <1>1
    <2>4. FileOK(w.file)'
      BY <1>2, <1>10, <2>2, <2>3 DEF FileOK
    <2>5. ASSUME NEW f \in File, f # w.file, disk'[f] # Absent
          PROVE  FileOK(f)'
      BY <1>2, <1>3, <1>4, <2>2, <2>5 DEF FilesInv, FileOK
    <2>6. ASSUME NEW m \in DOMAIN writes', writes'[m].mode = "replace",
                 writes'[m].answer = "written"
          PROVE  disk'[writes'[m].file] # Absent
      <3>1. CASE writes[m].file = w.file
        BY <1>2, <1>4, <2>1, <2>2, <3>1
      <3>2. CASE writes[m].file # w.file
        <4>1. m \in DOMAIN writes /\ writes[m] \in WriteRecord
          BY <1>1, <1>2
        <4>2. writes[m].file \in File
          BY <4>1 DEF WriteRecord
        <4> QED
          BY <1>2, <1>3, <1>4, <2>2, <2>6, <3>2, <4>1, <4>2 DEF FilesInv
      <3> QED
        BY <3>1, <3>2
    <2>7. ASSUME disk'[IntentFile] # Absent, NEW m \in DOMAIN writes
          PROVE  ~Superseded(disk[IntentFile].by, m)'
      <3>1. CASE w.file = IntentFile
        <4>1. disk'[IntentFile].by = n
          BY <2>2, <3>1
        <4> QED
          BY <1>1, <1>4, <1>6, <4>1 DEF Superseded
      <3>2. CASE w.file # IntentFile
        <4>1. disk'[IntentFile] = disk[IntentFile]
          BY <1>8, <2>2, <3>2
        <4>2. /\ disk[IntentFile].by \in DOMAIN writes
              /\ writes[disk[IntentFile].by].file = IntentFile
              /\ ~Superseded(disk[IntentFile].by, m)
          BY <1>8, <2>7, <4>1 DEF FilesInv, FileOK
        <4>3. m # n => writes'[m] = writes[m]
          BY <1>2
        <4>4. m = n => writes[m].file # IntentFile
          BY <1>3, <3>2
        <4> QED
          BY <1>4, <4>1, <4>2, <4>3, <4>4 DEF Superseded
      <3> QED
        BY <3>1, <3>2
    <2> QED
      BY <1>1, <1>2, <1>5, <1>7, <2>2, <2>4, <2>5, <2>6, <2>7 DEF FilesInv, FilesTypeOK
  <1> QED
    BY <1>9, <1>10

\* Beginning a write touches no file.
LEMMA BeginKeepsFiles ==
  ASSUME FilesInv, NEW s \in Server, NEW file \in File, NEW mode \in {"create", "replace"},
         NEW intent \in Intent \union {None}, NEW at \in At, NEW answer \in Answer,
         file = IntentFile => mode = "replace",
         \/ at = FirstCall(mode) /\ answer = "none"
         \/ at = "done" /\ answer = "file_error",
         Begin(s, file, mode, intent, at, answer)
  PROVE  FilesInv'
  <1> DEFINE w == [server |-> s, file |-> file, mode |-> mode, intent |-> intent,
                   at |-> at, temp |-> "none", answer |-> answer, orphan |-> FALSE]
  <1>1. w \in WriteRecord /\ WriteOK(w) /\ w.answer # "written"
    BY DEF WriteRecord, WriteOK, FirstCall
  <1>2. /\ writes' = Append(writes, w) /\ disk' = disk
        /\ writes \in Seq(WriteRecord) /\ Len(writes) \in Nat /\ Len(writes) < MaxWrites
    BY DEF Begin, FilesInv, FilesTypeOK
  <1>3. /\ writes' \in Seq(WriteRecord) /\ Len(writes') = Len(writes) + 1
        /\ DOMAIN writes \subseteq DOMAIN writes'
        /\ \A n \in DOMAIN writes : writes'[n] = writes[n]
        /\ \A n \in DOMAIN writes' : n \in DOMAIN writes \/ writes'[n] = w
    BY <1>1, <1>2
  <1>4. Len(writes') <= MaxWrites
    BY <1>2, <1>3, FilesAssumption
  <1>5. ASSUME NEW f \in File, disk'[f] # Absent
        PROVE  FileOK(f)'
    BY <1>2, <1>3, <1>5 DEF FilesInv, FileOK
  <1>6. TakeTurns'
    <2> SUFFICES ASSUME NEW m \in DOMAIN writes', NEW k \in DOMAIN writes', m < k,
                        writes'[k].server = writes'[m].server
                 PROVE  writes'[m].at \in {"done", "unanswered"}
      BY DEF TakeTurns
    <2>1. m \in DOMAIN writes /\ writes'[m] = writes[m]
      BY <1>2, <1>3
    <2>2. CASE k \in DOMAIN writes
      BY <1>3, <2>1, <2>2 DEF FilesInv, TakeTurns
    <2>3. CASE writes'[k] = w
      BY <2>1, <2>3 DEF Begin, Busy
    <2> QED
      BY <1>3, <2>2, <2>3
  <1>7. ASSUME disk[IntentFile] # Absent, NEW k \in DOMAIN writes'
        PROVE  ~Superseded(disk[IntentFile].by, k)'
    <2>1. IntentFile \in File
      BY DEF File
    <2>2. disk[IntentFile].by \in DOMAIN writes
      BY <1>7, <2>1 DEF FilesInv, FileOK
    <2>3. k \in DOMAIN writes => ~Superseded(disk[IntentFile].by, k)
      BY <1>7 DEF FilesInv
    <2> QED
      BY <1>1, <1>2, <1>3, <2>2, <2>3 DEF Superseded
  <1> QED
    BY <1>1, <1>2, <1>3, <1>4, <1>5, <1>6, <1>7 DEF FilesInv, FilesTypeOK

\* Where a write under way is says which kind of write it is, and how far its
\* temporary file got.
LEMMA UnderWay ==
  ASSUME FilesInv, NEW n \in DOMAIN writes
  PROVE  /\ writes[n] \in WriteRecord /\ WriteOK(writes[n])
         /\ n \in 1..Len(writes)
         /\ writes \in Seq(WriteRecord)
  BY DEF FilesInv, FilesTypeOK

\* The steps of exclusive_create_write.
LEMMA CreateKeepsFiles ==
  ASSUME FilesInv, NEW n \in DOMAIN writes, OpenExclusive(n) \/ Fill(n)
  PROVE  FilesInv'
  <1> DEFINE Ended(answer) == [writes[n] EXCEPT !.at = "return", !.answer = answer]
  <1>1. writes[n] \in WriteRecord /\ WriteOK(writes[n]) /\ writes \in Seq(WriteRecord)
    BY UnderWay
  <1>2. writes[n].mode = "create" /\ writes[n].temp = "none" /\ ~writes[n].orphan
        /\ writes[n].at \in {"open", "fill"} /\ writes[n].answer = "none"
    BY <1>1 DEF OpenExclusive, Fill, WriteOK
  <1>3. ASSUME NEW answer \in {"written", "refused_existing_path", "file_error"}
        PROVE  /\ Ends(n, answer) => writes' = [writes EXCEPT ![n] = Ended(answer)]
               /\ Ended(answer) \in WriteRecord /\ WriteOK(Ended(answer))
               /\ SameTask(writes[n], Ended(answer)) /\ Ended(answer).mode = "create"
    BY <1>1, <1>2 DEF Ends, WriteRecord, WriteOK, SameTask, At, Answer
  <1>4. CASE OpenExclusive(n)
    <2> DEFINE w == [writes[n] EXCEPT !.at = "fill"]
    <2>1. /\ w \in WriteRecord /\ WriteOK(w) /\ SameTask(writes[n], w) /\ w.mode = "create"
      BY <1>1, <1>2 DEF WriteRecord, WriteOK, SameTask, At
    <2>2. CASE Put(n, "empty", FALSE) /\ writes' = [writes EXCEPT ![n].at = "fill"]
      <3>1. writes' = [writes EXCEPT ![n] = w]
        BY <1>1, <2>2
      <3> QED
        BY <1>2, <2>1, <2>2, <3>1, WriteGoesOn DEF Part
    <2>3. ASSUME UNCHANGED disk, NEW answer \in {"refused_existing_path", "file_error"},
                 Ends(n, answer)
          PROVE  FilesInv'
      BY <1>2, <1>3, <2>3, WriteGoesOn
    <2> QED
      BY <1>4, <2>2, <2>3 DEF OpenExclusive
  <1>5. CASE Fill(n)
    <2>1. PICK part \in Part :
            /\ IF Owns(n) THEN Put(n, part, FALSE) ELSE UNCHANGED disk
            /\ Ends(n, IF part = "all" THEN "written" ELSE "file_error")
      BY <1>5 DEF Fill
    <2> DEFINE answer == IF part = "all" THEN "written" ELSE "file_error"
    <2>2. answer \in {"written", "refused_existing_path", "file_error"} /\ Ends(n, answer)
      BY <2>1
    <2> HIDE DEF answer
    <2>3. UNCHANGED disk \/ Put(n, part, FALSE)
      BY <2>1
    <2> QED
      BY <1>2, <1>3, <2>2, <2>3, WriteGoesOn
  <1> QED
    BY <1>4, <1>5

\* The steps of atomic_replace_write.
LEMMA ReplaceKeepsFiles ==
  ASSUME FilesInv, NEW n \in DOMAIN writes, MakeTemp(n) \/ FillTemp(n) \/ Replace(n)
  PROVE  FilesInv'
  <1>1. writes[n] \in WriteRecord /\ WriteOK(writes[n]) /\ writes \in Seq(WriteRecord)
    BY UnderWay
  <1>2. /\ writes[n].mode = "replace" /\ ~writes[n].orphan /\ writes[n].answer = "none"
        /\ writes[n].at \in {"mkstemp", "fill_temp", "replace"}
        /\ writes[n].at = "mkstemp" => writes[n].temp = "none"
        /\ writes[n].at # "mkstemp" => writes[n].temp # "none"
    BY <1>1 DEF MakeTemp, FillTemp, Replace, WriteOK
  <1>3. ASSUME NEW w \in WriteRecord, WriteOK(w), SameTask(writes[n], w),
               w.answer # "written", writes' = [writes EXCEPT ![n] = w], UNCHANGED disk
        PROVE  FilesInv'
    BY <1>2, <1>3, WriteGoesOn
  <1>4. CASE writes[n].temp # "none" /\ TempFails(n) /\ UNCHANGED disk
    <2> DEFINE w == [writes[n] EXCEPT !.at = "return", !.answer = "file_error", !.orphan = TRUE]
    <2>1. w \in WriteRecord /\ WriteOK(w) /\ SameTask(writes[n], w) /\ w.answer # "written"
      BY <1>1, <1>2, <1>4 DEF WriteRecord, WriteOK, SameTask, At, Answer
    <2>2. writes' = [writes EXCEPT ![n] = w]
      BY <1>1, <1>4 DEF TempFails
    <2> QED
      BY <1>3, <1>4, <2>1, <2>2
  <1>5. CASE MakeTemp(n)
    <2>1. CASE writes' = [writes EXCEPT ![n].at = "fill_temp", ![n].temp = "partial"]
      <3> DEFINE w == [writes[n] EXCEPT !.at = "fill_temp", !.temp = "partial"]
      <3>1. w \in WriteRecord /\ WriteOK(w) /\ SameTask(writes[n], w) /\ w.answer # "written"
        BY <1>1, <1>2 DEF WriteRecord, WriteOK, SameTask, At, Part
      <3>2. writes' = [writes EXCEPT ![n] = w]
        BY <1>1, <2>1
      <3> QED
        BY <1>3, <1>5, <3>1, <3>2 DEF MakeTemp
    <2>2. CASE Ends(n, "file_error")
      <3> DEFINE w == [writes[n] EXCEPT !.at = "return", !.answer = "file_error"]
      <3>1. w \in WriteRecord /\ WriteOK(w) /\ SameTask(writes[n], w) /\ w.answer # "written"
        BY <1>1, <1>2, <1>5 DEF MakeTemp, WriteRecord, WriteOK, SameTask, At, Answer
      <3>2. writes' = [writes EXCEPT ![n] = w]
        BY <1>1, <2>2 DEF Ends
      <3> QED
        BY <1>3, <1>5, <3>1, <3>2 DEF MakeTemp
    <2> QED
      BY <1>5, <2>1, <2>2 DEF MakeTemp
  <1>6. CASE FillTemp(n)
    <2>1. CASE writes' = [writes EXCEPT ![n].at = "replace", ![n].temp = "all"]
      <3> DEFINE w == [writes[n] EXCEPT !.at = "replace", !.temp = "all"]
      <3>1. w \in WriteRecord /\ WriteOK(w) /\ SameTask(writes[n], w) /\ w.answer # "written"
        BY <1>1, <1>2 DEF WriteRecord, WriteOK, SameTask, At, Part
      <3>2. writes' = [writes EXCEPT ![n] = w]
        BY <1>1, <2>1
      <3> QED
        BY <1>3, <1>6, <3>1, <3>2 DEF FillTemp
    <2>2. CASE TempFails(n)
      BY <1>2, <1>4, <1>6, <2>2 DEF FillTemp
    <2> QED
      BY <1>6, <2>1, <2>2 DEF FillTemp
  <1>7. CASE Replace(n)
    <2>1. CASE Replaced(n) /\ writes' = [writes EXCEPT ![n].at = "return",
                  ![n].answer = "written", ![n].temp = "none"]
      <3> DEFINE w == [writes[n] EXCEPT !.at = "return", !.answer = "written", !.temp = "none"]
      <3>1. w \in WriteRecord /\ WriteOK(w) /\ SameTask(writes[n], w) /\ w.answer = "written"
        BY <1>1, <1>2 DEF WriteRecord, WriteOK, SameTask, At, Answer
      <3>2. writes' = [writes EXCEPT ![n] = w]
        BY <1>1, <2>1
      <3> QED
        BY <1>2, <2>1, <3>1, <3>2, WriteGoesOn DEF Replaced, Part
    <2>2. CASE UNCHANGED disk /\ TempFails(n)
      BY <1>2, <1>4, <1>7, <2>2 DEF Replace
    <2> QED
      BY <1>7, <2>1, <2>2 DEF Replace
  <1> QED
    BY <1>5, <1>6, <1>7

\* A file a user saves is theirs.
LEMMA UserSavesKeepsFiles ==
  ASSUME FilesInv, NEW p \in Export, UserSaves(p)
  PROVE  FilesInv'
  <1> DEFINE file == [by |-> 0, part |-> "all", synced |-> TRUE]
  <1>1. file \in Content /\ file # Absent
    <2>1. 0 \in 0..MaxWrites
      BY FilesAssumption
    <2>2. file \in Content
      BY <2>1 DEF Content, Part
    <2> HIDE DEF file
    <2> QED
      BY <2>2, AbsentAssumption
  <1>2. p \in File /\ p # IntentFile /\ writes' = writes
    BY FilesAssumption DEF File, UserSaves
  <1>3. /\ disk' \in [File -> Content \union {Absent}]
        /\ disk'[p] = file
        /\ \A f \in File \ {p} : disk'[f] = disk[f]
    BY <1>1, <1>2 DEF FilesInv, FilesTypeOK, UserSaves
  <1>4. ASSUME NEW f \in File, disk'[f] # Absent
        PROVE  FileOK(f)'
    BY <1>2, <1>3, <1>4 DEF FilesInv, FileOK
  <1>5. ASSUME NEW n \in DOMAIN writes', writes'[n].mode = "replace",
               writes'[n].answer = "written"
        PROVE  disk'[writes'[n].file] # Absent
    <2>1. writes[n] \in WriteRecord
      BY <1>2, UnderWay
    <2>2. writes[n].file \in File
      BY <2>1 DEF WriteRecord
    <2> QED
      BY <1>1, <1>2, <1>3, <1>5, <2>2 DEF FilesInv
  <1>6. TakeTurns'
    BY <1>2 DEF FilesInv, TakeTurns
  <1>7. ASSUME disk'[IntentFile] # Absent, NEW n \in DOMAIN writes'
        PROVE  ~Superseded(disk[IntentFile].by, n)'
    <2>1. IntentFile \in File /\ disk'[IntentFile] = disk[IntentFile]
      BY <1>2, <1>3 DEF File
    <2> QED
      BY <1>2, <1>7, <2>1 DEF FilesInv, Superseded
  <1> QED
    BY <1>2, <1>3, <1>4, <1>5, <1>6, <1>7 DEF FilesInv, FilesTypeOK

\* A server that ends in the middle of a write tells nobody.
LEMMA CrashKeepsFiles ==
  ASSUME FilesInv, NEW s \in Server, Crash(s)
  PROVE  FilesInv'
  <1>1. PICK n \in DOMAIN writes :
        /\ writes[n].at \notin {"done", "unanswered"}
        /\ writes' = [writes EXCEPT ![n].at = "unanswered"]
        /\ IF writes[n].at = "fill" /\ Owns(n)
             THEN \E part \in Part : Put(n, part, FALSE)
             ELSE UNCHANGED disk
    BY DEF Crash
  <1>2. writes[n] \in WriteRecord /\ WriteOK(writes[n]) /\ writes \in Seq(WriteRecord)
    BY UnderWay
  <1> DEFINE w == [writes[n] EXCEPT !.at = "unanswered"]
  <1>3. /\ w \in WriteRecord /\ WriteOK(w) /\ SameTask(writes[n], w)
        /\ w.answer = writes[n].answer /\ w.mode = writes[n].mode
    BY <1>1, <1>2 DEF WriteRecord, WriteOK, SameTask, At
  <1>4. writes' = [writes EXCEPT ![n] = w]
    BY <1>1, <1>2
  <1>5. UNCHANGED disk
        \/ (w.mode = "create" /\ \E part \in Part, synced \in BOOLEAN : Put(n, part, synced))
    BY <1>1, <1>2, <1>3 DEF WriteOK
  <1> HIDE DEF w
  <1>6. writes[n].answer \in {"none", w.answer}
    BY <1>3
  <1>7. CASE UNCHANGED disk
    BY <1>1, <1>3, <1>4, <1>6, <1>7, WriteGoesOn
  <1>8. CASE w.mode = "create" /\ \E part \in Part, synced \in BOOLEAN : Put(n, part, synced)
    BY <1>1, <1>3, <1>4, <1>6, <1>8, WriteGoesOn
  <1> QED
    BY <1>5, <1>7, <1>8

\* Returning touches no file.
LEMMA ReturnKeepsFiles ==
  ASSUME FilesInv, NEW n \in DOMAIN writes, Return(n)
  PROVE  FilesInv'
  <1>1. PICK at \in {"done", "unanswered"} : writes' = [writes EXCEPT ![n].at = at]
    BY DEF Return
  <1>2. writes[n] \in WriteRecord /\ WriteOK(writes[n]) /\ writes \in Seq(WriteRecord)
    BY UnderWay
  <1>3. writes[n].at = "return" /\ UNCHANGED disk
    BY DEF Return
  <1> DEFINE w == [writes[n] EXCEPT !.at = at]
  <1>4. /\ w \in WriteRecord /\ WriteOK(w) /\ SameTask(writes[n], w)
        /\ w.answer = writes[n].answer
    BY <1>1, <1>2, <1>3 DEF WriteRecord, WriteOK, SameTask, At
  <1>5. writes' = [writes EXCEPT ![n] = w]
    BY <1>1, <1>2
  <1> HIDE DEF w
  <1>6. writes[n].at \notin {"done", "unanswered"} /\ writes[n].answer \in {"none", w.answer}
    BY <1>3, <1>4
  <1> QED
    BY <1>3, <1>4, <1>5, <1>6, WriteGoesOn

\* A power loss ends the writes under way, and can only shorten what was not
\* flushed, which no replace left.
LEMMA PowerLossKeepsFiles ==
  ASSUME FilesInv, PowerLoss
  PROVE  FilesInv'
  <1>1. /\ writes \in Seq(WriteRecord) /\ Len(writes) \in Nat /\ Len(writes) <= MaxWrites
        /\ disk \in [File -> Content \union {Absent}]
        /\ \A n \in DOMAIN writes : writes[n] \in WriteRecord /\ WriteOK(writes[n])
    BY DEF FilesInv, FilesTypeOK
  <1>2. /\ DOMAIN writes' = DOMAIN writes
        /\ \A n \in DOMAIN writes : writes'[n] =
              IF writes[n].at = "done" THEN writes[n]
              ELSE [writes[n] EXCEPT !.at = "unanswered"]
    BY DEF PowerLoss
  <1>3. ASSUME NEW n \in DOMAIN writes
        PROVE  /\ writes'[n] \in WriteRecord /\ WriteOK(writes'[n])
               /\ SameTask(writes[n], writes'[n]) /\ writes'[n].answer = writes[n].answer
    BY <1>1, <1>2 DEF WriteRecord, WriteOK, SameTask, At
  <1>4. writes' \in Seq(WriteRecord) /\ Len(writes') = Len(writes)
    <2> DEFINE Stopped(n) == IF writes[n].at = "done" THEN writes[n]
                             ELSE [writes[n] EXCEPT !.at = "unanswered"]
    <2>1. writes' = [n \in 1..Len(writes) |-> Stopped(n)]
      <3>1. writes' = [n \in DOMAIN writes |-> Stopped(n)]
        BY DEF PowerLoss
      <3>2. DOMAIN writes = 1..Len(writes)
        BY <1>1
      <3> QED
        BY <3>1, <3>2
    <2>2. \A n \in 1..Len(writes) : Stopped(n) \in WriteRecord
      BY <1>1, <1>2, <1>3
    <2> HIDE DEF Stopped
    <2> QED
      BY <1>1, <2>1, <2>2
  <1>5. PICK part \in Part : disk' = [f \in File |->
            IF disk[f] = Absent \/ disk[f].synced THEN disk[f]
            ELSE [disk[f] EXCEPT !.part = IF @ = "all" THEN part ELSE "empty",
                                 !.synced = TRUE]]
    BY DEF PowerLoss
  <1>6. ASSUME NEW f \in File
        PROVE  /\ disk'[f] \in Content \union {Absent}
               /\ disk'[f] = Absent <=> disk[f] = Absent
               /\ disk[f] # Absent => disk'[f].by = disk[f].by
               /\ (disk[f] # Absent /\ disk[f].synced) => disk'[f] = disk[f]
    <2>1. CASE disk[f] = Absent \/ disk[f].synced
      BY <1>1, <1>5, <2>1
    <2>2. CASE disk[f] # Absent /\ ~disk[f].synced
      <3>1. disk[f] \in Content
        BY <1>1, <2>2
      <3>2. disk'[f] \in Content /\ disk'[f].by = disk[f].by
        BY <1>5, <2>2, <3>1 DEF Content, Part
      <3> QED
        BY <2>2, <3>2, AbsentAssumption
    <2> QED
      BY <2>1, <2>2
  <1>7. ASSUME NEW f \in File, disk'[f] # Absent
        PROVE  FileOK(f)'
    <2>1. FileOK(f)
      BY <1>6, <1>7 DEF FilesInv
    <2> QED
      BY <1>2, <1>3, <1>6, <1>7, <2>1 DEF FileOK, SameTask
  <1>8. ASSUME NEW n \in DOMAIN writes, writes'[n].mode = "replace",
               writes'[n].answer = "written"
        PROVE  disk'[writes'[n].file] # Absent
    <2>1. writes[n].file \in File
      BY <1>1 DEF WriteRecord
    <2> QED
      BY <1>3, <1>6, <1>8, <2>1 DEF FilesInv, SameTask
  <1>9. disk' \in [File -> Content \union {Absent}]
    BY <1>5, <1>6
  <1>10. TakeTurns'
    <2>1. ASSUME NEW n \in DOMAIN writes
          PROVE  writes'[n].at \in {"done", "unanswered"}
      BY <1>1, <1>2 DEF WriteRecord
    <2> QED
      BY <1>2, <2>1 DEF TakeTurns
  <1>11. ASSUME disk'[IntentFile] # Absent, NEW n \in DOMAIN writes
         PROVE  ~Superseded(disk[IntentFile].by, n)'
    <2>1. /\ IntentFile \in File /\ disk[IntentFile] # Absent
          /\ disk'[IntentFile].by = disk[IntentFile].by
      BY <1>6, <1>11 DEF File
    <2>2. disk[IntentFile].by \in DOMAIN writes
      BY <2>1 DEF FilesInv, FileOK
    <2>3. ~Superseded(disk[IntentFile].by, n)
      BY <2>1 DEF FilesInv
    <2> QED
      BY <1>3, <2>1, <2>2, <2>3 DEF Superseded, SameTask
  <1> QED
    BY <1>1, <1>2, <1>3, <1>4, <1>7, <1>8, <1>9, <1>10, <1>11 DEF FilesInv, FilesTypeOK

LEMMA FilesStep ==
  ASSUME FilesInv, [FilesNext]_filesVars
  PROVE  FilesInv'
  <1>1. ASSUME NEW s \in Server, NEW p \in Export, NEW overwrite \in BOOLEAN,
               WriteExport(s, p, overwrite)
        PROVE  FilesInv'
    <2> DEFINE mode == IF overwrite THEN "replace" ELSE "create"
    <2>1. p \in File /\ p # IntentFile /\ mode \in {"create", "replace"}
      BY FilesAssumption DEF File
    <2>2. FirstCall(mode) \in At /\ {"done", "unanswered"} \subseteq At
          /\ {"none", "file_error"} \subseteq Answer
      BY DEF FirstCall, At, Answer
    <2>3. \/ Begin(s, p, mode, None, "done", "file_error")
          \/ Begin(s, p, mode, None, FirstCall(mode), "none")
      BY <1>1 DEF WriteExport
    <2> HIDE DEF mode
    <2> QED
      BY <2>1, <2>2, <2>3, BeginKeepsFiles
  <1>2. ASSUME NEW s \in Server, NEW i \in Intent \union {None}, SetDesignIntent(s, i)
        PROVE  FilesInv'
    <2>1. IntentFile \in File /\ FirstCall("replace") = "mkstemp"
          /\ "mkstemp" \in At /\ "none" \in Answer
      BY DEF File, FirstCall, At, Answer
    <2> QED
      BY <1>2, <2>1, BeginKeepsFiles DEF SetDesignIntent
  <1>3. ASSUME NEW n \in DOMAIN writes,
               \/ OpenExclusive(n) \/ Fill(n) \/ MakeTemp(n) \/ FillTemp(n) \/ Replace(n)
               \/ Return(n)
        PROVE  FilesInv'
    BY <1>3, CreateKeepsFiles, ReplaceKeepsFiles, ReturnKeepsFiles
  <1>4. ASSUME NEW s \in Server, Crash(s)
        PROVE  FilesInv'
    BY <1>4, CrashKeepsFiles
  <1>5. ASSUME NEW p \in Export, UserSaves(p)
        PROVE  FilesInv'
    BY <1>5, UserSavesKeepsFiles
  <1>6. CASE PowerLoss
    BY <1>6, PowerLossKeepsFiles
  <1>7. CASE UNCHANGED filesVars
    BY <1>7 DEF filesVars, FilesInv, FilesTypeOK, FileOK, TakeTurns, Superseded
  <1> QED
    BY <1>1, <1>2, <1>3, <1>4, <1>5, <1>6, <1>7 DEF FilesNext

\* The files say what was done to them: the invariant the theorems below rest on.
THEOREM FilesInvariant ==
  FilesSpec => []FilesInv
  <1>1. FilesInit => FilesInv
    BY FilesInitially
  <1>2. FilesInv /\ [FilesNext]_filesVars => FilesInv'
    BY FilesStep
  <1> QED
    BY <1>1, <1>2, PTL DEF FilesSpec

\* The disk and the calls keep to their types.
THEOREM FilesTyped ==
  FilesSpec => []FilesTypeOK
  <1>1. FilesInv => FilesTypeOK
    BY DEF FilesInv
  <1> QED
    BY <1>1, FilesInvariant, PTL

-----------------------------------------------------------------------------
(* Part 2: what it is for.                                                 *)

\* A partial file can only be at a path that held nothing before.
THEOREM PartialFilesAreNew ==
  FilesSpec => []TornOnlyIfNew
  <1>1. ASSUME FilesInv, NEW f \in File, disk[f] # Absent, disk[f].part # "all"
        PROVE  /\ f # IntentFile
               /\ disk[f].by # 0
               /\ writes[disk[f].by].mode = "create"
    <2>1. /\ disk[f].by # 0 /\ disk[f].by \in DOMAIN writes
          /\ writes[disk[f].by].file = f /\ writes[disk[f].by].mode # "replace"
      BY <1>1 DEF FilesInv, FileOK
    <2>2. writes[disk[f].by] \in WriteRecord /\ WriteOK(writes[disk[f].by])
      BY <1>1, <2>1, UnderWay
    <2> QED
      BY <2>1, <2>2 DEF WriteOK, WriteRecord
  <1>2. FilesInv => TornOnlyIfNew
    BY <1>1 DEF TornOnlyIfNew
  <1> QED
    BY <1>2, FilesInvariant, PTL

\* An error that a caller gets names the temporary file that outlives its write, and
\* no other.
THEOREM ErrorsNameLeftovers ==
  FilesSpec => []LeftoversAreNamed
  <1>1. FilesInv => LeftoversAreNamed
    BY DEF FilesInv, WriteOK, LeftoversAreNamed
  <1> QED
    BY <1>1, FilesInvariant, PTL

\* What a read of the intent answers is of a set that went through, which no later
\* one of the same server has replaced; when there is none no set went through; and
\* it can only be undecodable for a number that is not finite.
THEOREM IntentReadIsTheLast ==
  FilesSpec => []IntentIsOfTheLastSet
  <1>1. ASSUME FilesInv
        PROVE  IntentIsOfTheLastSet
    <2>1. IntentFile \in File
      BY DEF File
    <2>2. \A n \in DOMAIN writes : writes[n].file = IntentFile => writes[n].mode = "replace"
      BY <1>1 DEF FilesInv, WriteOK
    <2>3. CASE disk[IntentFile] = Absent
      <3>1. ReadIntent = [kind |-> "unset", write |-> 0]
        BY <2>3 DEF ReadIntent
      <3> QED
        BY <1>1, <2>2, <2>3, <3>1 DEF FilesInv, IntentIsOfTheLastSet
    <2>4. CASE disk[IntentFile] # Absent
      <3> DEFINE by == disk[IntentFile].by
      <3>1. FileOK(IntentFile)
        BY <1>1, <2>1, <2>4 DEF FilesInv
      <3>2. /\ by # 0 /\ by \in DOMAIN writes /\ disk[IntentFile].part = "all"
            /\ writes[by].file = IntentFile /\ writes[by].answer = "written"
        BY <2>2, <3>1 DEF FileOK
      <3>3. /\ ReadIntent.write = by
            /\ ReadIntent.kind = "corrupt" => writes[by].intent \in NonFinite
        BY <2>4, <3>2 DEF ReadIntent
      <3>4. \A n \in DOMAIN writes : ~Superseded(by, n)
        BY <1>1, <2>4 DEF FilesInv
      <3> HIDE DEF by
      <3> QED
        BY <3>2, <3>3, <3>4 DEF IntentIsOfTheLastSet
    <2> QED
      BY <2>3, <2>4
  <1>2. FilesInv => IntentIsOfTheLastSet
    BY <1>1
  <1> QED
    BY <1>2, FilesInvariant, PTL

\* What is under a name stays until a replace that was asked for puts a whole
\* file there, whatever else writes to the disk.
THEOREM NoSilentOverwrite ==
  FilesSpec => KeepsFiles
  <1> DEFINE Kept(f) ==
        \/ disk'[f].by = disk[f].by
        \/ /\ disk'[f].part = "all"
           /\ \E n \in DOMAIN writes : /\ n = disk'[f].by
                                       /\ writes[n].mode = "replace"
                                       /\ writes[n].file = f
  <1>1. ASSUME FilesInv, [FilesNext]_filesVars, NEW f \in File,
               disk[f] # Absent, disk'[f] # disk[f]
        PROVE  Kept(f)
    <2>1. disk \in [File -> Content \union {Absent}]
      BY <1>1 DEF FilesInv, FilesTypeOK
    <2>2. ASSUME NEW n \in DOMAIN writes, OpenExclusive(n) \/ Fill(n) \/ Replace(n)
          PROVE  /\ writes[n].file = f
                 /\ disk'[f].by = n
                 /\ disk[f].by = n \/ (Replace(n) /\ disk'[f].part = "all")
      <3>1. PICK part \in Part, synced \in BOOLEAN :
              /\ Put(n, part, synced)
              /\ \/ OpenExclusive(n) /\ disk[writes[n].file] = Absent
                 \/ Fill(n) /\ Owns(n)
                 \/ Replace(n) /\ part = "all"
        BY <1>1, <2>2 DEF OpenExclusive, Fill, Replace, Replaced, Part
      <3>2. writes[n].file = f /\ disk'[f].by = n /\ disk'[f].part = part
        BY <1>1, <2>1, <3>1 DEF Put
      <3> QED
        BY <1>1, <3>1, <3>2 DEF Owns
    <2>3. ASSUME NEW n \in DOMAIN writes, Replace(n)
          PROVE  writes[n].mode = "replace"
      BY <1>1, <2>3, UnderWay DEF Replace, WriteOK
    <2>4. ASSUME NEW s \in Server, Crash(s)
          PROVE  disk'[f].by = disk[f].by
      <3>1. PICK n \in DOMAIN writes, part \in Part : Owns(n) /\ Put(n, part, FALSE)
        BY <1>1, <2>4 DEF Crash
      <3> QED
        BY <1>1, <2>1, <3>1 DEF Put, Owns
    <2>5. CASE PowerLoss
      <3>1. disk[f] \in Content
        BY <1>1, <2>1
      <3> QED
        BY <1>1, <2>5, <3>1 DEF PowerLoss, Content
    <2>6. ASSUME NEW p \in Export, UserSaves(p)
          PROVE  FALSE
      BY <1>1, <2>1, <2>6 DEF UserSaves
    <2>7. ~UNCHANGED disk
      BY <1>1
    <2>8. \/ \E n \in DOMAIN writes : OpenExclusive(n) \/ Fill(n) \/ Replace(n)
          \/ \E s \in Server : Crash(s)
          \/ PowerLoss
      BY <1>1, <2>6, <2>7 DEF FilesNext, WriteExport, SetDesignIntent, Begin, MakeTemp,
         FillTemp, Return, filesVars
    <2> QED
      BY <2>2, <2>3, <2>4, <2>5, <2>8
  <1>2. FilesInv /\ [FilesNext]_filesVars =>
          [\A f \in File : (disk[f] # Absent /\ disk'[f] # disk[f]) => Kept(f)]_filesVars
    BY <1>1
  <1> QED
    BY <1>2, FilesInvariant, PTL DEF FilesSpec, KeepsFiles
=============================================================================
