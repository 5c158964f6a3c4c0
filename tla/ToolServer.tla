------------------------------ MODULE ToolServer ------------------------------
(***************************************************************************)
(* The tools a client calls, and the process-wide lock each of them holds  *)
(* from its first step to its answer.  A tool is a row of Script: the      *)
(* steps it takes, some of them on the session (here its lifecycle), each  *)
(* dispatch ending in an audit record.  Some tools dispatch more than      *)
(* once, or read the session again after a dispatch; another client's call *)
(* would fit in between.                                                   *)
(***************************************************************************)
EXTENDS SessionLifecycle, Naturals, FiniteSets, SequencesExt

CONSTANTS
    Client,     \* the SDK's threads
    Sections,   \* the inspection sections, in the canonical order
    Unknown     \* a section name the contract does not have

ASSUME ServerAssumption ==
    /\ Sections \in Seq(Range(Sections))
    /\ IsInjective(Sections)
    /\ Unknown \notin Range(Sections)
    /\ None \notin Client

VARIABLES
    lock,       \* TOOL_DISPATCH_LOCK: the client that holds it
    runs,       \* runs[c]: the tool call client c is in
    last        \* the client of the log's last record

serverVars == <<lock, runs, last>>
vars == <<lifecycleVars, serverVars>>

-----------------------------------------------------------------------------
(* The tools.                                                              *)

\* "record" closes the dispatch begun at the session, intent or history step
\* before it; preflight dispatches nothing.  validate_setup is the table's one
\* deferred tool whose assembler exists, and is here as its row plans it.
Script ==
    [preflight_environment     |-> <<"preflight">>,
     attach                    |-> <<"attach", "record">>,
     list_selection_options    |-> <<"verify", "list", "record">>,
     select                    |-> <<"verify", "select", "record">>,
     get_session_status        |-> <<"status", "record">>,
     inspect_design            |-> <<"verify", "read", "record",
                                     "status", "record", "stamp">>,
     validate_setup            |-> <<"verify", "read", "record",
                                     "status", "record", "stamp">>,
     set_design_intent         |-> <<"intent", "record">>,
     get_design_intent         |-> <<"intent", "record">>,
     clear_design_intent       |-> <<"intent", "record">>,
     get_audit_log             |-> <<"history", "record">>,
     export_diagnostics_bundle |-> <<"preflight", "history", "record", "write">>]

Tool == DOMAIN Script

\* The tools an assembler serves.
Assembled == {"inspect_design", "validate_setup", "export_diagnostics_bundle"}

Result == {"ok", "typed_error", "cannot_evaluate", "refused_no_session",
           "refused_selection_order", "refused_incomplete_selection"}
Answer == {"none", "raised", "audit_failure", "assembly_error", "write_failed",
           "refused_existing_path"} \union Result

\* What a read was of, and what an answer says it was of.
Origin == [process : Process \union {None}, project : Name \union {None},
           design : Name \union {None}]
Nowhere == [process |-> None, project |-> None, design |-> None]

\* A run.  pc counts the steps taken and is 0 when the client is in no tool; the
\* sections of the answer are a sequence of names, each with its read_status.
Run == [tool : Tool, pc : 0..7, asked : SUBSET (Range(Sections) \union {Unknown}),
        result : Result \union {"none"}, read : Origin, got : SUBSET Range(Sections),
        stamp : Origin, sections : Seq(Range(Sections) \X {"ok", "not_readable"}),
        records : 0..2, answer : Answer]

Idle == [tool |-> "preflight_environment", pc |-> 0, asked |-> {}, result |-> "none",
         read |-> Nowhere, got |-> {}, stamp |-> Nowhere, sections |-> <<>>,
         records |-> 0, answer |-> "none"]

ServerTypeOK ==
    /\ health \in {"DETACHED", "ATTACHED", "SUSPECT", "LOST"}
    /\ DOMAIN selections = SelectionField
    /\ environment \in Process \union {None}
    /\ lock \in Client \union {None}
    /\ runs \in [Client -> Run]
    /\ last \in Client \union {None}

ServerInit ==
    /\ Init
    /\ lock = None
    /\ runs = [c \in Client |-> Idle]
    /\ last = None

\* What the session's state says a read made now is of.
Scope == [process |-> environment, project |-> selections["project"],
          design |-> selections["design"]]

Step(c) ==
    IF runs[c].pc = 0 \/ runs[c].answer # "none" THEN "none"
    ELSE Script[runs[c].tool][runs[c].pc]

-----------------------------------------------------------------------------
(* serialized: a tool runs holding the lock, and leaves it however it ends. *)

\* The lock is reentrant: only another thread's hold keeps c out.
Free(c) == runs[c].pc = 0 /\ lock \in {None, c}

\* An unknown section is refused before anything is read.
Checked(asked) == IF Unknown \in asked THEN "assembly_error" ELSE "none"

\* Only inspect_design is asked for sections: which ones matters, and not in
\* which order or how often.
Requests(tool) ==
    IF tool = "inspect_design" THEN SUBSET (Range(Sections) \union {Unknown}) ELSE {{}}

Call(c, tool, asked) ==
    /\ Free(c)
    /\ lock' = c
    /\ runs' = [runs EXCEPT ![c] = [Idle EXCEPT
            !.tool = tool, !.pc = 1, !.asked = asked, !.answer = Checked(asked)]]
    /\ UNCHANGED <<lifecycleVars, last>>

\* Mutant: a tool that raises is past the line that gives the lock back.
ReleaseUnlessRaised(c) ==
    IF runs[c].answer \in {"raised", "assembly_error"} THEN lock ELSE None

Released(c) == None

Return(c) ==
    /\ runs[c].answer # "none"
    /\ lock' = Released(c)
    /\ runs' = [runs EXCEPT ![c] = Idle]
    /\ UNCHANGED <<lifecycleVars, last>>

-----------------------------------------------------------------------------
(* Steps.                                                                  *)

\* The step leaves the run as it says and goes to the next one.
Goes(c, run) == runs' = [runs EXCEPT ![c] = [run EXCEPT !.pc = @ + 1]]

Ends(c, run, answer) == runs' = [runs EXCEPT ![c] = [run EXCEPT !.answer = answer]]

Gives(c, result) == Goes(c, [runs[c] EXCEPT !.result = result])

\* reconnect_guarded: a suspect session is re-verified before the operation.
Verify(c) ==
    /\ Step(c) = "verify"
    /\ IF health = "SUSPECT" THEN Recover \/ Lose ELSE UNCHANGED lifecycleVars
    /\ Goes(c, runs[c])
    /\ UNCHANGED <<lock, last>>

\* Mutant: a design read asks for a session and not for its selections.
ReadRefusalSessionOnly == IF health # "ATTACHED" THEN "refused_no_session" ELSE "none"

\* The gates before a design read, and before a stage is listed or selected.
ReadRefusal ==
    IF health # "ATTACHED" THEN "refused_no_session"
    ELSE IF None \in {selections["project"], selections["design"]}
      THEN "refused_incomplete_selection"
    ELSE "none"

StageRefusal(s) ==
    IF health # "ATTACHED" THEN "refused_no_session"
    ELSE IF s # "project" /\ selections[Upstream[s]] = None
      THEN "refused_selection_order"
    ELSE "none"

\* What was attempted and did not complete: the session may be left as it was,
\* doubted or lost.
Fails(c) == (UNCHANGED lifecycleVars \/ Doubt \/ Lose) /\ Gives(c, "cannot_evaluate")

AttachStep(c) ==
    /\ Step(c) = "attach"
    /\ (\E p \in Process : Attach(p)) \/ FailToAttach
    /\ Gives(c, "ok")
    /\ UNCHANGED <<lock, last>>

ListStep(c) ==
    /\ Step(c) = "list"
    /\ \E s \in Stage :
        IF StageRefusal(s) # "none"
          THEN Gives(c, StageRefusal(s)) /\ UNCHANGED lifecycleVars
          ELSE (Gives(c, "ok") /\ UNCHANGED lifecycleVars) \/ Fails(c)
    /\ UNCHANGED <<lock, last>>

SelectStep(c) ==
    /\ Step(c) = "select"
    /\ \E s \in Stage :
        IF StageRefusal(s) # "none"
          THEN Gives(c, StageRefusal(s)) /\ UNCHANGED lifecycleVars
          ELSE \/ Fails(c)
               \/ /\ \E v \in ValueOf(s) : Select(s, v)
                  /\ Gives(c, "ok")
    /\ UNCHANGED <<lock, last>>

\* The design is read, or validated, in the session's scope.  A read may lack
\* sections that were asked for.
ReadStep(c) ==
    /\ Step(c) = "read"
    /\ IF ReadRefusal # "none"
         THEN Gives(c, ReadRefusal) /\ UNCHANGED lifecycleVars
         ELSE \/ Fails(c)
              \/ /\ \E got \in SUBSET runs[c].asked : Goes(c, [runs[c] EXCEPT
                        !.result = "ok", !.read = Scope, !.got = got])
                 /\ UNCHANGED lifecycleVars
    /\ UNCHANGED <<lock, last>>

\* get_session_status: a pure read, which an assembler takes its stamp from.
StatusStep(c) ==
    /\ Step(c) = "status"
    /\ Goes(c, [runs[c] EXCEPT !.result = "ok",
                               !.stamp.project = selections["project"],
                               !.stamp.design = selections["design"]])
    /\ UNCHANGED <<lifecycleVars, lock, last>>

\* The intent store's read or write, with the selection of the moment.
IntentStep(c) ==
    /\ Step(c) = "intent"
    /\ \/ Goes(c, [runs[c] EXCEPT !.result = "ok",
                   !.stamp = IF runs[c].tool = "get_design_intent" THEN @ ELSE Scope])
       \/ Gives(c, "typed_error")
    /\ UNCHANGED <<lifecycleVars, lock, last>>

HistoryStep(c) ==
    /\ Step(c) = "history"
    /\ Gives(c, "ok") \/ Gives(c, "typed_error")
    /\ UNCHANGED <<lifecycleVars, lock, last>>

\* preflight_environment: the environment of the session, if there is one.
PreflightStep(c) ==
    LET run == [runs[c] EXCEPT !.result = "ok", !.stamp.process = environment]
    IN  /\ Step(c) = "preflight"
        /\ IF runs[c].tool = "preflight_environment" THEN Ends(c, run, "ok") ELSE Goes(c, run)
        /\ UNCHANGED <<lifecycleVars, lock, last>>

\* Mutant: the lock is of a dispatch, and the next one takes it again.
GivesLockBack == lock' = None

\* The lock is of the whole tool: it is kept from one dispatch to the next.
KeepsLock == lock' = lock

\* The end of a dispatch: a result that is not ok is the tool's answer, and so is
\* the last dispatch's.  A handler that raised raises through the tool.
Recorded(c) ==
    LET run == [runs[c] EXCEPT !.records = @ + 1]
    IN  /\ Step(c) = "record"
        /\ IF runs[c].result = "typed_error" THEN Ends(c, run, "raised")
           ELSE IF runs[c].result # "ok" \/ runs[c].pc = Len(Script[runs[c].tool])
             THEN Ends(c, run, runs[c].result)
           ELSE Goes(c, run)
        /\ last' = c
        /\ KeepsLock
        /\ UNCHANGED lifecycleVars

\* An assembler cannot return a dispatch's failure as its own: it raises.
Unaudited(tool) == IF tool \in Assembled THEN "assembly_error" ELSE "audit_failure"

NotRecorded(c) ==
    /\ Step(c) = "record"
    /\ Ends(c, runs[c], IF runs[c].result = "typed_error" THEN "raised"
                        ELSE Unaudited(runs[c].tool))
    /\ UNCHANGED <<lifecycleVars, lock, last>>

\* One pass over the canonical order; a wanted section the read lacks is
\* not_readable.
InOrder(wanted, got) ==
    LET upTo[i \in 0..Len(Sections)] ==
            IF i = 0 THEN <<>>
            ELSE IF Sections[i] \notin wanted THEN upTo[i - 1]
            ELSE Append(upTo[i - 1], <<Sections[i], IF Sections[i] \in got THEN "ok"
                                                  ELSE "not_readable">>)
    IN  upTo[Len(Sections)]

\* Mutant: the pass picks out what was read.
OrderedSectionsRead(asked, got) == InOrder(got, got)

\* Every section asked for.
OrderedSections(asked, got) == InOrder(asked, got)

\* The environment comes from the session once more; without it, or without a
\* project and a design, nothing is answered.
Unattributable(stamp) == None \in {stamp.process, stamp.project, stamp.design}

StampStep(c) ==
    LET run == [runs[c] EXCEPT !.stamp.process = environment]
    IN  /\ Step(c) = "stamp"
        /\ IF Unattributable(run.stamp)
             THEN Ends(c, run, "assembly_error")
             ELSE Ends(c, [run EXCEPT !.sections = OrderedSections(run.asked, run.got)], "ok")
        /\ UNCHANGED <<lifecycleVars, lock, last>>

WriteStep(c) ==
    /\ Step(c) = "write"
    /\ \E answer \in {"ok", "refused_existing_path", "write_failed"} :
        Ends(c, runs[c], answer)
    /\ UNCHANGED <<lifecycleVars, lock, last>>

Takes(c) ==
    \/ Verify(c) \/ AttachStep(c) \/ ListStep(c) \/ SelectStep(c) \/ ReadStep(c)
    \/ StatusStep(c) \/ IntentStep(c) \/ HistoryStep(c) \/ PreflightStep(c)
    \/ Recorded(c) \/ NotRecorded(c) \/ StampStep(c) \/ WriteStep(c) \/ Return(c)

ServerNext ==
    \E c \in Client :
        \/ \E tool \in Tool : \E asked \in Requests(tool) : Call(c, tool, asked)
        \/ Takes(c)

ServerSpec == ServerInit /\ [][ServerNext]_vars

\* The thread in a tool runs: every operation it waits for has its own timeout.
FairServerSpec == ServerSpec /\ \A c \in Client : WF_vars(Takes(c))

-----------------------------------------------------------------------------
(* The invariant.                                                          *)

\* The session has an environment when it is attached.
SessionOK ==
    /\ \A f \in {"project", "design"} : selections[f] \in Name \union {None}
    /\ health \in {"ATTACHED", "SUSPECT"} => environment # None

Readers == {"inspect_design", "validate_setup"}

\* Where a tool under way is, and how many of its dispatches are on record; a
\* dispatch that ends has a result.
OnItsWay(run) ==
    /\ run.pc \in DOMAIN Script[run.tool]
    /\ Unknown \notin run.asked
    /\ run.records = Cardinality({i \in 1..(run.pc - 1) : Script[run.tool][i] = "record"})
    /\ Script[run.tool][run.pc] = "record" => run.result # "none"

\* A read-out under way: what was read is of the session as it still is, and
\* complete enough to be stamped; the status took its half of the stamp.
ReadStillHolds(run) ==
    /\ run.pc < 3 => run.read = Nowhere
    /\ run.pc = 3 => (run.read # Nowhere <=> run.result = "ok")
    /\ run.pc > 3 => run.read # Nowhere /\ run.result = "ok"
    /\ run.read # Nowhere => run.read = Scope /\ ~Unattributable(run.read)
    /\ run.pc > 4 => run.stamp.project = run.read.project /\ run.stamp.design = run.read.design

\* A read-out answered: with its stamp and its sections, or not at all.
ReadAnswered(run) ==
    IF run.answer = "ok"
      THEN /\ run.read # Nowhere /\ run.stamp = run.read
           /\ Unknown \notin run.asked
           /\ run.sections = OrderedSections(run.asked, run.got)
      ELSE run.read # Nowhere => run.answer = "assembly_error" /\ run.pc \in {3, 5}

RunOK(run) ==
    /\ run.pc # 0
    /\ run.got \subseteq run.asked
    /\ run.answer = "none" => OnItsWay(run)
    /\ IF run.tool \notin Readers THEN run.read = Nowhere
       ELSE IF run.answer = "none" THEN ReadStillHolds(run)
       ELSE ReadAnswered(run)

\* A client in a tool holds the lock, so there is one; what it has read, and what
\* it has put on record last, nobody else has touched since.
ServerInv ==
    /\ ServerTypeOK
    /\ SessionOK
    /\ \A c \in Client :
        IF runs[c].pc = 0 THEN runs[c] = Idle
        ELSE /\ lock = c
             /\ RunOK(runs[c])
             /\ runs[c].records = 1 => last = c

-----------------------------------------------------------------------------
(* Properties.                                                             *)

\* serialization.py: what stamps a read-out is of the read, and never "one
\* caller's project with another caller's design", though the stamp is taken by a
\* second dispatch and a third look at the session.
StampIsOfTheRead ==
    \A c \in Client :
        (runs[c].tool \in Readers /\ runs[c].answer = "ok")
            => runs[c].stamp = runs[c].read

\* The assemblers' between-calls sentinels ("the session ended before ...", "the
\* selection must have changed") cannot fire: a design that was read is answered,
\* but for a record that could not be written.
ReadIsAnswered ==
    \A c \in Client :
        (runs[c].read # Nowhere /\ runs[c].answer # "none")
            => \/ runs[c].answer = "ok"
               \/ runs[c].answer = "assembly_error"
                  /\ Script[runs[c].tool][runs[c].pc] = "record"

\* "Nothing requested goes unreported": an answered read-out has the sections
\* asked for and no other, each once and in the canonical order, and claims to
\* have read just those that were.
EverySectionIsReported ==
    \A c \in Client :
        (runs[c].tool = "inspect_design" /\ runs[c].answer = "ok") =>
            LET out == runs[c].sections
                Place(i) == CHOOSE k \in DOMAIN Sections : Sections[k] = out[i][1]
            IN  /\ {out[i][1] : i \in DOMAIN out} = runs[c].asked
                /\ \A i, j \in DOMAIN out : i < j => Place(i) < Place(j)
                /\ {out[i][1] : i \in {k \in DOMAIN out : out[k][2] = "ok"}} = runs[c].got

\* The records of one tool call are adjacent in the log: a second one is written
\* right after the first, so a log read between them has never another's.
RecordsOfACallAreTogether ==
    [][\A c \in Client :
        (runs[c].records = 1 /\ runs'[c].records = 2) => last = c]_vars

\* Whatever a tool does, raising included, the next caller gets in.
HolderReleases == \A c \in Client : lock = c ~> lock # c
=============================================================================
