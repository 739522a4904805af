----------------------------- MODULE Annotation -----------------------------
(***************************************************************************)
(* tester1/annotation.go: the annotations of a test run, shared by the     *)
(* test's goroutine, the goroutines of the servers and the one that waits  *)
(* for SIGINT.  They end in a visualization file, which cleanup writes     *)
(* when the test ends or is about to exit, unless checkPorcupine of        *)
(* kvtest1/porcupine.go has written it before.                             *)
(*                                                                         *)
(* An annotation is abstracted to its kind, and annotations to the set of  *)
(* them: no property asks for their order or wording.  Of continuous       *)
(* annotations the framework uses one tag, TAG_PARTITION; its description  *)
(* is what annotateFault or AnnotateTwoPartitions builds.  Each operator   *)
(* says what becomes of anVars or of a part of them.  Files can always be  *)
(* opened.                                                                 *)
(***************************************************************************)
EXTENDS Naturals, FiniteSets

CONSTANTS Srv,          \* the servers of the test
          Cleaner       \* the goroutines that call Annotation.cleanup

VARIABLES annotations,  \* the kinds of the annotations made so far
          continuous,   \* the ongoing TAG_PARTITION annotation
          finalized,
          finfo,        \* connected, crashed, and whether ckbegin.ts # 0
          visEnable,    \* VIS_ENABLE
          file,         \* what the visualization file shows, {} if there is none
          cleaning,     \* where each goroutine is in cleanup
          content       \* cleanup's local annotations, {} when not needed

marks == <<annotations, continuous>>
anVars == <<marks, finalized, finfo, visEnable, file, cleaning, content>>

Kind == {"info", "point", "interval", "fault", "empty", "end", "ops"}

\* No ongoing annotation.
None == [conn |-> {}, alone |-> {}, crashes |-> {}, two |-> {}]
Shown == [conn : SUBSET Srv, alone : SUBSET Srv, crashes : SUBSET Srv,
          two : SUBSET SUBSET Srv]

AnTypeOK ==
    /\ annotations \subseteq Kind
    /\ continuous \in Shown
    /\ finalized \in BOOLEAN
    /\ finfo \in [connected : [Srv -> BOOLEAN], crashed : SUBSET Srv, ckbegin : BOOLEAN]
    /\ visEnable \in {"never", "always", ""}
    /\ file \subseteq Kind
    /\ cleaning \in [Cleaner -> {"no", "clear", "finalize", "open", "write", "done"}]
    /\ content \in [Cleaner -> SUBSET Kind]

\* AnnotateTest, after MakeConfig.
AnnotateTest ==
    /\ annotations = {"info"}
    /\ continuous = None
    /\ finalized = FALSE
    /\ finfo = [connected |-> [i \in Srv |-> TRUE], crashed |-> {}, ckbegin |-> FALSE]
    /\ visEnable \in {"never", "always", ""}
    /\ file = {}
    /\ cleaning = [p \in Cleaner |-> "no"]
    /\ content = [p \in Cleaner |-> {}]

-----------------------------------------------------------------------------
(* Points, intervals and the checkers' annotations.                        *)

Annotate(kinds) ==
    /\ annotations' = annotations \cup kinds
    /\ UNCHANGED continuous

AnnotateCheckerBegin == finfo' = [finfo EXCEPT !.ckbegin = TRUE]

\* The reset after an interval is made to a copy of ckbegin: it stays set.
CheckerKind == IF finfo.ckbegin THEN "interval" ELSE "point"

AnnotateCheckerEnd == Annotate({CheckerKind})

-----------------------------------------------------------------------------
(* The continuous annotation of the faults.                                *)

AnnotateContinuous(text) ==
    /\ annotations' = annotations \cup (IF continuous = None THEN {} ELSE {"fault"})
    /\ continuous' = text

\* With nothing ongoing this adds an annotation without start and description.
AnnotateContinuousEnd ==
    /\ annotations' = annotations \cup {IF continuous = None THEN "empty" ELSE "fault"}
    /\ continuous' = None

AllConnected == [i \in Srv |-> TRUE]

\* The text that annotateFault builds.
FaultText(connected, crashed) ==
    [None EXCEPT !.conn = {i \in Srv \ crashed : connected[i]},
                 !.alone = {i \in Srv \ crashed : ~connected[i]},
                 !.crashes = crashed]

NoFault(connected, crashed) == connected = AllConnected /\ crashed = {}

\* finfo has changed to these.
AnnotateFault(connected, crashed) ==
    /\ finfo' = [finfo EXCEPT !.connected = connected, !.crashed = crashed]
    /\ IF NoFault(connected, crashed) THEN AnnotateContinuousEnd
       ELSE AnnotateContinuous(FaultText(connected, crashed))

AnnotateConnection(connection) ==
    IF finfo.connected = connection THEN UNCHANGED <<finfo, marks>>
    ELSE AnnotateFault(connection, finfo.crashed)

AnnotateShutdown(servers) ==
    IF servers \subseteq finfo.crashed THEN UNCHANGED <<finfo, marks>>
    ELSE AnnotateFault(finfo.connected, finfo.crashed \cup servers)

\* Faulty: forgets to look for a change before it makes it.
AnnotateRestartUnseen(servers) ==
    /\ finfo' = [finfo EXCEPT !.crashed = @ \ servers]
    /\ UNCHANGED marks

AnnotateRestart(servers) ==
    IF finfo.crashed \cap servers = {} THEN UNCHANGED <<finfo, marks>>
    ELSE AnnotateFault(finfo.connected, finfo.crashed \ servers)

AnnotateTwoPartitions(p1, p2) ==
    /\ AnnotateContinuous([None EXCEPT !.two = {p1, p2}])
    /\ UNCHANGED finfo

AnnotateClearFailure ==
    /\ finfo' = [finfo EXCEPT !.connected = AllConnected, !.crashed = {}]
    /\ AnnotateContinuousEnd

-----------------------------------------------------------------------------
(* The end of a test.  isFinalized, clear and finalize each take the lock, *)
(* and the file is written without it: others may come between.  Of an     *)
(* interrupt during checkPorcupine, where only SIGINT's goroutine could,   *)
(* nothing is claimed: that check is one step.                             *)

Stage(p, from, to) == cleaning[p] = from /\ cleaning' = [cleaning EXCEPT ![p] = to]

\* Faulty: writes the file although checkPorcupine has.
CleanupAgain(p, failed) ==
    /\ Stage(p, "no", IF visEnable = "never" \/ (~failed /\ visEnable # "always")
                      THEN "clear" ELSE "finalize")
    /\ UNCHANGED <<marks, finalized, finfo, visEnable, file, content>>

\* cleanup, up to the answer of isFinalized.
Cleanup(p, failed) ==
    /\ Stage(p, "no", IF visEnable = "never" \/ (~failed /\ visEnable # "always") \/ finalized
                      THEN "clear" ELSE "finalize")
    /\ UNCHANGED <<marks, finalized, finfo, visEnable, file, content>>

Clear(p) ==
    /\ Stage(p, "clear", "done")
    /\ annotations' = {}
    /\ continuous' = None
    /\ finalized' = FALSE
    /\ UNCHANGED <<finfo, visEnable, file, content>>

\* What finalize returns.
Finalized == annotations \cup (IF continuous = None THEN {} ELSE {"fault"})

\* Nothing is written if there is nothing to show.
Finalize(p) ==
    /\ Stage(p, "finalize", IF Finalized = {} THEN "done" ELSE "open")
    /\ finalized' = TRUE
    /\ content' = [content EXCEPT ![p] = Finalized]
    /\ UNCHANGED <<marks, finfo, visEnable, file>>

\* VIS_FILE is opened, which truncates it.
OpenFile(p) ==
    /\ Stage(p, "open", "write")
    /\ file' = {}
    /\ UNCHANGED <<marks, finalized, finfo, visEnable, content>>

\* Visualize has written all of it.  (What another goroutine wrote since the
\* file was opened is overwritten from its start.)
WriteFile(p) ==
    /\ Stage(p, "write", "done")
    /\ file' = content[p] \cup {"end"}
    /\ content' = [content EXCEPT ![p] = {}]
    /\ UNCHANGED <<marks, finalized, finfo, visEnable>>

SetAnnotationFinalized ==
    /\ finalized' = TRUE
    /\ UNCHANGED <<marks, finfo, visEnable, file, cleaning, content>>

\* checkPorcupine: a file with the operations if the history is illegal, or if
\* it is always wanted and this is the last check of the test.
CheckPorcupine(illegal) ==
    /\ IF (illegal /\ visEnable # "never") \/ (~illegal /\ visEnable = "always" /\ finalized)
       THEN finalized' = TRUE /\ file' = Finalized \cup {"end", "ops"}
       ELSE UNCHANGED <<finalized, file>>
    /\ UNCHANGED <<marks, finfo, visEnable, cleaning, content>>
=============================================================================
