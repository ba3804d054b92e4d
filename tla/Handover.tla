------------------------------- MODULE Handover -------------------------------
(***************************************************************************)
(* Two short examples of handing something over.                           *)
(*                                                                         *)
(* thread/threadsem.c: main reads lines into one buffer and posts a        *)
(* semaphore for each; a thread waits for the semaphore and prints the     *)
(* buffer, until the line is "end".  The buffer itself is not protected:   *)
(* the thread may read it while main writes it, and then sees the old      *)
(* line, the new one or some of both.                                      *)
(*                                                                         *)
(* pipe/double.cpp: parent and child each write one message to the same    *)
(* pipe and then read from it.                                             *)
(***************************************************************************)
EXTENDS Naturals, SequencesExt

CONSTANT MaxSem     \* bound: lines the thread may lag behind

VARIABLES
  pc,       \* of main: "fgets", "copying", "post", "join" or "done"; of the parent
            \* and the child: "write", "read", "wait" (the parent) or "gone"
  thread,   \* "wait", "print" or "gone"
  buff,     \* "empty", "text" or "end"
  line,     \* the line that fgets is copying
  sem,
  pipe,     \* the messages in the pipe
  got       \* what each process has read
lineVars == <<pc, thread, buff, line, sem>>

LinesInit ==
  pc = "fgets" /\ thread = "wait" /\ buff = "empty" /\ line = "empty" /\ sem = 0

fgets ==
  /\ pc = "fgets" /\ sem < MaxSem
  /\ line' \in {"text", "end"}
  /\ pc' = "copying"
  /\ UNCHANGED <<thread, buff, sem>>

Copied ==
  /\ pc = "copying"
  /\ buff' = line /\ pc' = "post"
  /\ UNCHANGED <<thread, line, sem>>

sem_post ==
  /\ pc = "post"
  /\ sem' = sem + 1
  /\ pc' = IF buff = "end" THEN "join" ELSE "fgets"
  /\ UNCHANGED <<thread, buff, line>>

Join ==
  /\ pc = "join" /\ thread = "gone"
  /\ pc' = "done"
  /\ UNCHANGED <<thread, buff, line, sem>>

sem_wait ==
  /\ thread = "wait" /\ sem > 0
  /\ sem' = sem - 1 /\ thread' = "print"
  /\ UNCHANGED <<pc, buff, line>>

(* What the thread may read.                                               *)
Seen == IF pc = "copying" THEN {buff, line, "some of both"} ELSE {buff}

PrintLine ==
  /\ thread = "print"
  /\ \E seen \in Seen :
       thread' \in IF seen = "end" THEN {"gone"}
                   ELSE IF seen = "some of both" THEN {"gone", "wait"}
                   ELSE {"wait"}
  /\ UNCHANGED <<pc, buff, line, sem>>

MainStep == Copied \/ sem_post \/ Join
ThreadStep == sem_wait \/ PrintLine
LinesNext == fgets \/ MainStep \/ ThreadStep

LinesSpec ==
  LinesInit /\ [][LinesNext]_lineVars /\ WF_lineVars(MainStep) /\ WF_lineVars(ThreadStep)

(* However lines are lost or mixed on their way, the last one is seen:     *)
(* once "end" was typed both threads end, with no token missing.           *)
Typed == line = "end"
Done == pc = "done"
EndEnds == Typed ~> Done

-------------------------------------------------------------------------------
Both == {"parent", "child"}

pipeVars == <<pc, pipe, got>>

PipeInit ==
  /\ pc = [p \in Both |-> "write"]
  /\ pipe = <<>>
  /\ got = [p \in Both |-> <<>>]

Write1(p) ==
  /\ pc[p] = "write"
  /\ pipe' = Append(pipe, p)
  /\ pc' = [pc EXCEPT ![p] = "read"]
  /\ UNCHANGED got

(* read takes all there is, and waits while there is nothing: each process *)
(* keeps a writing end open itself.                                        *)
Read1(p) ==
  /\ pc[p] = "read" /\ pipe # <<>>
  /\ got' = [got EXCEPT ![p] = pipe]
  /\ pipe' = <<>>
  /\ pc' = [pc EXCEPT ![p] = IF p = "parent" THEN "wait" ELSE "gone"]

Wait == 
  /\ pc["parent"] = "wait" /\ pc["child"] = "gone"
  /\ pc' = [pc EXCEPT !["parent"] = "gone"]
  /\ UNCHANGED <<pipe, got>>

PipeNext == (\E p \in Both : Write1(p) \/ Read1(p)) \/ Wait

PipeSpec == PipeInit /\ [][PipeNext]_pipeVars /\ WF_pipeVars(PipeNext)

(* Both end, or one has read both messages and the other waits forever.    *)
EndedOrTookBoth ==
  \/ \A p \in Both : pc[p] = "gone"
  \/ \E p \in Both : Len(got[p]) = 2
EndsOrTakesBoth == <>[]EndedOrTookBoth
===============================================================================
