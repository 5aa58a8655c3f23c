--------------------------- MODULE PublishProofs ---------------------------
(***************************************************************************)
(* The safety of the bootstrap and of the publishers, for any number of    *)
(* threads.  What the three properties need besides themselves is where    *)
(* each process is while an end is open, how far the attach has got by the *)
(* time "1" is written, and which threads may still have the number of an  *)
(* end that was closed.                                                    *)
(***************************************************************************)
EXTENDS Publish, TLAPS

Ends == Ready \cup Depth \cup Window

\* The values of the variables.
PubTypeOK ==
    /\ syscall \in BOOLEAN /\ fgraph \in BOOLEAN /\ sigpipe \in BOOLEAN
    /\ starved \in BOOLEAN /\ file \in BOOLEAN /\ meddled \in BOOLEAN
    /\ lost \in BOOLEAN /\ spoiled \in BOOLEAN
    /\ target \in {"start", "pipe1", "pipe2", "pipe3", "fork", "close", "read"}
                  \cup Over
    /\ pub \in SUBSET {"depthW", "windowW"}
    /\ fds \in [{"target", "tracer"} -> SUBSET Ends]
    /\ byte \in {"none", "0", "1"}
    /\ tracer \in {"none", "start", "attach", "wait", "options", "resume", "init",
                   "signal", "refuse", "loop", "gone"}
    /\ tracee \in {"none", "target", "stranger"}
    /\ stop \in Stops
    /\ pc \in [Threads -> {"idle", "loaded", "failed", "close"}]

\* What each process has open, by the place it is at.
OpenEnds ==
    /\ target \in {"start", "pipe1"} => fds["target"] = {}
    /\ target = "pipe2" => fds["target"] = Ready
    /\ target = "pipe3" => fds["target"] = Ready \cup Depth
    /\ target \in {"fork", "close"} => fds["target"] = Ends
    /\ target = "read" => /\ fds["target"] = {"readyR", "depthW", "windowW"}
                          /\ pub = {"depthW", "windowW"}
    /\ target \notin {"read", "run"} \cup Dead => pub = {}
    /\ tracer \in {"none", "gone"} => fds["tracer"] = {}
    /\ tracer = "start" => fds["tracer"] = Ends
    /\ tracer \in {"attach", "wait", "options", "resume", "init", "signal", "refuse"} =>
         fds["tracer"] = {"readyW", "depthR", "windowR"}

\* How far the attach has got, by the place of the tracer.
Attachment ==
    /\ tracee = "stranger" => target \in Dead
    /\ tracer \in {"none", "start"} => tracee = "none"
    /\ tracer \notin {"none", "start", "gone"} => tracee # "none"
    /\ target \in {"start", "pipe1", "pipe2", "pipe3", "fork"} => tracer = "none"
    /\ target \notin Dead =>
         /\ tracer \in {"none", "start", "attach"} => stop = "free"
         /\ tracer = "wait" => stop \in {"pending", "attached"}
         /\ tracer \in {"options", "resume"} => stop = "attached"
         /\ tracer \in {"init", "signal", "loop"} => stop = "traced"

\* "1" is written by a tracer on its way into the loop, and published ends stay
\* only if it was read.
Handshake ==
    /\ byte = "1" => tracer \in {"loop", "gone"}
    /\ target = "run" /\ pub # {} => tracer \in {"loop", "gone"}
    /\ target = "run" /\ fgraph => "windowW" \in pub \/ starved

\* The pipe has no reader and a write to it fails without a signal.
Broken == tracer = "gone" /\ ~sigpipe

\* Who may still have the number of the pipe's end.
Number ==
    /\ \A t \in Threads :
         pc[t] # "idle" => target \in {"run"} \cup Dead /\ tracer \in {"loop", "gone"}
    /\ \A t, u \in Threads : pc[t] = "close" /\ pc[u] = "close" => t = u
    /\ Closing => "depthW" \notin pub
    /\ file => target \in {"run"} \cup Dead
    /\ target = "run" =>
         /\ file => ~Open
         /\ "depthW" \in pub /\ ~meddled => Open
         /\ Closing /\ ~meddled => Open
         /\ \A t \in Threads :
              /\ pc[t] = "loaded" /\ ~Open /\ ~meddled => Broken
              /\ pc[t] \in {"failed", "close"} /\ ~meddled => Broken

\* The inductive invariant.
IInv ==
    /\ PubTypeOK /\ OpenEnds /\ Attachment /\ Handshake /\ Number
    /\ PipesAccounted /\ OthersFilesIntact

-----------------------------------------------------------------------------
USE DEF Ends, Ready, Depth, Window, Dead, Over, Stops, Broken, Open, Closing,
        config, bootVars, pubVars

\* The descriptors of one process change within the ends of the pipes.
LEMMA OneProcess ==
  ASSUME fds \in [{"target", "tracer"} -> SUBSET Ends],
         NEW p \in {"target", "tracer"}, NEW ends \in SUBSET Ends
  PROVE  [fds EXCEPT ![p] = ends] \in [{"target", "tracer"} -> SUBSET Ends]
  OBVIOUS

\* Nothing is open and nobody publishes at first.
LEMMA InitIInv == Init => IInv
  BY DEF Init, BootInit, IInv, PubTypeOK, OpenEnds, Attachment, Handshake, Number,
         PipesAccounted, OthersFilesIntact

\* The bootstrap keeps the invariant while the publishers rest.
LEMMA BootStep == ASSUME IInv, BootNext, UNCHANGED pubVars PROVE IInv'
<1> USE DEF IInv, PubTypeOK, OpenEnds, Attachment, Handshake, Number,
            PipesAccounted, OthersFilesIntact
<1>1. CASE EnsureStarted
  <2>1. PubTypeOK'
    BY <1>1 DEF EnsureStarted
  <2>2. OpenEnds'
    BY <1>1 DEF EnsureStarted
  <2>3. Attachment'
    BY <1>1 DEF EnsureStarted
  <2>4. Handshake'
    BY <1>1 DEF EnsureStarted
  <2>5. Number'
    BY <1>1 DEF EnsureStarted
  <2>6. PipesAccounted'
    BY <1>1 DEF EnsureStarted
  <2>7. OthersFilesIntact'
    BY <1>1 DEF EnsureStarted
  <2> QED
    BY <2>1, <2>2, <2>3, <2>4, <2>5, <2>6, <2>7
<1>2. CASE MakePipe("pipe1", Ready, "pipe2")
  <2>1. fds["target"] \cup Ready \in SUBSET Ends
    BY <1>2 DEF MakePipe
  <2>2. fds' \in [{"target", "tracer"} -> SUBSET Ends]
    BY <1>2, <2>1, OneProcess DEF MakePipe
  <2>3. PubTypeOK'
    BY <1>2, <2>2 DEF MakePipe
  <2>4. OpenEnds'
    BY <1>2, <2>2 DEF MakePipe
  <2>5. Attachment'
    BY <1>2, <2>2 DEF MakePipe
  <2>6. Handshake'
    BY <1>2, <2>2 DEF MakePipe
  <2>7. Number'
    BY <1>2, <2>2 DEF MakePipe
  <2>8. PipesAccounted'
    BY <1>2, <2>2 DEF MakePipe
  <2>9. OthersFilesIntact'
    BY <1>2, <2>2 DEF MakePipe
  <2> QED
    BY <2>3, <2>4, <2>5, <2>6, <2>7, <2>8, <2>9
<1>3. CASE MakePipe("pipe2", Depth, "pipe3")
  <2>1. fds["target"] \cup Depth \in SUBSET Ends
    BY <1>3 DEF MakePipe
  <2>2. fds' \in [{"target", "tracer"} -> SUBSET Ends]
    BY <1>3, <2>1, OneProcess DEF MakePipe
  <2>3. PubTypeOK'
    BY <1>3, <2>2 DEF MakePipe
  <2>4. OpenEnds'
    BY <1>3, <2>2 DEF MakePipe
  <2>5. Attachment'
    BY <1>3, <2>2 DEF MakePipe
  <2>6. Handshake'
    BY <1>3, <2>2 DEF MakePipe
  <2>7. Number'
    BY <1>3, <2>2 DEF MakePipe
  <2>8. PipesAccounted'
    BY <1>3, <2>2 DEF MakePipe
  <2>9. OthersFilesIntact'
    BY <1>3, <2>2 DEF MakePipe
  <2> QED
    BY <2>3, <2>4, <2>5, <2>6, <2>7, <2>8, <2>9
<1>4. CASE MakePipe("pipe3", Window, "fork")
  <2>1. fds["target"] \cup Window \in SUBSET Ends
    BY <1>4 DEF MakePipe
  <2>2. fds' \in [{"target", "tracer"} -> SUBSET Ends]
    BY <1>4, <2>1, OneProcess DEF MakePipe
  <2>3. PubTypeOK'
    BY <1>4, <2>2 DEF MakePipe
  <2>4. OpenEnds'
    BY <1>4, <2>2 DEF MakePipe
  <2>5. Attachment'
    BY <1>4, <2>2 DEF MakePipe
  <2>6. Handshake'
    BY <1>4, <2>2 DEF MakePipe
  <2>7. Number'
    BY <1>4, <2>2 DEF MakePipe
  <2>8. PipesAccounted'
    BY <1>4, <2>2 DEF MakePipe
  <2>9. OthersFilesIntact'
    BY <1>4, <2>2 DEF MakePipe
  <2> QED
    BY <2>3, <2>4, <2>5, <2>6, <2>7, <2>8, <2>9
<1>5. CASE Fork
  <2>1. fds["target"] \in SUBSET Ends
    BY <1>5 DEF Fork
  <2>2. fds' \in [{"target", "tracer"} -> SUBSET Ends]
    BY <1>5, <2>1, OneProcess DEF Fork
  <2>3. PubTypeOK'
    BY <1>5, <2>2 DEF Fork
  <2>4. OpenEnds'
    BY <1>5, <2>2 DEF Fork
  <2>5. Attachment'
    BY <1>5, <2>2 DEF Fork
  <2>6. Handshake'
    BY <1>5, <2>2 DEF Fork
  <2>7. Number'
    BY <1>5, <2>2 DEF Fork
  <2>8. PipesAccounted'
    BY <1>5, <2>2 DEF Fork
  <2>9. OthersFilesIntact'
    BY <1>5, <2>2 DEF Fork
  <2> QED
    BY <2>3, <2>4, <2>5, <2>6, <2>7, <2>8, <2>9
<1>6. CASE ParentCloses
  <2>1. fds["target"] \ {"readyW", "depthR", "windowR"} \in SUBSET Ends
    BY <1>6 DEF ParentCloses
  <2>2. fds' \in [{"target", "tracer"} -> SUBSET Ends]
    BY <1>6, <2>1, OneProcess DEF ParentCloses
  <2> QED
    BY <1>6, <2>2 DEF ParentCloses
<1>7. CASE ReadReady
  BY <1>7 DEF ReadReady, Runs
<1>8. CASE ReadNotReady
  BY <1>8 DEF ReadNotReady, GiveUp, Runs
<1>9. CASE TakeStop
  BY <1>9 DEF TakeStop
<1>10. CASE ReadInterrupted
  BY <1>10 DEF ReadInterrupted, GiveUp, Runs
<1>11. CASE KillTarget
  BY <1>11 DEF KillTarget
<1>12. CASE ChildCloses
  <2>1. fds["tracer"] \ {"readyR", "depthW", "windowW"} \in SUBSET Ends
    BY <1>12 DEF ChildCloses
  <2>2. fds' \in [{"target", "tracer"} -> SUBSET Ends]
    BY <1>12, <2>1, OneProcess DEF ChildCloses
  <2> QED
    BY <1>12, <2>2 DEF ChildCloses
<1>13. CASE Attach
  BY <1>13 DEF Attach, Step, Traceable
<1>14. CASE WaitForStop
  <2>1. tracer' \in {"options", "refuse"}
    BY <1>14 DEF WaitForStop, Step, Traceable
  <2>2. UNCHANGED <<config, target, pub, fds, byte, tracee, stop, starved>>
    BY <1>14 DEF WaitForStop, Step, Traceable
  <2>3. PubTypeOK'
    BY <2>1, <2>2
  <2>4. OpenEnds'
    BY <1>14, <2>1, <2>2 DEF WaitForStop, Step, Traceable
  <2>5. Attachment'
    BY <1>14, <2>1, <2>2 DEF WaitForStop, Step, Traceable
  <2>6. Handshake'
    BY <1>14, <2>1, <2>2 DEF WaitForStop, Step, Traceable
  <2>7. Number'
    BY <1>14, <2>1, <2>2 DEF WaitForStop, Step, Traceable
  <2>8. PipesAccounted'
    BY <1>14, <2>1, <2>2 DEF WaitForStop, Step, Traceable
  <2>9. OthersFilesIntact'
    BY <1>14, <2>1, <2>2 DEF WaitForStop, Step, Traceable
  <2> QED
    BY <2>3, <2>4, <2>5, <2>6, <2>7, <2>8, <2>9
<1>15. CASE SetOptions
  BY <1>15 DEF SetOptions, Step, Traceable
<1>16. CASE ResumeTarget
  BY <1>16 DEF ResumeTarget, Step, Traceable
<1>17. CASE InitController
  BY <1>17 DEF InitController, Step
<1>18. CASE SignalFailure
  BY <1>18 DEF SignalFailure, Leave, Reader
<1>19. CASE SignalReady
  BY <1>19 DEF SignalReady, Leave, Reader
<1>20. CASE LoopEnds
  BY <1>20 DEF LoopEnds, Leave, Traceable
<1>21. CASE KillTracer
  BY <1>21 DEF KillTracer, Leave
<1> QED
  BY <1>1, <1>2, <1>3, <1>4, <1>5, <1>6, <1>7, <1>8, <1>9, <1>10, <1>11, <1>12, <1>13, <1>14, <1>15, <1>16, <1>17, <1>18, <1>19, <1>20, <1>21
     DEF BootNext, TargetStep, TracerStep

\* So does a thread inside publish_graph_depth.
LEMMA PublishStep == ASSUME IInv, NEW t \in Threads, Publish(t) PROVE IInv'
<1> USE DEF IInv, PubTypeOK, OpenEnds, Attachment, Handshake, Number,
            PipesAccounted, OthersFilesIntact, Publishing
<1>1. CASE LoadEnd(t)
  BY <1>1 DEF LoadEnd
<1>2. CASE WriteDone(t)
  BY <1>2 DEF WriteDone
<1>3. CASE WriteFails(t)
  BY <1>3 DEF WriteFails
<1>4. CASE WriteKills(t)
  <2>1. {} \in SUBSET Ends
    BY <1>4 DEF WriteKills
  <2>2. fds' \in [{"target", "tracer"} -> SUBSET Ends]
    BY <1>4, <2>1, OneProcess DEF WriteKills
  <2>3. PubTypeOK'
    <3>1. target' = "killed" /\ stop' = "free" /\ file' \in BOOLEAN
      BY <1>4 DEF WriteKills
    <3>2. UNCHANGED <<config, pub, byte, tracer, tracee, starved, pc, meddled, lost,
                      spoiled>>
      BY <1>4 DEF WriteKills
    <3> QED
      BY <2>2, <3>1, <3>2
  <2>4. OpenEnds'
    BY <1>4, <2>2 DEF WriteKills
  <2>5. Attachment'
    BY <1>4, <2>2 DEF WriteKills
  <2>6. Handshake'
    BY <1>4, <2>2 DEF WriteKills
  <2>7. Number'
    BY <1>4, <2>2 DEF WriteKills
  <2>8. PipesAccounted'
    BY <1>4, <2>2 DEF WriteKills
  <2>9. OthersFilesIntact'
    BY <1>4, <2>2 DEF WriteKills
  <2> QED
    BY <2>3, <2>4, <2>5, <2>6, <2>7, <2>8, <2>9
<1>5. CASE TakeBack(t)
  BY <1>5 DEF TakeBack
<1>6. CASE CloseEnd(t)
  <2>1. fds["target"] \ {"depthW"} \in SUBSET Ends
    BY <1>6 DEF CloseEnd
  <2>2. fds' \in [{"target", "tracer"} -> SUBSET Ends]
    BY <1>6, <2>1, OneProcess DEF CloseEnd
  <2>3. PubTypeOK'
    <3>1. pc' \in [Threads -> {"idle", "loaded", "failed", "close"}]
      BY <1>6 DEF CloseEnd
    <3>2. file' \in BOOLEAN /\ lost' \in BOOLEAN
      BY <1>6 DEF CloseEnd
    <3>3. UNCHANGED <<config, target, pub, byte, tracer, tracee, stop, starved,
                      meddled, spoiled>>
      BY <1>6 DEF CloseEnd
    <3> QED
      BY <2>2, <3>1, <3>2, <3>3
  <2>4. OpenEnds'
    BY <1>6, <2>2 DEF CloseEnd
  <2>5. Attachment'
    BY <1>6, <2>2 DEF CloseEnd
  <2>6. Handshake'
    BY <1>6, <2>2 DEF CloseEnd
  <2>7. Number'
    BY <1>6, <2>2 DEF CloseEnd
  <2>8. PipesAccounted'
    BY <1>6, <2>2 DEF CloseEnd
  <2>9. OthersFilesIntact'
    BY <1>6, <2>2 DEF CloseEnd
  <2> QED
    BY <2>3, <2>4, <2>5, <2>6, <2>7, <2>8, <2>9
<1> QED
  BY <1>1, <1>2, <1>3, <1>4, <1>5, <1>6 DEF Publish

\* So does a program that closes the end or is given its number again.
LEMMA ProgramStep == ASSUME IInv, ProgramCloses \/ ProgramOpens PROVE IInv'
<1> USE DEF IInv, PubTypeOK, OpenEnds, Attachment, Handshake, Number,
            PipesAccounted, OthersFilesIntact, Publishing
<1>1. CASE ProgramCloses
  <2>1. fds["target"] \ {"depthW"} \in SUBSET Ends
    BY <1>1 DEF ProgramCloses
  <2>2. fds' \in [{"target", "tracer"} -> SUBSET Ends]
    BY <1>1, <2>1, OneProcess DEF ProgramCloses
  <2> QED
    BY <1>1, <2>2 DEF ProgramCloses
<1>2. CASE ProgramOpens
  BY <1>2 DEF ProgramOpens
<1> QED
  BY <1>1, <1>2

\* So does a step of nobody.
LEMMA Stutter == ASSUME IInv, UNCHANGED vars PROVE IInv'
  BY DEF IInv, PubTypeOK, OpenEnds, Attachment, Handshake, Number, PipesAccounted,
         OthersFilesIntact, vars

\* The invariant holds in every state.
LEMMA Invariance == Spec => []IInv
<1>1. IInv /\ [Next]_vars => IInv'
  BY BootStep, PublishStep, ProgramStep, Stutter DEF Next
<1> QED
  BY <1>1, InitIInv, PTL DEF Spec

\* No end of the three pipes of spawn_ptrace_tracer is leaked, whatever fails or is
\* killed and however many threads see the same failed write.
THEOREM EndsAreAccounted == Spec => []PipesAccounted
  BY Invariance, PTL DEF IInv

\* The program runs with published ends only after a tracer has attached, resumed
\* it and reported ready, whoever is killed meanwhile.
THEOREM RunsOnlyTraced == Spec => []ReadyIsTraced
<1>1. IInv => ReadyIsTraced
  BY DEF IInv, PubTypeOK, OpenEnds, Attachment, Handshake, ReadyIsTraced
<1> QED
  BY <1>1, Invariance, PTL

\* However many threads publish, none closes a file of the program that has the
\* number of the end, unless the program had closed the end itself.
THEOREM FilesIntact == Spec => []OthersFilesIntact
  BY Invariance, PTL DEF IInv
=============================================================================
