------------------------------ MODULE Injection ------------------------------
(***************************************************************************)
(* DllInjector (DllInjector.cpp) and the target it loads the Observer into. *)
(* An injector reads its command line, suspends the target or starts one   *)
(* suspended, makes a thread in it that calls LoadLibrary, waits for that  *)
(* thread without limit and resumes the target.  The thread that is first  *)
(* to load the library runs HookSetup's steps, and holds the loader lock   *)
(* meanwhile; so may the target's own thread when it is suspended.         *)
(***************************************************************************)
EXTENDS HookSetup, Integers, FiniteSets, Sequences

CONSTANTS Injectors,     \* runs of DllInjector
          CommandLines,  \* the command lines they are given
          Pids,          \* words that are the target's process id
          Libraries      \* words that name an existing file

VARIABLES
  args,      \* per injector: its command line
  parse,     \* i, processId, commandLine, dllPath of main
  pc,        \* where main is
  handle,    \* processHandle: "none", "open", "closed", or "garbage" if unassigned
  launched,  \* is threadHandle set?
  remote,    \* is the name of the library in the target's memory?
  holding,   \* has it suspended the target, and not resumed it?
  exit,      \* its exit code
  target,    \* "absent", "alive" or "ended"
  loader,    \* who holds the target's loader lock: Null, Own or an injector
  suspends,  \* per thread of the target: its suspend count
  thread,    \* per injector's thread in it: "none", "running" or "ended"
  result     \* what LoadLibrary returned to that thread, 0 or 1

Own == "own"
TargetThreads == {Own} \cup Injectors
mainVars == <<args, parse, pc, handle, launched, remote, holding, exit>>
targetVars == <<target, loader, suspends, thread, result>>
vars == <<setupVars, mainVars, targetVars>>

Words == UNION {{line[n] : n \in 1 .. Len(line)} : line \in CommandLines}

ASSUME InjectorsAssumption == IsFiniteSet(Injectors) /\ Own \notin Injectors
ASSUME LinesAssumption == CommandLines \subseteq Seq(Words)
ASSUME LoaderAssumption == Null \notin TargetThreads

ParseState == [i : Nat \ {0}, processId : {0, 1}, commandLine : Seq(Words), dllPath : Words \cup {""}]

Stops == {"parse", "check", "open", "suspend", "launch", "allocate", "write", "create",
          "wait", "catch", "resume", "exit"}

TypeOK ==
  /\ SetupTypeOK
  /\ args \in [Injectors -> CommandLines]
  /\ parse \in [Injectors -> ParseState]
  /\ pc \in [Injectors -> Stops]
  /\ handle \in [Injectors -> {"none", "open", "closed", "garbage"}]
  /\ launched \in [Injectors -> BOOLEAN] /\ remote \in [Injectors -> BOOLEAN]
  /\ holding \in [Injectors -> BOOLEAN] /\ exit \in [Injectors -> {-1, 0, 1}]
  /\ target \in {"absent", "alive", "ended"}
  /\ loader \in TargetThreads \cup {Null}
  /\ suspends \in [TargetThreads -> Nat]
  /\ thread \in [Injectors -> {"none", "running", "ended"}]
  /\ result \in [Injectors -> {0, 1}]

Init ==
  /\ SetupInit
  /\ args \in [Injectors -> CommandLines]
  /\ parse = [i \in Injectors |->
               [i |-> 1, processId |-> 0, commandLine |-> <<>>, dllPath |-> ""]]
  /\ pc = [i \in Injectors |-> "parse"]
  /\ handle = [i \in Injectors |-> "none"]
  /\ launched = [i \in Injectors |-> FALSE] /\ remote = [i \in Injectors |-> FALSE]
  /\ holding = [i \in Injectors |-> FALSE] /\ exit = [i \in Injectors |-> 0]
  /\ target \in {"absent", "alive"} /\ loader = Null
  /\ suspends = [t \in TargetThreads |-> 0]
  /\ thread = [i \in Injectors |-> "none"] /\ result = [i \in Injectors |-> 0]

-----------------------------------------------------------------------------
(* The command line                                                        *)

Argument(i) == args[i][parse[i].i]

HasValue(i) == parse[i].i < Len(args[i])

Value(i) == args[i][parse[i].i + 1]

\* What one turn of the loop makes of the state: -p leaves its value to the next turn,
\* -a takes all that follows and leaves it to the next turns too, -d ends the loop.
NextParse(i) ==
  LET p == parse[i]  line == args[i] IN
  CASE Argument(i) = "-p" /\ HasValue(i) ->
         [p EXCEPT !.processId = IF Value(i) \in Pids THEN 1 ELSE 0, !.i = p.i + 1]
    [] Argument(i) = "-e" /\ HasValue(i) ->
         [p EXCEPT !.commandLine = <<Value(i)>>, !.i = p.i + 2]
    [] Argument(i) = "-a" ->
         [p EXCEPT !.commandLine = p.commandLine \o SubSeq(line, p.i + 1, Len(line)),
                   !.i = p.i + 1]
    [] Argument(i) = "-d" ->
         [p EXCEPT !.dllPath = IF HasValue(i) THEN Value(i) ELSE p.dllPath,
                   !.i = Len(line) + 1]
    [] OTHER -> [p EXCEPT !.i = p.i + 1]

ParseArgument(i) ==
  /\ pc[i] = "parse" /\ parse[i].i <= Len(args[i])
  /\ parse' = [parse EXCEPT ![i] = NextParse(i)]
  /\ UNCHANGED <<setupVars, args, pc, handle, launched, remote, holding, exit, targetVars>>

\* The end of the loop: with no arguments at all the usage is printed.
Parsed(i) ==
  /\ pc[i] = "parse" /\ parse[i].i > Len(args[i])
  /\ IF args[i] = <<>>
     THEN pc' = [pc EXCEPT ![i] = "exit"] /\ exit' = [exit EXCEPT ![i] = -1]
     ELSE pc' = [pc EXCEPT ![i] = "check"] /\ UNCHANGED exit
  /\ UNCHANGED <<setupVars, args, parse, handle, launched, remote, holding, targetVars>>

-----------------------------------------------------------------------------
(* main                                                                    *)

Exit(i, status) ==
  /\ pc' = [pc EXCEPT ![i] = "exit"] /\ exit' = [exit EXCEPT ![i] = status]

CheckLibrary(i) ==
  /\ pc[i] = "check"
  /\ IF parse[i].dllPath \notin Libraries
     THEN Exit(i, -1) /\ UNCHANGED handle
     ELSE /\ \/ /\ parse[i].processId # 0
                /\ pc' = [pc EXCEPT ![i] = "open"] /\ UNCHANGED handle
             \/ /\ parse[i].processId = 0 /\ parse[i].commandLine # <<>>
                /\ pc' = [pc EXCEPT ![i] = "launch"] /\ UNCHANGED handle
             \/ /\ parse[i].processId = 0 /\ parse[i].commandLine = <<>>
                /\ pc' = [pc EXCEPT ![i] = "allocate"]
                /\ handle' = [handle EXCEPT ![i] = "garbage"]
          /\ UNCHANGED exit
  /\ UNCHANGED <<setupVars, args, parse, launched, remote, holding, targetVars>>

OpenTarget(i) ==
  /\ pc[i] = "open"
  /\ \/ /\ target = "alive"
        /\ handle' = [handle EXCEPT ![i] = "open"] /\ pc' = [pc EXCEPT ![i] = "suspend"]
        /\ UNCHANGED exit
     \/ Exit(i, -1) /\ UNCHANGED handle
  /\ UNCHANGED <<setupVars, args, parse, launched, remote, holding, targetVars>>

\* The threads that a suspension or a resumption of the process reaches.
Present == {Own} \cup {i \in Injectors : thread[i] = "running"}

\* Mutant of Suspend: a process that is suspended already is not suspended again.
SuspendOnce(i) ==
  /\ pc[i] = "suspend" /\ target = "alive"
  /\ suspends' = [suspends EXCEPT ![Own] = 1]
  /\ holding' = [holding EXCEPT ![i] = TRUE]
  /\ pc' = [pc EXCEPT ![i] = "allocate"]
  /\ UNCHANGED <<setupVars, args, parse, handle, launched, remote, exit, target, loader,
                 thread, result>>

Suspend(i) ==
  /\ pc[i] = "suspend"
  /\ \/ /\ target = "alive"
        /\ suspends' = [t \in TargetThreads |-> suspends[t] + (IF t \in Present THEN 1 ELSE 0)]
        /\ holding' = [holding EXCEPT ![i] = TRUE]
        /\ pc' = [pc EXCEPT ![i] = "allocate"] /\ UNCHANGED exit
     \/ Exit(i, 1) /\ UNCHANGED <<suspends, holding>>
  /\ UNCHANGED <<setupVars, args, parse, handle, launched, remote, target, loader, thread,
                 result>>

\* CreateProcess with CREATE_SUSPENDED.
Launch(i) ==
  /\ pc[i] = "launch"
  /\ \/ /\ target = "absent" /\ target' = "alive"
        /\ suspends' = [suspends EXCEPT ![Own] = 1]
        /\ holding' = [holding EXCEPT ![i] = TRUE]
        /\ launched' = [launched EXCEPT ![i] = TRUE]
        /\ handle' = [handle EXCEPT ![i] = "open"]
        /\ pc' = [pc EXCEPT ![i] = "allocate"] /\ UNCHANGED exit
     \/ Exit(i, -1) /\ UNCHANGED <<target, suspends, holding, launched, handle>>
  /\ UNCHANGED <<setupVars, args, parse, remote, loader, thread, result>>

-----------------------------------------------------------------------------
(* LoadLibraryInjection                                                    *)

\* A failure frees what was allocated, closes the handle and throws.
Throw(i) ==
  /\ pc' = [pc EXCEPT ![i] = "catch"]
  /\ handle' = [handle EXCEPT ![i] = "closed"]
  /\ remote' = [remote EXCEPT ![i] = FALSE]
  /\ UNCHANGED <<thread, result>>

Reaches(i) == handle[i] = "open" /\ target = "alive"

AllocateName(i) ==
  /\ pc[i] = "allocate"
  /\ \/ /\ Reaches(i)
        /\ remote' = [remote EXCEPT ![i] = TRUE] /\ pc' = [pc EXCEPT ![i] = "write"]
        /\ UNCHANGED <<handle, thread, result>>
     \/ Throw(i)
  /\ UNCHANGED <<setupVars, args, parse, launched, holding, exit, target, loader, suspends>>

WriteName(i) ==
  /\ pc[i] = "write"
  /\ \/ /\ Reaches(i) /\ pc' = [pc EXCEPT ![i] = "create"]
        /\ UNCHANGED <<handle, remote, thread, result>>
     \/ Throw(i)
  /\ UNCHANGED <<setupVars, args, parse, launched, holding, exit, target, loader, suspends>>

CreateThread(i) ==
  /\ pc[i] = "create"
  /\ \/ /\ Reaches(i)
        /\ thread' = [thread EXCEPT ![i] = "running"]
        /\ pc' = [pc EXCEPT ![i] = "wait"] /\ UNCHANGED <<handle, remote, result>>
     \/ Throw(i)
  /\ UNCHANGED <<setupVars, args, parse, launched, holding, exit, target, loader, suspends>>

\* Mutant of WaitForThread: the injection is tried again until it succeeds.
WaitAndRetry(i) ==
  /\ pc[i] = "wait" /\ thread[i] = "ended"
  /\ remote' = [remote EXCEPT ![i] = FALSE]
  /\ pc' = [pc EXCEPT ![i] = IF result[i] = 0 THEN "allocate" ELSE "resume"]
  /\ UNCHANGED <<setupVars, args, parse, handle, launched, holding, exit, targetVars>>

\* WaitForSingleObject(hThread, INFINITE); main throws if LoadLibrary returned 0,
\* with the handle still open.
WaitForThread(i) ==
  /\ pc[i] = "wait" /\ thread[i] = "ended"
  /\ remote' = [remote EXCEPT ![i] = FALSE]
  /\ pc' = [pc EXCEPT ![i] = IF result[i] = 0 THEN "catch" ELSE "resume"]
  /\ UNCHANGED <<setupVars, args, parse, handle, launched, holding, exit, targetVars>>

-----------------------------------------------------------------------------
(* Resuming the target                                                     *)

Less(n) == IF n = 0 THEN 0 ELSE n - 1

\* NtResumeProcess takes one suspension from every thread.
ResumeProcess(i) ==
  IF Reaches(i)
  THEN /\ suspends' = [t \in TargetThreads |->
                        IF t \in Present THEN Less(suspends[t]) ELSE suspends[t]]
       /\ holding' = [holding EXCEPT ![i] = FALSE]
  ELSE UNCHANGED <<suspends, holding>>

\* Mutant of Catch: the target is not resumed.
CatchOnly(i) ==
  /\ pc[i] = "catch" /\ Exit(i, -1)
  /\ UNCHANGED <<suspends, holding>>
  /\ UNCHANGED <<setupVars, args, parse, handle, launched, remote, target, loader, thread,
                 result>>

Catch(i) ==
  /\ pc[i] = "catch" /\ Exit(i, -1)
  /\ IF parse[i].processId # 0 THEN ResumeProcess(i) ELSE UNCHANGED <<suspends, holding>>
  /\ UNCHANGED <<setupVars, args, parse, handle, launched, remote, target, loader, thread,
                 result>>

\* Once the injection thread has returned: ResumeThread or NtResumeProcess.
Resume(i) ==
  /\ pc[i] = "resume" /\ Exit(i, 0)
  /\ IF launched[i]
     THEN /\ suspends' = [suspends EXCEPT ![Own] = Less(@)]
          /\ holding' = [holding EXCEPT ![i] = FALSE]
     ELSE ResumeProcess(i)
  /\ UNCHANGED <<setupVars, args, parse, handle, launched, remote, target, loader, thread,
                 result>>

Injector(i) ==
  \/ ParseArgument(i) \/ Parsed(i) \/ CheckLibrary(i) \/ OpenTarget(i) \/ Suspend(i)
  \/ Launch(i) \/ AllocateName(i) \/ WriteName(i) \/ CreateThread(i) \/ WaitForThread(i)
  \/ Catch(i) \/ Resume(i)

-----------------------------------------------------------------------------
(* The target                                                              *)

Running(t) ==
  /\ target = "alive" /\ suspends[t] = 0
  /\ t # Own => thread[t] = "running"

\* LoadLibrary waits for the loader lock.  Only the first to load the Observer
\* runs DllMain, which returns TRUE whatever set-up comes to.
LoadLibrary(i) ==
  /\ i \in Injectors /\ Running(i) /\ loader = Null
  /\ \/ /\ stage = "none" /\ StartSetup
        /\ loader' = i /\ UNCHANGED <<thread, result>>
     \/ /\ stage \in {"none", "over"} /\ UNCHANGED <<setupVars, loader>>
        /\ thread' = [thread EXCEPT ![i] = "ended"]
        /\ result' = [result EXCEPT ![i] = IF stage = "over" THEN 1 ELSE 0]
  /\ UNCHANGED <<mainVars, target, suspends>>

SetUp(i) ==
  /\ loader = i /\ Running(i) /\ SetupStep
  /\ UNCHANGED <<mainVars, targetVars>>

LibraryLoaded(i) ==
  /\ loader = i /\ Running(i) /\ stage = "over"
  /\ loader' = Null
  /\ thread' = [thread EXCEPT ![i] = "ended"] /\ result' = [result EXCEPT ![i] = 1]
  /\ UNCHANGED <<setupVars, mainVars, target, suspends>>

\* The target's own thread takes the loader lock now and then, and lets go of it.
OwnLocks ==
  /\ Running(Own) /\ loader = Null /\ loader' = Own
  /\ UNCHANGED <<setupVars, mainVars, target, suspends, thread, result>>

OwnUnlocks ==
  /\ Running(Own) /\ loader = Own /\ loader' = Null
  /\ UNCHANGED <<setupVars, mainVars, target, suspends, thread, result>>

\* The target ends: its other threads with it, then the libraries are told.
EndTarget ==
  /\ Running(Own) /\ loader = Null
  /\ target' = "ended"
  /\ thread' = [i \in Injectors |-> IF thread[i] = "running" THEN "ended" ELSE thread[i]]
  /\ IF stage = "over" THEN Detach ELSE UNCHANGED setupVars
  /\ UNCHANGED <<mainVars, loader, suspends, result>>

Next ==
  \/ \E i \in Injectors : Injector(i) \/ LoadLibrary(i) \/ SetUp(i) \/ LibraryLoaded(i)
  \/ OwnLocks \/ OwnUnlocks \/ EndTarget

\* Injectors and the target's threads are scheduled, and the GUI connects when the
\* Observer waits for it.
Fairness ==
  /\ \A i \in Injectors :
       WF_vars(Injector(i)) /\ WF_vars(LoadLibrary(i)) /\ WF_vars(SetUp(i))
         /\ WF_vars(LibraryLoaded(i))
  /\ WF_vars(OwnUnlocks)

Spec == Init /\ [][Next]_vars /\ Fairness

-----------------------------------------------------------------------------
(* Properties                                                              *)

\* "Once the injection thread has returned it is safe to resume the main thread"
\* (DllInjector.cpp:248): while the Observer is set up the target's own thread does
\* not run, however many injectors suspend and resume the target meanwhile.
StoppedDuringSetup == stage \notin {"none", "over"} => suspends[Own] > 0

\* Whoever reports success has given back its suspension; whoever attached and
\* failed has too, unless LoadLibraryInjection closed the handle.
SuspensionReturned ==
  \A i \in Injectors : pc[i] = "exit" /\ holding[i] /\ target = "alive" =>
    /\ exit[i] = -1
    /\ launched[i] \/ handle[i] = "closed"

\* The target's own thread is suspended by those who hold it, and by nobody else:
\* one injector's resumption never undoes another's suspension.
SuspensionsCounted ==
  target = "alive" => suspends[Own] = Cardinality({i \in Injectors : holding[i]})

\* No injector leaves the library's name in the target's memory.
NameFreed == \A i \in Injectors : pc[i] = "exit" => ~remote[i]

\* The loader lock, or the injected thread itself, is held up by a suspension.
Blocked(i) ==
  /\ thread[i] = "running"
  /\ suspends[i] > 0 \/ (loader # Null /\ suspends[loader] > 0)

\* Every run of DllInjector ends, unless its thread is blocked for good: by a
\* suspended thread that holds the loader lock, or by another injector.
InjectorEnds ==
  \A i \in Injectors : <>[]Blocked(i) \/ <>(pc[i] = "exit")
=============================================================================
