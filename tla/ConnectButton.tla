---------------------------- MODULE ConnectButton ----------------------------
(***************************************************************************)
(* The life of a connection in the GUI: the one button that says Connect   *)
(* or Disconnect, MainFrame.connect on the Swing event thread (EDT), and   *)
(* the SocketHandler thread that clears the handler and renames the button *)
(* when its loop ends.  Both threads write theSocketHandler and the        *)
(* button's text without a lock.  The loop may end, and the thread die,    *)
(* while the socket is open: run() never closes it.                        *)
(***************************************************************************)
EXTENDS Naturals

CONSTANT MaxConnections   \* bound: connections opened

ASSUME BoundAssumption == MaxConnections \in Nat \ {0}

Connections == 1 .. MaxConnections   \* also names the SocketHandlers
None == 0                            \* null

VARIABLES
  text,       \* connectButton.getText()
  theSocketHandler,
  edt,        \* "idle", or where the click handler of the event thread is
  opened,     \* connections opened so far
  socket,     \* per connection: "none", "open" or "gone" (closed by either end)
  worker,     \* per connection, where its SocketHandler thread is
  crashes,    \* NullPointerExceptions thrown by a click: "none" or "some"
  quickLoss   \* history: has a connection ended before connect() returned?

buttonVars == <<text, theSocketHandler, edt, opened, socket, worker, crashes, quickLoss>>

WorkerStates == {"none", "reading", "clear", "test", "rename", "done", "dead"}

ButtonTypeOK ==
  /\ text \in {"Connect", "Disconnect"}
  /\ theSocketHandler \in 0 .. opened
  /\ edt \in {"idle", "open", "store", "execute", "rename"}
  /\ opened \in 0 .. MaxConnections
  /\ socket \in [Connections -> {"none", "open", "gone"}]
  /\ worker \in [Connections -> WorkerStates]
  /\ crashes \in {"none", "some"} /\ quickLoss \in BOOLEAN

ButtonInit ==
  /\ text = "Connect" /\ theSocketHandler = None /\ edt = "idle" /\ opened = 0
  /\ socket = [c \in Connections |-> "none"]
  /\ worker = [c \in Connections |-> "none"]
  /\ crashes = "none" /\ quickLoss = FALSE

-----------------------------------------------------------------------------
(* The event thread                                                        *)

\* connectButtonActionPerformed and connect(): nothing happens while a handler
\* is set.  resetGui runs here.
ClickConnect ==
  /\ edt = "idle" /\ text = "Connect"
  /\ theSocketHandler = None
  /\ edt' = "open"
  /\ UNCHANGED <<text, theSocketHandler, opened, socket, worker, crashes, quickLoss>>

\* new Socket( ip, port ) connects ...
OpenSocket ==
  /\ edt = "open" /\ opened < MaxConnections
  /\ opened' = opened + 1
  /\ socket' = [socket EXCEPT ![opened + 1] = "open"]
  /\ edt' = "store"
  /\ UNCHANGED <<text, theSocketHandler, worker, crashes, quickLoss>>

\* ... or throws an IOException, which ends connect().
OpenFails ==
  /\ edt = "open"
  /\ edt' = "idle"
  /\ UNCHANGED <<text, theSocketHandler, opened, socket, worker, crashes, quickLoss>>

\* theSocketHandler = new SocketHandler( ... )
StoreHandler ==
  /\ edt = "store"
  /\ theSocketHandler' = opened
  /\ edt' = "execute"
  /\ UNCHANGED <<text, opened, socket, worker, crashes, quickLoss>>

\* Executor.execute( theSocketHandler )
Execute ==
  /\ edt = "execute"
  /\ worker' = [worker EXCEPT ![opened] = "reading"]
  /\ edt' = "rename"
  /\ UNCHANGED <<text, theSocketHandler, opened, socket, crashes, quickLoss>>

\* connectButton.setText( "Disconnect" )
NameDisconnect ==
  /\ edt = "rename"
  /\ text' = "Disconnect"
  /\ edt' = "idle"
  /\ UNCHANGED <<theSocketHandler, opened, socket, worker, crashes, quickLoss>>

\* Mutant of ClickDisconnect: the event thread forgets the handler by itself.
ForgetAtOnce ==
  /\ edt = "idle" /\ text = "Disconnect"
  /\ IF theSocketHandler = None
     THEN crashes' = "some" /\ UNCHANGED socket
     ELSE socket' = [socket EXCEPT ![theSocketHandler] = "gone"] /\ UNCHANGED crashes
  /\ theSocketHandler' = None /\ text' = "Connect"
  /\ UNCHANGED <<edt, opened, worker, quickLoss>>

\* A click on Disconnect: theSocketHandler.disconnect() closes the socket, or
\* throws when the handler is null.
ClickDisconnect ==
  /\ edt = "idle" /\ text = "Disconnect"
  /\ IF theSocketHandler = None
     THEN crashes' = "some" /\ UNCHANGED socket
     ELSE socket' = [socket EXCEPT ![theSocketHandler] = "gone"] /\ UNCHANGED crashes
  /\ UNCHANGED <<text, theSocketHandler, edt, opened, worker, quickLoss>>

-----------------------------------------------------------------------------
(* The target, and the socket thread of a connection                       *)

\* Connection c is the one that connect() has just opened.
Connecting(c) == c = opened /\ edt \in {"store", "execute", "rename"}

\* The target ends or the connection is lost.
Lose(c) ==
  /\ socket[c] = "open"
  /\ quickLoss' = (quickLoss \/ Connecting(c))
  /\ socket' = [socket EXCEPT ![c] = "gone"]
  /\ UNCHANGED <<text, theSocketHandler, edt, opened, worker, crashes>>

\* SocketHandler.run: the read loop ends at the end of the stream, or by an exception
\* of the socket.
EndLoop(c) ==
  /\ worker[c] = "reading" /\ socket[c] = "gone"
  /\ worker' = [worker EXCEPT ![c] = "clear"]
  /\ UNCHANGED <<text, theSocketHandler, edt, opened, socket, crashes, quickLoss>>

\* A type byte 0xFF, read out of step, ends the loop too: nobody closes the socket.
EndLoopOpen(c) ==
  /\ worker[c] = "reading" /\ socket[c] = "open"
  /\ worker' = [worker EXCEPT ![c] = "clear"]
  /\ quickLoss' = (quickLoss \/ Connecting(c))
  /\ UNCHANGED <<text, theSocketHandler, edt, opened, socket, crashes>>

\* A length that no array can have throws what run() does not catch: the thread ends,
\* and the handler stays set.
Die(c) ==
  /\ worker[c] = "reading"
  /\ worker' = [worker EXCEPT ![c] = "dead"]
  /\ UNCHANGED <<text, theSocketHandler, edt, opened, socket, crashes, quickLoss>>

\* Mutant of ClearHandler: the handler stays set.
ClearNothing(c) ==
  /\ worker[c] = "clear"
  /\ worker' = [worker EXCEPT ![c] = "test"]
  /\ UNCHANGED <<text, theSocketHandler, edt, opened, socket, crashes, quickLoss>>

\* setSocketHandler( null ): the assignment ...
ClearHandler(c) ==
  /\ worker[c] = "clear"
  /\ theSocketHandler' = None
  /\ worker' = [worker EXCEPT ![c] = "test"]
  /\ UNCHANGED <<text, edt, opened, socket, crashes, quickLoss>>

\* Mutant of TestHandler: the button is left as it is.
SkipRename(c) ==
  /\ worker[c] = "test"
  /\ worker' = [worker EXCEPT ![c] = "done"]
  /\ UNCHANGED <<text, theSocketHandler, edt, opened, socket, crashes, quickLoss>>

\* ... the test of the field, read again ...
TestHandler(c) ==
  /\ worker[c] = "test"
  /\ worker' = [worker EXCEPT ![c] = IF theSocketHandler = None THEN "rename" ELSE "done"]
  /\ UNCHANGED <<text, theSocketHandler, edt, opened, socket, crashes, quickLoss>>

\* ... and setText( "Connect" ).
NameConnect(c) ==
  /\ worker[c] = "rename"
  /\ text' = "Connect"
  /\ worker' = [worker EXCEPT ![c] = "done"]
  /\ UNCHANGED <<theSocketHandler, edt, opened, socket, crashes, quickLoss>>

-----------------------------------------------------------------------------
EventThread ==
  \/ OpenSocket
  \/ OpenFails
  \/ StoreHandler
  \/ Execute
  \/ NameDisconnect

Clicks == ClickConnect \/ ClickDisconnect

Worker(c) == EndLoop(c) \/ ClearHandler(c) \/ TestHandler(c) \/ NameConnect(c)

Misread(c) == EndLoopOpen(c) \/ Die(c)

ButtonNext ==
  Clicks \/ EventThread \/ \E c \in Connections : Lose(c) \/ Misread(c) \/ Worker(c)

ButtonSpec == ButtonInit /\ [][ButtonNext]_buttonVars

\* Both threads are scheduled; neither the user nor the target has to act, and nothing
\* is obliged to be misread.
ButtonFairSpec ==
  /\ ButtonSpec
  /\ WF_buttonVars(EventThread)
  /\ \A c \in Connections : WF_buttonVars(Worker(c))

-----------------------------------------------------------------------------
(* Properties                                                              *)

\* No two socket threads read at the same time, whichever way the earlier one ends:
\* what the view is given comes from one connection (MainFrame.connect, which asks for
\* a null handler, against SocketHandler.run and the clicks on Disconnect).
OneReader ==
  \A c, d \in Connections : worker[c] = "reading" /\ worker[d] = "reading" => c = d

Settling == \E c \in Connections : worker[c] \in {"clear", "test", "rename"}

\* When neither thread is at work on them, the button says Disconnect exactly
\* when there is a handler to disconnect, as long as no connection has ended
\* before connect() had renamed the button.
ButtonTellsTruth ==
  (edt = "idle" /\ ~Settling /\ ~quickLoss) => (text = "Disconnect" <=> theSocketHandler # None)

\* After a connection has ended, or its loop, the user can connect again, even if a
\* click has thrown meanwhile; unless some connection ended before connect() had
\* renamed the button, or an exception that run() does not catch ends the thread.
CanReconnect ==
  \A c \in Connections :
    (theSocketHandler = c /\ (socket[c] = "gone" \/ worker[c] = "clear"))
      ~> \/ text = "Connect" /\ theSocketHandler = None
         \/ quickLoss \/ worker[c] = "dead"
=============================================================================
