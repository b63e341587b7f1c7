------------------------------ MODULE SSHSession -------------------------------
(***************************************************************************)
(* The SSH console: the session of tools/ssh_interactive.py, whose fields  *)
(* are shared by the UI thread, the thread of the connect in progress and  *)
(* the reader threads, with the panel of gui/tools/ssh_console_panel.py    *)
(* and the window that owns both. The session takes no lock.               *)
(***************************************************************************)
EXTENDS Naturals, Sequences, FiniteSets

CONSTANTS
  MaxConns,  \* connections dialled (a bound)
  MaxQueued, \* callbacks waiting when the user clicks Connect (a bound)
  None       \* None

Conns == 1..MaxConns

ASSUME MaxConnsAssumption == MaxConns \in Nat \ {0} /\ None \notin Conns
ASSUME MaxQueuedAssumption == MaxQueued \in Nat

VARIABLES
  net,        \* net[c]: SSH connection c is "unused", "open" or "closed"
  shell,      \* shell[c]: its channel; "exited" is open with an exit status
  client,     \* session._client
  channel,    \* session._channel, by its connection
  connected,  \* session._connected
  stop,       \* session._stop
  reader,     \* reader[c]: the reader started by the connect of c
  worker,     \* where the connect in progress is
  dialled,    \* the connection that it has opened
  connecting, \* panel._connecting
  closed,     \* panel._closed
  ui,         \* where the UI thread is in a disconnect
  status,     \* colour of the panel's status
  events,     \* callbacks posted with after(0, ...)
  lateDial,   \* history: a connect was in progress when the window closed
  strays,     \* history: connections that the session has lost sight of
  unread      \* history: channels on which a reader raised

session == <<client, channel, connected, stop>>
panel == <<connecting, closed, ui, status, events>>
history == <<lateDial, strays, unread>>
vars == <<net, shell, session, reader, worker, dialled, panel, history>>

\* channel.closed is false.
IsOpen(c) == c # None /\ shell[c] \in {"open", "exited"}

\* The property connected of the session.
Connected == connected /\ IsOpen(channel)

Init ==
  /\ net = [c \in Conns |-> "unused"] /\ shell = [c \in Conns |-> "none"]
  /\ client = None /\ channel = None /\ connected = FALSE /\ stop = FALSE
  /\ reader = [c \in Conns |-> "none"]
  /\ worker = "idle" /\ dialled = None
  /\ connecting = FALSE /\ closed = FALSE /\ ui = "idle"
  /\ status = "off" /\ events = <<>>
  /\ lateDial = FALSE /\ strays = {} /\ unread = {}

\* Callbacks are dropped once the panel is marked closed.
Post(s) == events' = IF closed THEN events ELSE Append(events, s)

\* The end of a connection is the end of its channel.
HangUp(c) ==
  /\ net' = [net EXCEPT ![c] = "closed"]
  /\ shell' = [shell EXCEPT ![c] = IF @ = "none" THEN @ ELSE "closed"]

--------------------------------------------------------------------------------
(* SSHInteractiveSession.disconnect, which the UI thread and the connect in *)
(* progress both run: a thread goes from place p to place q. Each field is  *)
(* read again by the call that closes what is in it, and then cleared.      *)

SetStop == stop' = TRUE /\ UNCHANGED <<net, shell, client, channel, connected>>

DropFlag == connected' = FALSE /\ UNCHANGED <<net, shell, client, channel, stop>>

\* Close what is in the field now; what is raised if it is empty is caught.
CloseChannel ==
  /\ shell' = [c \in Conns |-> IF c = channel THEN "closed" ELSE shell[c]]
  /\ UNCHANGED <<net, session>>

ForgetChannel == channel' = None /\ UNCHANGED <<net, shell, client, connected, stop>>

Look == UNCHANGED <<net, shell, session>>

\* Faulty variant: the client is forgotten and its connection left open.
CloseClientInNameOnly == Look

CloseClient ==
  /\ IF client = None THEN UNCHANGED <<net, shell>> ELSE HangUp(client)
  /\ UNCHANGED session

ForgetClient == client' = None /\ UNCHANGED <<net, shell, channel, connected, stop>>

DisconnectStep(p, q) ==
  \/ p = "stop" /\ q = "flag" /\ SetStop
  \/ p = "flag" /\ q = "has_channel" /\ DropFlag
  \/ p = "has_channel" /\ q = (IF channel = None THEN "has_client" ELSE "close_channel") /\ Look
  \/ p = "close_channel" /\ q = "forget_channel" /\ CloseChannel
  \/ p = "forget_channel" /\ q = "has_client" /\ ForgetChannel
  \/ p = "has_client" /\ q = (IF client = None THEN "done" ELSE "close_client") /\ Look
  \/ p = "close_client" /\ q = "forget_client" /\ CloseClient
  \/ p = "forget_client" /\ q = "done" /\ ForgetClient

DisconnectPlaces ==
  {"stop", "flag", "has_channel", "close_channel", "forget_channel", "has_client", "close_client", "forget_client",
   "done"}

--------------------------------------------------------------------------------
(* The UI thread. *)

\* SSHConsolePanel.connect
ConnectClick ==
  /\ ~closed /\ ui = "idle"
  /\ ~connecting /\ ~Connected
  /\ \E c \in Conns : net[c] = "unused"
  /\ Len(events) <= MaxQueued
  /\ connecting' = TRUE
  /\ status' = "busy"
  /\ worker' = "stop"
  /\ UNCHANGED <<net, shell, session, reader, dialled, closed, ui, events, history>>

\* Faulty variant: the window goes and the session stays.
BeginDisconnectNotOnClose(closing) ==
  /\ ~closed /\ ui = "idle"
  /\ closed' = closing
  /\ ui' = IF closing THEN "idle" ELSE "stop"
  /\ lateDial' = (closing /\ worker # "idle")
  /\ UNCHANGED <<net, shell, session, reader, worker, dialled, connecting, status, events, strays, unread>>

\* The Disconnect button, and _on_close, which marks the panel closed first.
BeginDisconnect(closing) ==
  /\ ~closed /\ ui = "idle"
  /\ closed' = closing
  /\ ui' = "stop"
  /\ lateDial' = (closing /\ worker # "idle")
  /\ UNCHANGED <<net, shell, session, reader, worker, dialled, connecting, status, events, strays, unread>>

Disconnect ==
  /\ \E q \in DisconnectPlaces : DisconnectStep(ui, q) /\ ui' = q
  /\ UNCHANGED <<reader, worker, dialled, connecting, closed, status, events, history>>

EndDisconnect ==
  /\ ui = "done"
  /\ ui' = "idle"
  /\ status' = IF closed THEN status ELSE "off"
  /\ UNCHANGED <<net, shell, session, reader, worker, dialled, connecting, closed, events, history>>

RunCallback ==
  /\ ~closed /\ ui = "idle"
  /\ events # <<>>
  /\ status' = Head(events)
  /\ events' = Tail(events)
  /\ UNCHANGED <<net, shell, session, reader, worker, dialled, connecting, closed, ui, history>>

--------------------------------------------------------------------------------
(* SSHInteractiveSession.connect, in the worker thread of the panel. *)

\* The old connection goes.
WorkerDisconnect ==
  /\ \E q \in DisconnectPlaces : DisconnectStep(worker, q) /\ worker' = q
  /\ UNCHANGED <<reader, dialled, panel, history>>

\* The way to the handler and the finally clause of the panel's worker.
Raise == Post("err") /\ worker' = "finally"

\* on_state says "Connecting" in the colour of success, unless an import or
\* the check of the host and the user raises first.
Announce ==
  /\ worker = "done"
  /\ \/ Post("on") /\ worker' = "dial"
     \/ Raise
  /\ UNCHANGED <<net, shell, session, reader, dialled, connecting, closed, ui, status, history>>

\* client.connect, with a timeout, or an exception before there is a connection.
Dial ==
  /\ worker = "dial"
  /\ \/ \E c \in Conns :
          /\ net[c] = "unused"
          /\ \A d \in Conns : d < c => net[d] # "unused"
          /\ net' = [net EXCEPT ![c] = "open"]
          /\ dialled' = c
          /\ worker' = "shell"
          /\ UNCHANGED events
     \/ Raise /\ UNCHANGED <<net, dialled>>
  /\ UNCHANGED <<shell, session, reader, connecting, closed, ui, status, history>>

\* invoke_shell; when it raises, the local client is neither closed nor stored.
OpenShell ==
  /\ worker = "shell"
  /\ \/ /\ net[dialled] = "open"
        /\ shell' = [shell EXCEPT ![dialled] = "open"]
        /\ worker' = "store_client"
        /\ UNCHANGED <<events, strays>>
     \/ /\ Raise
        /\ strays' = strays \cup {dialled}
        /\ UNCHANGED shell
  /\ UNCHANGED <<net, session, reader, dialled, connecting, closed, ui, status, lateDial, unread>>

\* A disconnect that has closed the field's last client clears this one.
StoreClient ==
  /\ worker = "store_client"
  /\ client' = dialled
  /\ strays' = IF ui = "forget_client" THEN strays \cup {dialled} ELSE strays
  /\ worker' = "store_channel"
  /\ UNCHANGED <<net, shell, channel, connected, stop, reader, dialled, panel, lateDial, unread>>

StoreChannel ==
  /\ worker = "store_channel"
  /\ channel' = dialled
  /\ worker' = "raise_flag"
  /\ UNCHANGED <<net, shell, client, connected, stop, reader, dialled, panel, history>>

RaiseFlag ==
  /\ worker = "raise_flag"
  /\ connected' = TRUE
  /\ worker' = "clear_stop"
  /\ UNCHANGED <<net, shell, client, channel, stop, reader, dialled, panel, history>>

\* Faulty variant: the panel is not told that the connect succeeded.
ClearStopSilently ==
  /\ worker = "clear_stop"
  /\ stop' = FALSE
  /\ worker' = "reader"
  /\ UNCHANGED <<net, shell, client, channel, connected, reader, dialled, panel, history>>

\* The event, and on_state again.
ClearStop ==
  /\ worker = "clear_stop"
  /\ stop' = FALSE
  /\ Post("on")
  /\ worker' = "reader"
  /\ UNCHANGED <<net, shell, client, channel, connected, reader, dialled, connecting, closed, ui, status, history>>

StartReader ==
  /\ worker = "reader"
  /\ reader' = [reader EXCEPT ![dialled] = "test"]
  /\ worker' = "finally"
  /\ UNCHANGED <<net, shell, session, dialled, panel, history>>

\* Faulty variant: the flag is cleared for a successful connect only.
FinallyOnSuccess ==
  /\ worker = "finally"
  /\ connecting' = (connecting /\ dialled = None)
  /\ worker' = "idle"
  /\ dialled' = None
  /\ UNCHANGED <<net, shell, session, reader, closed, ui, status, events, history>>

Finally ==
  /\ worker = "finally"
  /\ connecting' = FALSE
  /\ worker' = "idle"
  /\ dialled' = None
  /\ UNCHANGED <<net, shell, session, reader, closed, ui, status, events, history>>

Connect ==
  \/ WorkerDisconnect \/ Announce \/ Dial \/ OpenShell \/ StoreClient \/ StoreChannel
  \/ RaiseFlag \/ ClearStop \/ StartReader \/ Finally

--------------------------------------------------------------------------------
(* A reader thread: _read_loop looks at the session's fields, not its own. *)

TestLoop(c) ==
  /\ reader[c] = "test"
  /\ reader' = [reader EXCEPT ![c] = IF ~stop /\ IsOpen(channel) THEN "read" ELSE "gone"]
  /\ UNCHANGED <<net, shell, session, worker, dialled, panel, history>>

\* Faulty variant: silence ends the reader.
ReadBreakingOnTimeout(c) ==
  /\ reader[c] = "read"
  /\ reader' = [reader EXCEPT ![c] = "gone"]
  /\ UNCHANGED <<net, shell, session, worker, dialled, panel, history>>

\* Output or silence goes on; an exit status with nothing left to read, a
\* closed channel and any exception end the loop. An exception needs no
\* closed channel: on_output may raise as well.
Read(c) ==
  /\ reader[c] = "read"
  /\ \/ /\ channel # None
        /\ reader' = [reader EXCEPT ![c] = "test"]
        /\ UNCHANGED unread
     \/ /\ channel # None /\ shell[channel] # "open"
        /\ reader' = [reader EXCEPT ![c] = "gone"]
        /\ UNCHANGED unread
     \/ /\ reader' = [reader EXCEPT ![c] = "gone"]
        /\ unread' = unread \cup ({channel} \ {None})
  /\ UNCHANGED <<net, shell, session, worker, dialled, panel, lateDial, strays>>

\* The shell ends with a status, or its channel is closed by the server.
ShellEnds(c) ==
  /\ shell[c] \in {"open", "exited"}
  /\ \E s \in {"exited", "closed"} : shell' = [shell EXCEPT ![c] = s]
  /\ UNCHANGED <<net, session, reader, worker, dialled, panel, history>>

\* The server or the network ends a connection.
RemoteClose(c) ==
  /\ net[c] = "open"
  /\ HangUp(c)
  /\ UNCHANGED <<session, reader, worker, dialled, panel, history>>

--------------------------------------------------------------------------------
ReaderStep(c) == TestLoop(c) \/ Read(c)

User == ConnectClick \/ \E closing \in BOOLEAN : BeginDisconnect(closing)

Next ==
  \/ User \/ Disconnect \/ EndDisconnect \/ RunCallback \/ Connect
  \/ \E c \in Conns : ReaderStep(c) \/ ShellEnds(c) \/ RemoteClose(c)

Spec == Init /\ [][Next]_vars

\* Threads run, client.connect has a timeout, and the main loop its queue.
Fairness ==
  /\ WF_vars(Disconnect) /\ WF_vars(EndDisconnect) /\ WF_vars(RunCallback) /\ WF_vars(Connect)
  /\ \A c \in Conns : WF_vars(ReaderStep(c))

FairSpec == Spec /\ Fairness

--------------------------------------------------------------------------------
(* Properties. *)

TypeOK ==
  /\ net \in [Conns -> {"unused", "open", "closed"}]
  /\ shell \in [Conns -> {"none", "open", "exited", "closed"}]
  /\ {client, channel, dialled} \subseteq Conns \cup {None}
  /\ connected \in BOOLEAN /\ stop \in BOOLEAN
  /\ reader \in [Conns -> {"none", "test", "read", "gone"}]
  /\ worker \in DisconnectPlaces \cup {"idle", "dial", "shell", "store_client", "store_channel", "raise_flag",
                                       "clear_stop", "reader", "finally"}
  /\ worker \in {"shell", "store_client", "store_channel", "raise_flag", "clear_stop", "reader"} => dialled \in Conns
  /\ connecting \in BOOLEAN /\ closed \in BOOLEAN /\ lateDial \in BOOLEAN
  /\ connecting = (worker # "idle")
  /\ ui \in DisconnectPlaces \cup {"idle"}
  /\ status \in {"off", "busy", "on", "err"}
  /\ events \in Seq({"on", "err"})
  /\ strays \subseteq Conns /\ unread \subseteq Conns

\* However connects, disconnects and failures overlap, a session leaves a
\* connection open behind the one it dials next only if its shell could not be
\* opened, or if it was stored between the last two statements of a disconnect.
OneOpen == \A c, d \in Conns \ strays : net[c] = "open" /\ net[d] = "open" => c = d

Quiet == worker = "idle" /\ ui = "idle" /\ events = <<>> /\ ~closed

\* A panel at rest that shows "off" or "err" has no usable session.
QuietOffIsOff == Quiet /\ status \in {"off", "err"} => ~Connected

\* A closed window leaves a connection open only if a connect was in progress
\* when it was closed (_on_close cannot reach a connection not yet stored), or
\* if the session had lost sight of it before.
ClosedIsDisconnected ==
  closed /\ ui = "idle" /\ ~lateDial => \A c \in Conns \ strays : net[c] # "open"

\* At rest, a usable session has a reader that shows its output, unless the
\* user disconnected while it was being set up, its shell has ended and only
\* the channel is left, or a reader raised on that channel.
UsableHasReader ==
  worker = "idle" /\ ui = "idle" /\ Connected /\ ~stop =>
    \/ \E c \in Conns : reader[c] \in {"test", "read"}
    \/ shell[channel] = "exited" \/ channel \in unread

\* The panel does not stay "Connecting": another connect becomes possible.
ConnectEnds == connecting ~> ~connecting

\* One reader thread at a time reads the session's channel.
OneReader == \A c, d \in Conns : reader[c] = "read" /\ reader[d] = "read" => c = d
================================================================================
