--------------------------- MODULE SSHSessionProofs ----------------------------
(***************************************************************************)
(* Proofs about SSHSession for every number of connections and every       *)
(* length of the callback queue. The argument follows one connection       *)
(* through the fields of the session: from Dial to StoreClient only the    *)
(* worker knows it, and from then on the field client does, so that        *)
(* whoever closes finds it. The two ways out of this are named: the        *)
(* connections in `strays'.                                                *)
(***************************************************************************)
EXTENDS SSHSession, SequenceTheorems, TLAPS

\* A posted status joins the queue or is dropped.
LEMMA PostKeepsType ==
  ASSUME events \in Seq({"on", "err"}), NEW s \in {"on", "err"}, Post(s)
  PROVE  events' \in Seq({"on", "err"})
<1>1. Append(events, s) \in Seq({"on", "err"})
  BY AppendProperties
<1>2. events' = events \/ events' = Append(events, s)
  BY DEF Post
<1> QED BY <1>1, <1>2

\* What a step of a disconnect leaves of the types.
LEMMA DisconnectStepKeepsType ==
  ASSUME TypeOK, NEW p, NEW q, DisconnectStep(p, q)
  PROVE  /\ net' \in [Conns -> {"unused", "open", "closed"}]
         /\ shell' \in [Conns -> {"none", "open", "exited", "closed"}]
         /\ {client', channel'} \subseteq Conns \cup {None}
         /\ connected' \in BOOLEAN /\ stop' \in BOOLEAN
<1> USE DEF TypeOK, session
<1>1. CASE SetStop \/ DropFlag \/ Look \/ ForgetChannel \/ ForgetClient
  BY <1>1 DEF SetStop, DropFlag, Look, ForgetChannel, ForgetClient
<1>2. CASE CloseChannel
  BY <1>2 DEF CloseChannel
<1>3. CASE CloseClient
  BY <1>3 DEF CloseClient, HangUp
<1> QED BY <1>1, <1>2, <1>3 DEF DisconnectStep

\* Each variable keeps its type through every step of the three threads.
THEOREM TypeCorrect == Spec => []TypeOK
<1>1. Init => TypeOK
  <2> SUFFICES ASSUME Init PROVE TypeOK
    OBVIOUS
  <2>1. events \in Seq({"on", "err"})
    BY EmptySeq DEF Init
  <2> QED BY <2>1 DEF Init, TypeOK
<1>2. TypeOK /\ [Next]_vars => TypeOK'
  <2> SUFFICES ASSUME TypeOK, [Next]_vars PROVE TypeOK'
    OBVIOUS
  <2> USE DEF TypeOK, session, panel, history, DisconnectPlaces
  <2>1. CASE ConnectClick
    BY <2>1 DEF ConnectClick
  <2>2. ASSUME NEW closing \in BOOLEAN, BeginDisconnect(closing) PROVE TypeOK'
    <3>1. lateDial' \in BOOLEAN
      BY <2>2, Zenon DEF BeginDisconnect
    <3> QED BY <2>2, <3>1 DEF BeginDisconnect
  <2>3. CASE Disconnect
    <3>1. PICK q \in DisconnectPlaces : DisconnectStep(ui, q) /\ ui' = q
      BY <2>3 DEF Disconnect
    <3>2. UNCHANGED <<reader, worker, dialled, connecting, closed, status, events, history>>
      BY <2>3 DEF Disconnect
    <3> HIDE DEF DisconnectPlaces
    <3> QED BY <3>1, <3>2, DisconnectStepKeepsType
  <2>4. CASE EndDisconnect
    BY <2>4 DEF EndDisconnect
  <2>5. CASE RunCallback
    BY <2>5 DEF RunCallback
  <2>6. CASE WorkerDisconnect
    <3>1. PICK q \in DisconnectPlaces : DisconnectStep(worker, q) /\ worker' = q
      BY <2>6 DEF WorkerDisconnect
    <3>2. UNCHANGED <<reader, dialled, panel, history>>
      BY <2>6 DEF WorkerDisconnect
    <3>3. /\ worker # "idle" /\ worker' # "idle"
          /\ worker' \notin {"shell", "store_client", "store_channel", "raise_flag", "clear_stop", "reader"}
      BY <3>1 DEF DisconnectStep
    <3> HIDE DEF DisconnectPlaces
    <3> QED BY <3>1, <3>2, <3>3, DisconnectStepKeepsType
  <2>7. CASE Announce
    <3>1. events' \in Seq({"on", "err"})
      BY <2>7, PostKeepsType DEF Announce, Raise
    <3>2. worker = "done" /\ worker' \in {"dial", "finally"}
      BY <2>7 DEF Announce, Raise
    <3>3. UNCHANGED <<net, shell, session, reader, dialled, connecting, closed, ui, status, history>>
      BY <2>7 DEF Announce
    <3> QED BY <3>1, <3>2, <3>3
  <2>8. CASE Dial
    <3>1. events' \in Seq({"on", "err"})
      BY <2>8, PostKeepsType DEF Dial, Raise
    <3>2. worker = "dial" /\ worker' \in {"shell", "finally"}
      BY <2>8 DEF Dial, Raise
    <3>3. UNCHANGED <<shell, session, reader, connecting, closed, ui, status, history>>
      BY <2>8 DEF Dial
    <3>4. \/ UNCHANGED <<net, dialled>> /\ worker' = "finally"
          \/ \E c \in Conns : net' = [net EXCEPT ![c] = "open"] /\ dialled' = c
      BY <2>8, Zenon DEF Dial, Raise
    <3> QED BY <3>1, <3>2, <3>3, <3>4
  <2>9. CASE OpenShell
    <3>1. events' \in Seq({"on", "err"})
      BY <2>9, PostKeepsType DEF OpenShell, Raise
    <3>2. worker = "shell" /\ worker' \in {"store_client", "finally"}
      BY <2>9 DEF OpenShell, Raise
    <3>3. UNCHANGED <<net, session, reader, dialled, connecting, closed, ui, status, lateDial, unread>>
      BY <2>9 DEF OpenShell
    <3>4. /\ shell' = shell \/ shell' = [shell EXCEPT ![dialled] = "open"]
          /\ strays' = strays \/ strays' = strays \cup {dialled}
      BY <2>9 DEF OpenShell
    <3> QED BY <3>1, <3>2, <3>3, <3>4
  <2>10. CASE StoreClient \/ StoreChannel \/ RaiseFlag
    <3>1. CASE StoreClient
      BY <3>1 DEF StoreClient
    <3>2. CASE StoreChannel
      BY <3>2 DEF StoreChannel
    <3>3. CASE RaiseFlag
      BY <3>3 DEF RaiseFlag
    <3> QED BY <2>10, <3>1, <3>2, <3>3
  <2>11. CASE ClearStop
    <3>1. events' \in Seq({"on", "err"})
      BY <2>11, PostKeepsType DEF ClearStop
    <3> QED BY <2>11, <3>1 DEF ClearStop
  <2>12. CASE StartReader \/ Finally
    <3>1. CASE StartReader
      BY <3>1 DEF StartReader
    <3>2. CASE Finally
      BY <3>2 DEF Finally
    <3> QED BY <2>12, <3>1, <3>2
  <2>13. ASSUME NEW c \in Conns, ReaderStep(c) PROVE TypeOK'
    <3>1. PICK v \in {"test", "read", "gone"} : reader' = [reader EXCEPT ![c] = v]
      BY <2>13, Zenon DEF ReaderStep, TestLoop, Read
    <3>2. UNCHANGED <<net, shell, session, worker, dialled, panel, lateDial, strays>>
      BY <2>13, Zenon DEF ReaderStep, TestLoop, Read, history
    <3>3. unread' \subseteq Conns
      BY <2>13 DEF ReaderStep, TestLoop, Read
    <3> QED BY <3>1, <3>2, <3>3
  <2>14. ASSUME NEW c \in Conns, ShellEnds(c) \/ RemoteClose(c) PROVE TypeOK'
    <3>1. CASE ShellEnds(c)
      BY <3>1 DEF ShellEnds
    <3>2. CASE RemoteClose(c)
      BY <3>2 DEF RemoteClose, HangUp
    <3> QED BY <2>14, <3>1, <3>2
  <2>15. CASE UNCHANGED vars
    BY <2>15 DEF vars
  <2> QED
    BY <2>1, <2>2, <2>3, <2>4, <2>5, <2>6, <2>7, <2>8, <2>9, <2>10, <2>11, <2>12, <2>13, <2>14, <2>15
    DEF Next, User, Connect
<1> QED
  BY <1>1, <1>2, PTL DEF Spec

--------------------------------------------------------------------------------
(* Who knows the connection that is open. *)

\* An open connection that the session has not lost is in the field client,
\* or on its way there; from the end of the worker's disconnect to the store
\* the field is empty, whatever the user clicks.
OpenIsKnown ==
  /\ \A c \in Conns \ strays : net[c] = "open" => c = client \/ (worker \in {"shell", "store_client"} /\ c = dialled)
  /\ worker \in {"done", "dial", "shell", "store_client"} => client = None
  /\ worker \in {"shell", "store_client"} => dialled \notin strays /\ net[dialled] # "unused"
  /\ \A c \in strays : net[c] # "unused"

\* A channel is open on an open connection only.
ShellOnOpen == \A c \in Conns : shell[c] \in {"open", "exited"} => net[c] = "open"

\* What a disconnect is about to forget is closed, or was lost just now.
Emptied(p) == p = "forget_client" => client = None \/ net[client] # "open" \/ client \in strays

\* A window closed at rest has no worker that could still store a connection,
\* so that its disconnect leaves the field empty.
NoLateDial ==
  closed /\ ~lateDial => worker = "idle" /\ (ui \in {"idle", "done"} => client = None)

ConnInv == TypeOK /\ OpenIsKnown /\ ShellOnOpen /\ Emptied(ui) /\ Emptied(worker) /\ NoLateDial

\* What a disconnect does to the connections.
LEMMA DisconnectStepKeepsConns ==
  ASSUME TypeOK, OpenIsKnown, ShellOnOpen, NEW p, NEW q, DisconnectStep(p, q), Emptied(p),
         UNCHANGED <<dialled, strays>>
  PROVE  /\ \A c \in Conns \ strays' : net'[c] = "open" => net[c] = "open" /\ (c = client => c = client')
         /\ \A c \in Conns : net[c] # "unused" => net'[c] # "unused"
         /\ ShellOnOpen' /\ Emptied(q)'
         /\ client' = client \/ client' = None
         /\ q = "done" => client' = None
         /\ client = None \/ net[client] # "open" \/ client \in strays =>
                client' = None \/ net'[client'] # "open" \/ client' \in strays'
<1> None \notin Conns
  BY MaxConnsAssumption
<1> USE DEF TypeOK, ShellOnOpen, Emptied, session
<1>1. CASE (q = "flag" /\ SetStop) \/ (q = "has_channel" /\ DropFlag)
  BY <1>1 DEF SetStop, DropFlag
<1>2. CASE q = (IF channel = None THEN "has_client" ELSE "close_channel") /\ Look
  BY <1>2 DEF Look
<1>3. CASE q = "forget_channel" /\ CloseChannel
  BY <1>3 DEF CloseChannel
<1>4. CASE q = "has_client" /\ ForgetChannel
  BY <1>4 DEF ForgetChannel
<1>5. CASE q = (IF client = None THEN "done" ELSE "close_client") /\ Look
  BY <1>5 DEF Look
<1>6. CASE q = "forget_client" /\ CloseClient
  BY <1>6 DEF CloseClient, HangUp
<1>7. CASE p = "forget_client" /\ q = "done" /\ ForgetClient
  BY <1>7 DEF ForgetClient
<1> HIDE DEF TypeOK, ShellOnOpen, Emptied, session
<1> QED BY <1>1, <1>2, <1>3, <1>4, <1>5, <1>6, <1>7, Zenon DEF DisconnectStep

LEMMA ConnInvKept == ConnInv /\ TypeOK' /\ [Next]_vars => ConnInv'
<1> SUFFICES ASSUME ConnInv, TypeOK', [Next]_vars PROVE ConnInv'
  OBVIOUS
<1> None \notin Conns
  BY MaxConnsAssumption
<1> USE DEF ConnInv, OpenIsKnown, ShellOnOpen, Emptied, NoLateDial, session, panel, history
<1>1. CASE ConnectClick \/ RunCallback \/ EndDisconnect
  <2>1. CASE ConnectClick
    <3>1. worker = "idle"
      BY <2>1 DEF ConnectClick, TypeOK
    <3> QED BY <2>1, <3>1 DEF ConnectClick
  <2>2. CASE RunCallback
    BY <2>2 DEF RunCallback
  <2>3. CASE EndDisconnect
    BY <2>3 DEF EndDisconnect
  <2> QED BY <1>1, <2>1, <2>2, <2>3
<1>2. ASSUME NEW closing \in BOOLEAN, BeginDisconnect(closing) PROVE ConnInv'
  <2>1. closed' /\ ~lateDial' => worker' = "idle"
    BY <1>2, Zenon DEF BeginDisconnect
  <2>2. ui' = "stop" /\ UNCHANGED <<net, shell, session, reader, worker, dialled, strays>>
    BY <1>2 DEF BeginDisconnect
  <2> QED BY <2>1, <2>2
<1>3. CASE Disconnect
  <2>1. PICK q \in DisconnectPlaces : DisconnectStep(ui, q) /\ ui' = q
    BY <1>3 DEF Disconnect
  <2>2. UNCHANGED <<worker, dialled, closed, history>>
    BY <1>3 DEF Disconnect
  <2>3. worker' = "forget_client" => Emptied(worker)'
    BY <2>1, <2>2, DisconnectStepKeepsConns
  <2>4. q # "idle"
    BY <2>1 DEF DisconnectStep
  <2>5. /\ \A c \in Conns \ strays' : net'[c] = "open" => net[c] = "open" /\ (c = client => c = client')
        /\ \A c \in Conns : net[c] # "unused" => net'[c] # "unused"
        /\ ShellOnOpen' /\ Emptied(ui)'
        /\ client' = client \/ client' = None
        /\ ui' = "done" => client' = None
    BY <2>1, <2>2, DisconnectStepKeepsConns, Zenon
  <2>6. OpenIsKnown'
    BY <2>2, <2>5 DEF TypeOK
  <2>7. NoLateDial'
    BY <2>1, <2>2, <2>4, <2>5
  <2> QED BY <2>3, <2>5, <2>6, <2>7
<1>4. CASE WorkerDisconnect
  <2>1. PICK q \in DisconnectPlaces : DisconnectStep(worker, q) /\ worker' = q
    BY <1>4 DEF WorkerDisconnect
  <2>2. UNCHANGED <<ui, dialled, closed, history>>
    BY <1>4 DEF WorkerDisconnect
  <2>3. worker # "idle" /\ worker \notin {"shell", "store_client"} /\ q \notin {"dial", "shell", "store_client"}
    BY <2>1 DEF DisconnectStep
  <2>4. /\ \A c \in Conns \ strays' : net'[c] = "open" => net[c] = "open" /\ (c = client => c = client')
        /\ \A c \in Conns : net[c] # "unused" => net'[c] # "unused"
        /\ ShellOnOpen' /\ Emptied(worker)'
        /\ client' = client \/ client' = None
        /\ worker' = "done" => client' = None
    BY <2>1, <2>2, DisconnectStepKeepsConns, Zenon
  <2>5. ui' = "forget_client" => Emptied(ui)'
    BY <2>1, <2>2, DisconnectStepKeepsConns
  <2>6. OpenIsKnown'
    BY <2>1, <2>2, <2>3, <2>4 DEF TypeOK
  <2>7. NoLateDial'
    BY <2>2, <2>3
  <2> QED BY <2>4, <2>5, <2>6, <2>7
<1>5. CASE Announce
  BY <1>5 DEF Announce, Raise
<1>6. CASE Dial
  BY <1>6 DEF Dial, Raise, TypeOK
<1>7. CASE OpenShell
  BY <1>7 DEF OpenShell, Raise, TypeOK
<1>8. CASE StoreClient
  BY <1>8 DEF StoreClient, TypeOK
<1>9. CASE StoreChannel \/ RaiseFlag \/ ClearStop \/ StartReader \/ Finally
  BY <1>9 DEF StoreChannel, RaiseFlag, ClearStop, StartReader, Finally
<1>10. ASSUME NEW c \in Conns, ReaderStep(c) PROVE ConnInv'
  <2>1. UNCHANGED <<net, shell, session, worker, dialled, panel, lateDial, strays>>
    BY <1>10, Zenon DEF ReaderStep, TestLoop, Read, history
  <2> QED BY <2>1
<1>11. ASSUME NEW c \in Conns, ShellEnds(c) \/ RemoteClose(c) PROVE ConnInv'
  <2>1. CASE ShellEnds(c)
    BY <2>1 DEF ShellEnds, TypeOK
  <2>2. CASE RemoteClose(c)
    BY <2>2 DEF RemoteClose, HangUp, TypeOK
  <2> QED BY <1>11, <2>1, <2>2
<1>12. CASE UNCHANGED vars
  BY <1>12 DEF vars
<1> QED
  BY <1>1, <1>2, <1>3, <1>4, <1>5, <1>6, <1>7, <1>8, <1>9, <1>10, <1>11, <1>12 DEF Next, User, Connect

THEOREM ConnectionsKnown == Spec => []ConnInv
<1>1. Init /\ TypeOK => ConnInv
  BY DEF Init, ConnInv, OpenIsKnown, ShellOnOpen, Emptied, NoLateDial
<1>2. Spec => []TypeOK
  BY TypeCorrect
<1>3. ConnInv /\ TypeOK' /\ [Next]_vars => ConnInv'
  BY ConnInvKept
<1> QED
  BY <1>1, <1>2, <1>3, PTL DEF Spec

\* However connects, disconnects and failures overlap, a session leaves a
\* connection open behind the one it dials next only if its shell could not be
\* opened, or if it was stored between the last two statements of a disconnect.
THEOREM OneOpenHolds == Spec => []OneOpen
<1>1. ConnInv => OneOpen
  <2> None \notin Conns
    BY MaxConnsAssumption
  <2> QED BY DEF ConnInv, OpenIsKnown, OneOpen
<1> QED
  BY <1>1, ConnectionsKnown, PTL

\* A closed window leaves a connection open only if a connect was in progress
\* when it was closed, or if the session had lost sight of it before.
THEOREM ClosedIsDisconnectedHolds == Spec => []ClosedIsDisconnected
<1>1. ConnInv => ClosedIsDisconnected
  <2> None \notin Conns
    BY MaxConnsAssumption
  <2> QED BY DEF ConnInv, OpenIsKnown, NoLateDial, ClosedIsDisconnected
<1> QED
  BY <1>1, ConnectionsKnown, PTL

--------------------------------------------------------------------------------
(* What the panel says, and who reads. *)

\* The flag is up only where no connect is being made; a connect begins on a
\* session that is not usable, and the session stays so until RaiseFlag.
FlagAtRest ==
  /\ connected => worker \in {"idle", "stop", "flag", "clear_stop", "reader", "finally"}
  /\ worker \in {"stop", "flag"} => ~Connected

\* What the panel will show once it has run the callbacks that are waiting.
Announced == IF events = <<>> THEN status ELSE events[Len(events)]

\* Where a disconnect has lowered the flag.
AfterFlag == {"has_channel", "close_channel", "forget_channel", "has_client", "close_client", "forget_client", "done"}

\* A flag that is raised under a disconnect is announced after the panel's
\* "off", because its callback waits for the UI thread.
TellsTheTruth ==
  Connected /\ ~closed /\ worker # "clear_stop" =>
    Announced = "on" /\ (ui \in AfterFlag => events # <<>>)

HasReader ==
  Connected /\ ~stop /\ worker \notin {"clear_stop", "reader"} =>
    \/ \E c \in Conns : reader[c] \in {"test", "read"}
    \/ shell[channel] = "exited" \/ channel \in unread

PanelInv == ConnInv /\ FlagAtRest /\ TellsTheTruth /\ HasReader

\* A disconnect raises no flag, stores no channel and opens none.
LEMMA DisconnectStepLowers ==
  ASSUME TypeOK, NEW p, NEW q, DisconnectStep(p, q)
  PROVE  /\ connected' => connected /\ p # "flag"
         /\ Connected' => Connected /\ channel' = channel /\ shell'[channel] = shell[channel]
         /\ ~stop' => ~stop /\ p # "stop"
<1> None \notin Conns
  BY MaxConnsAssumption
<1> USE DEF TypeOK, Connected, IsOpen, session
<1>1. CASE (p = "stop" /\ SetStop) \/ (p = "flag" /\ DropFlag)
  BY <1>1 DEF SetStop, DropFlag
<1>2. CASE p \notin {"stop", "flag"} /\ (Look \/ ForgetChannel \/ ForgetClient)
  BY <1>2 DEF Look, ForgetChannel, ForgetClient
<1>3. CASE p \notin {"stop", "flag"} /\ CloseChannel
  BY <1>3 DEF CloseChannel
<1>4. CASE p \notin {"stop", "flag"} /\ CloseClient
  BY <1>4 DEF CloseClient, HangUp
<1> HIDE DEF TypeOK, Connected, IsOpen, session
<1> QED BY <1>1, <1>2, <1>3, <1>4 DEF DisconnectStep

\* Whatever a step does to the fields, the session becomes usable by
\* RaiseFlag alone, and stays usable on the same channel.
LEMMA FlagKept ==
  ConnInv /\ FlagAtRest /\ [Next]_vars =>
    FlagAtRest' /\ (Connected' => RaiseFlag \/ (Connected /\ channel' = channel))
<1> SUFFICES ASSUME ConnInv, FlagAtRest, [Next]_vars
             PROVE  FlagAtRest' /\ (Connected' => RaiseFlag \/ (Connected /\ channel' = channel))
  OBVIOUS
<1> None \notin Conns
  BY MaxConnsAssumption
<1> TypeOK
  BY DEF ConnInv
<1> USE DEF FlagAtRest, session, panel
<1>1. CASE ConnectClick
  BY <1>1 DEF ConnectClick, Connected, IsOpen
<1>2. CASE \E closing \in BOOLEAN : BeginDisconnect(closing)
  BY <1>2 DEF BeginDisconnect, Connected, IsOpen
<1>3. CASE Disconnect
  <2>1. PICK q \in DisconnectPlaces : DisconnectStep(ui, q) /\ ui' = q
    BY <1>3 DEF Disconnect
  <2>2. worker' = worker
    BY <1>3 DEF Disconnect
  <2> QED BY <2>1, <2>2, DisconnectStepLowers
<1>4. CASE WorkerDisconnect
  <2>1. PICK q \in DisconnectPlaces : DisconnectStep(worker, q) /\ worker' = q
    BY <1>4 DEF WorkerDisconnect
  <2>2. (worker = "stop" /\ worker' = "flag") \/ worker = "flag" \/ worker \notin {"idle", "stop", "flag", "clear_stop", "reader", "finally"}
    BY <2>1, Zenon DEF DisconnectStep
  <2>3. worker' \notin {"stop", "flag"} \/ worker = "stop"
    BY <2>1, Zenon DEF DisconnectStep
  <2> QED BY <2>1, <2>2, <2>3, DisconnectStepLowers
<1>5. CASE EndDisconnect \/ RunCallback
  BY <1>5 DEF EndDisconnect, RunCallback, Connected, IsOpen
<1>6. CASE Announce \/ Dial
  BY <1>6 DEF Announce, Dial, Raise, Connected, IsOpen
<1>7. CASE OpenShell \/ StoreClient \/ StoreChannel
  BY <1>7 DEF OpenShell, StoreClient, StoreChannel, Raise, Connected, IsOpen
<1>8. CASE RaiseFlag
  BY <1>8 DEF RaiseFlag
<1>9. CASE ClearStop \/ StartReader \/ Finally
  BY <1>9 DEF ClearStop, StartReader, Finally, Connected, IsOpen
<1>10. ASSUME NEW c \in Conns, ReaderStep(c)
       PROVE  FlagAtRest' /\ (Connected' => RaiseFlag \/ (Connected /\ channel' = channel))
  <2>1. UNCHANGED <<shell, session, worker>>
    BY <1>10, Zenon DEF ReaderStep, TestLoop, Read
  <2> QED BY <2>1 DEF Connected, IsOpen
<1>11. ASSUME NEW c \in Conns, ShellEnds(c) \/ RemoteClose(c)
       PROVE  FlagAtRest' /\ (Connected' => RaiseFlag \/ (Connected /\ channel' = channel))
  <2>1. Connected' => Connected
    <3>1. CASE ShellEnds(c)
      BY <3>1 DEF ShellEnds, Connected, IsOpen, TypeOK
    <3>2. CASE RemoteClose(c)
      BY <3>2 DEF RemoteClose, HangUp, Connected, IsOpen, TypeOK
    <3> QED BY <1>11, <3>1, <3>2
  <2>2. UNCHANGED <<session, worker>>
    BY <1>11 DEF ShellEnds, RemoteClose
  <2> QED BY <2>1, <2>2
<1>12. CASE UNCHANGED vars
  BY <1>12 DEF vars, Connected, IsOpen
<1> QED
  BY <1>1, <1>2, <1>3, <1>4, <1>5, <1>6, <1>7, <1>8, <1>9, <1>10, <1>11, <1>12 DEF Next, User, Connect

\* A posted "on" is what the panel will show last.
LEMMA PostAnnounces ==
  ASSUME events \in Seq({"on", "err"}), ~closed, Post("on")
  PROVE  Announced' = "on"
<1>1. events' = Append(events, "on")
  BY DEF Post
<1>2. events' # <<>> /\ Len(events') = Len(events) + 1 /\ events'[Len(events) + 1] = "on"
  BY <1>1, AppendProperties
<1> QED BY <1>2 DEF Announced

\* Running a callback changes what is shown, not what is announced.
LEMMA RunCallbackAnnounces ==
  ASSUME events \in Seq({"on", "err"}), RunCallback
  PROVE  Announced' = Announced
<1> events # <<>> /\ status' = Head(events) /\ events' = Tail(events)
  BY DEF RunCallback
<1>1. /\ Len(events) \in Nat \ {0} /\ Len(events') = Len(events) - 1
      /\ \A i \in 1..Len(events') : events'[i] = events[i + 1]
  BY HeadTailProperties, EmptySeq, LenProperties
<1>2. CASE Len(events) = 1
  <2>1. events' = <<>>
    BY <1>1, <1>2, EmptySeq, HeadTailProperties
  <2> QED BY <1>2, <2>1 DEF Announced
<1>3. CASE Len(events) > 1
  <2>1. Len(events') \in 1..Len(events') /\ Len(events') + 1 = Len(events)
    BY <1>1, <1>3
  <2>2. events'[Len(events')] = events[Len(events)]
    BY <1>1, <2>1
  <2>3. events' # <<>>
    <3>1. Len(events') # 0
      BY <2>1
    <3> QED BY <3>1, EmptySeq
  <2> QED BY <2>2, <2>3 DEF Announced
<1> QED BY <1>1, <1>2, <1>3

LEMMA TruthKept == PanelInv /\ [Next]_vars => TellsTheTruth'
<1> SUFFICES ASSUME PanelInv, [Next]_vars, Connected', ~closed', worker' # "clear_stop"
             PROVE  Announced' = "on" /\ (ui' \in AfterFlag => events' # <<>>)
  BY DEF TellsTheTruth
<1> USE DEF session, panel, history
<1>1. TypeOK /\ Connected
  BY FlagKept DEF PanelInv, ConnInv, RaiseFlag
<1>2. connected /\ worker \in {"idle", "stop", "flag", "clear_stop", "reader", "finally"}
  BY <1>1 DEF Connected, PanelInv, FlagAtRest
<1>3. CASE ClearStop
  <2>1. Post("on") /\ ~closed
    BY <1>3 DEF ClearStop
  <2>2. events' # <<>>
    BY <1>1, <2>1, AppendProperties DEF Post, TypeOK
  <2> QED BY <1>1, <2>1, <2>2, PostAnnounces DEF TypeOK
<1>4. CASE ~ClearStop
  <2>1. ~closed /\ worker # "clear_stop"
    <3>1. CASE WorkerDisconnect
      BY <3>1 DEF WorkerDisconnect, DisconnectStep
    <3>2. CASE \E closing \in BOOLEAN : BeginDisconnect(closing)
      BY <3>2 DEF BeginDisconnect
    <3>3. CASE ConnectClick
      BY <1>1, <3>3 DEF ConnectClick
    <3>4. CASE Disconnect \/ EndDisconnect \/ RunCallback
      BY <3>4 DEF Disconnect, EndDisconnect, RunCallback
    <3>5. CASE RaiseFlag
      BY <3>5 DEF RaiseFlag
    <3>6. CASE StartReader \/ Finally
      BY <3>6 DEF StartReader, Finally
    <3>7. ASSUME NEW c \in Conns, ReaderStep(c) \/ ShellEnds(c) \/ RemoteClose(c)
          PROVE  ~closed /\ worker # "clear_stop"
      <4>1. UNCHANGED <<worker, closed>>
        BY <3>7, Zenon DEF ReaderStep, TestLoop, Read, ShellEnds, RemoteClose, panel
      <4> QED BY <4>1
    <3>8. CASE UNCHANGED vars
      BY <3>8 DEF vars
    <3> QED
      BY <1>2, <1>4, <3>1, <3>2, <3>3, <3>4, <3>5, <3>6, <3>7, <3>8
      DEF Next, User, Connect, Announce, Dial, OpenShell, StoreClient, StoreChannel
  <2>2. Announced = "on" /\ (ui \in AfterFlag => events # <<>>)
    BY <1>1, <2>1 DEF PanelInv, TellsTheTruth
  <2>3. CASE RunCallback
    BY <1>1, <2>2, <2>3, RunCallbackAnnounces DEF TypeOK, RunCallback, AfterFlag
  <2>4. CASE Disconnect
    <3>1. PICK q \in DisconnectPlaces : DisconnectStep(ui, q) /\ ui' = q
      BY <2>4 DEF Disconnect
    <3>2. ui # "flag" /\ UNCHANGED <<status, events>>
      BY <1>1, <2>4, <3>1, DisconnectStepLowers DEF Disconnect, Connected
    <3>3. ui' \in AfterFlag => ui \in AfterFlag
      BY <3>1, <3>2, Zenon DEF DisconnectStep, AfterFlag
    <3> QED BY <2>2, <3>2, <3>3 DEF Announced
  <2>5. CASE EndDisconnect
    BY <2>2, <2>5 DEF EndDisconnect, AfterFlag, Announced
  <2>6. CASE UNCHANGED <<status, events>> /\ ui' \notin AfterFlag
    BY <2>2, <2>6 DEF Announced
  <2>7. CASE UNCHANGED <<status, events, ui>>
    BY <2>2, <2>7 DEF Announced
  <2>8. CASE ConnectClick
    BY <1>1, <2>8 DEF ConnectClick
  <2> QED
    BY <1>2, <1>4, <2>1, <2>3, <2>4, <2>5, <2>6, <2>7, <2>8
    DEF Next, User, Connect, BeginDisconnect, WorkerDisconnect, Announce, Dial, OpenShell, StoreClient, StoreChannel,
        RaiseFlag, StartReader, Finally, ReaderStep, TestLoop, Read, ShellEnds, RemoteClose, vars, AfterFlag
<1> QED BY <1>3, <1>4

LEMMA HasReaderKept == PanelInv /\ [Next]_vars => HasReader'
<1> SUFFICES ASSUME PanelInv, [Next]_vars, Connected', ~stop', worker' \notin {"clear_stop", "reader"}
             PROVE  \/ \E c \in Conns : reader'[c] \in {"test", "read"}
                    \/ shell'[channel'] = "exited" \/ channel' \in unread'
  BY DEF HasReader
<1> USE DEF PanelInv, ConnInv, session, panel, history
<1>1. Connected /\ channel' = channel
  BY FlagKept DEF RaiseFlag
<1>2. CASE StartReader
  <2>1. dialled \in Conns /\ reader'[dialled] = "test"
    BY <1>2 DEF StartReader, TypeOK
  <2> QED BY <2>1
<1>3. CASE ~StartReader
  <2>1. connected /\ worker \in {"idle", "stop", "flag", "clear_stop", "reader", "finally"}
    BY <1>1 DEF Connected, FlagAtRest
  <2>2. ~stop /\ worker \notin {"clear_stop", "reader"}
    <3>1. CASE Disconnect \/ WorkerDisconnect
      <4>1. PICK p, q : DisconnectStep(p, q) /\ (worker' = worker \/ worker = p)
        BY <3>1 DEF Disconnect, WorkerDisconnect
      <4>2. p \notin {"clear_stop", "reader"}
        BY <4>1, Zenon DEF DisconnectStep
      <4> QED BY <4>1, <4>2, DisconnectStepLowers
    <3>2. CASE \E closing \in BOOLEAN : BeginDisconnect(closing)
      BY <3>2 DEF BeginDisconnect
    <3>3. CASE ConnectClick
      BY <1>1, <3>3 DEF ConnectClick
    <3>4. CASE ClearStop \/ Finally
      BY <3>4 DEF ClearStop, Finally
    <3>5. CASE EndDisconnect \/ RunCallback
      BY <3>5 DEF EndDisconnect, RunCallback
    <3>6. CASE RaiseFlag
      BY <3>6 DEF RaiseFlag
    <3>7. ASSUME NEW c \in Conns, ReaderStep(c) \/ ShellEnds(c) \/ RemoteClose(c)
          PROVE  ~stop /\ worker \notin {"clear_stop", "reader"}
      <4>1. UNCHANGED <<worker, stop>>
        BY <3>7, Zenon DEF ReaderStep, TestLoop, Read, ShellEnds, RemoteClose, session
      <4> QED BY <4>1
    <3>8. CASE UNCHANGED vars
      BY <3>8 DEF vars
    <3> QED
      BY <1>3, <2>1, <3>1, <3>2, <3>3, <3>4, <3>5, <3>6, <3>7, <3>8
      DEF Next, User, Connect, Announce, Dial, OpenShell, StoreClient, StoreChannel
  <2>3. HasReader => \/ \E c \in Conns : reader[c] \in {"test", "read"}
                     \/ shell[channel] = "exited" \/ channel \in unread
    BY <1>1, <2>2 DEF HasReader
  <2>4. channel \in Conns /\ shell[channel] \in {"open", "exited"} /\ shell'[channel] \in {"open", "exited"}
    BY <1>1, <2>1, MaxConnsAssumption DEF Connected, IsOpen, TypeOK
  <2>5. shell[channel] = "exited" => shell'[channel] = "exited"
    BY <2>1, <2>4
    DEF Next, User, Connect, ConnectClick, BeginDisconnect, Disconnect, WorkerDisconnect, DisconnectStep, SetStop,
        DropFlag, Look, CloseChannel, ForgetChannel, CloseClient, ForgetClient, HangUp, EndDisconnect, RunCallback,
        Announce, Dial, OpenShell, StoreClient, StoreChannel, RaiseFlag, ClearStop, StartReader, Finally, ReaderStep,
        TestLoop, Read, ShellEnds, RemoteClose, vars, TypeOK
  <2>6. unread \subseteq unread'
    BY DEF Next, User, Connect, ConnectClick, BeginDisconnect, Disconnect, WorkerDisconnect, EndDisconnect,
        RunCallback, Announce, Dial, OpenShell, StoreClient, StoreChannel, RaiseFlag, ClearStop, StartReader, Finally,
        ReaderStep, TestLoop, Read, ShellEnds, RemoteClose, vars
  <2>7. ASSUME NEW c \in Conns, reader[c] \in {"test", "read"}
        PROVE  \/ reader'[c] \in {"test", "read"} \/ shell'[channel] = "exited" \/ channel \in unread'
    <3>1. ASSUME NEW d \in Conns, TestLoop(d) PROVE reader'[c] \in {"test", "read"}
      BY <1>1, <2>2, <2>7, <3>1 DEF TestLoop, Connected, TypeOK
    <3>2. ASSUME NEW d \in Conns, Read(d)
          PROVE  reader'[c] \in {"test", "read"} \/ shell'[channel] = "exited" \/ channel \in unread'
      BY <2>4, <2>7, <3>2, MaxConnsAssumption DEF Read, TypeOK
    <3>3. CASE UNCHANGED reader
      BY <2>7, <3>3
    <3> QED
      BY <1>3, <3>1, <3>2, <3>3
      DEF Next, User, Connect, ConnectClick, BeginDisconnect, Disconnect, WorkerDisconnect, EndDisconnect,
          RunCallback, Announce, Dial, OpenShell, StoreClient, StoreChannel, RaiseFlag, ClearStop, Finally, ReaderStep,
          ShellEnds, RemoteClose, vars
  <2> QED BY <1>1, <2>3, <2>5, <2>6, <2>7
<1> QED BY <1>2, <1>3

THEOREM PanelInvHolds == Spec => []PanelInv
<1>1. Init /\ ConnInv => PanelInv
  BY DEF Init, PanelInv, FlagAtRest, TellsTheTruth, HasReader, Connected
<1>2. Spec => []ConnInv
  BY ConnectionsKnown
<1>3. PanelInv /\ ConnInv' /\ [Next]_vars => PanelInv'
  BY FlagKept, TruthKept, HasReaderKept DEF PanelInv
<1> QED
  BY <1>1, <1>2, <1>3, PTL DEF Spec

\* A panel at rest that shows "off" or "err" has no usable session: a connect
\* that outlives a disconnect is announced after it.
THEOREM QuietOffIsOffHolds == Spec => []QuietOffIsOff
<1>1. PanelInv => QuietOffIsOff
  BY DEF PanelInv, TellsTheTruth, QuietOffIsOff, Quiet, Announced
<1> QED
  BY <1>1, PanelInvHolds, PTL

\* At rest, a usable session that no one asked to stop has a reader, unless
\* its shell has ended and only the channel is left, or a reader raised.
THEOREM UsableHasReaderHolds == Spec => []UsableHasReader
<1>1. PanelInv => UsableHasReader
  BY DEF PanelInv, HasReader, UsableHasReader
<1> QED
  BY <1>1, PanelInvHolds, PTL
================================================================================
