---------------------------- MODULE ControlPlane ----------------------------
(***************************************************************************)
(* The control plane: instances of wmd-init that share one socket path     *)
(* (bin/wmd_init.rs, serve and handle_conn of supervisor.rs) and the wm    *)
(* commands that call them (client_roundtrip).                             *)
(*                                                                         *)
(* An instance is two concurrent tasks, main and serve, and one task per   *)
(* connection.  An instance that has ended may be started again: its name  *)
(* then stands for a new process.  Of the state that the requests touch    *)
(* only the mute flag is kept; a view of the children is a copy made under *)
(* the same lock.                                                          *)
(***************************************************************************)
EXTENDS FiniteSets

CONSTANTS
    Instances,      \* wmd-init processes that may exist at a time
    Clients,        \* wm processes that may exist at a time
    NoInstance,     \* no instance: no socket file, no server
    Sends,          \* the requests that each client may send
    Overlap         \* may an instance be started while another runs?

Requests == {"mute", "unmute", "status", "other"}

ASSUME ControlAssumption ==
    /\ NoInstance \notin Instances
    /\ Sends \in [Clients -> SUBSET Requests]
    /\ Overlap \in BOOLEAN

VARIABLES
    main,       \* where run() is, per instance; "off" when there is no process
    serve,      \* where serve() is, per instance
    file,       \* the instance that created the socket file at socket_path
    muted,      \* SupervisorView.muted, per instance
    call,       \* where client_roundtrip and its handle_conn are, per client
    srv,        \* the instance at the other end of the connection
    req,        \* the request of the call
    reply,      \* the response, once dispatch has made it
    alone,      \* history: the instance, if any, that has had no company since its launch
    quiet,      \* history: instances that have acknowledged a mute, no unmute sent since
    expects     \* history: what a call relies on (status) or may promise (mute); see Connected

instance == <<main, serve, file, muted>>
calls    == <<call, srv, req, reply>>
promises == <<quiet, expects>>
history  == <<alone, promises>>
vars     == <<instance, calls, history>>

Replies  == {"none", "ack", "muted", "unmuted", "not served"}

InFlight == {"queued", "taken", "dispatched"}

TypeOK ==
    /\ main \in [Instances -> {"off", "starting", "waiting", "leaving", "exiting"}]
    /\ serve \in [Instances -> {"off", "clearing", "binding", "listening", "refused", "failed"}]
    /\ file \in Instances \cup {NoInstance}
    /\ muted \in [Instances -> BOOLEAN]
    /\ call \in [Clients -> InFlight \cup {"idle"}]
    /\ srv \in [Clients -> Instances \cup {NoInstance}]
    /\ req \in [Clients -> Requests]
    /\ reply \in [Clients -> Replies]
    /\ alone \in SUBSET Instances
    /\ quiet \in SUBSET Instances
    /\ expects \in [Clients -> SUBSET Instances]
    /\ \A i \in Instances : main[i] = "off" <=> serve[i] = "off"
    /\ \A c \in Clients : /\ call[c] = "idle" <=> srv[c] = NoInstance
                          /\ call[c] = "dispatched" <=> reply[c] # "none"

Alive == {i \in Instances : main[i] # "off"}

Listening(i) == serve[i] = "listening"

CallsOn(i, phases) == {c \in Clients : call[c] \in phases /\ srv[c] = i}

UnmuteInFlight == \E c \in Clients : call[c] \in InFlight /\ req[c] = "unmute"

\* These calls are over, with a response or without; each wm ends.
Over(cs) ==
    /\ call' = [c \in Clients |-> IF c \in cs THEN "idle" ELSE call[c]]
    /\ srv' = [c \in Clients |-> IF c \in cs THEN NoInstance ELSE srv[c]]
    /\ req' = [c \in Clients |-> IF c \in cs THEN "other" ELSE req[c]]
    /\ reply' = [c \in Clients |-> IF c \in cs THEN "none" ELSE reply[c]]
    /\ expects' = [c \in Clients |-> IF c \in cs THEN {} ELSE expects[c]]

Init ==
    /\ main = [i \in Instances |-> "off"]
    /\ serve = [i \in Instances |-> "off"]
    /\ file = NoInstance
    /\ muted = [i \in Instances |-> FALSE]
    /\ call = [c \in Clients |-> "idle"]
    /\ srv = [c \in Clients |-> NoInstance]
    /\ req = [c \in Clients |-> "other"]
    /\ reply = [c \in Clients |-> "none"]
    /\ alone = {}
    /\ quiet = {}
    /\ expects = [c \in Clients |-> {}]

-----------------------------------------------------------------------------
(* The main task *)

\* run(): a new supervisor, and serve spawned as a task.
Launch(i) ==
    /\ i \notin Alive
    /\ Overlap \/ Alive = {}
    /\ main' = [main EXCEPT ![i] = "starting"]
    /\ serve' = [serve EXCEPT ![i] = "clearing"]
    /\ muted' = [muted EXCEPT ![i] = FALSE]
    /\ alone' = IF Alive = {} THEN {i} ELSE {}
    /\ quiet' = quiet \ {i}
    /\ UNCHANGED <<file, calls, expects>>

\* start_all has returned, the signal handlers are installed.
Ready(i) ==
    /\ main[i] = "starting"
    /\ main' = [main EXCEPT ![i] = "waiting"]
    /\ UNCHANGED <<serve, file, muted, calls, history>>

\* SIGINT or SIGTERM, handled.
Signal(i) ==
    /\ main[i] = "waiting"
    /\ main' = [main EXCEPT ![i] = "leaving"]
    /\ UNCHANGED <<serve, file, muted, calls, history>>

\* Mutant: an error of serve is not among the reasons to leave.
ServeEndedIgnored(i) ==
    /\ main[i] = "waiting" /\ serve[i] = "refused"
    /\ main' = [main EXCEPT ![i] = "leaving"]
    /\ UNCHANGED <<serve, file, muted, calls, history>>

\* The select! sees that serve has returned, which it does only with an error.
ServeEnded(i) ==
    /\ main[i] = "waiting" /\ serve[i] \in {"refused", "failed"}
    /\ main' = [main EXCEPT ![i] = "leaving"]
    /\ UNCHANGED <<serve, file, muted, calls, history>>

\* remove_file(&sock), whoever created the file that is there now.
Unlink(i) ==
    /\ main[i] = "leaving"
    /\ main' = [main EXCEPT ![i] = "exiting"]
    /\ file' = NoInstance
    /\ UNCHANGED <<serve, muted, calls, history>>

\* The process is gone with its tasks, and the kernel closes its connections:
\* the clients read end of file.
Ends(i) ==
    /\ main' = [main EXCEPT ![i] = "off"]
    /\ serve' = [serve EXCEPT ![i] = "off"]
    /\ muted' = [muted EXCEPT ![i] = FALSE]
    /\ Over(CallsOn(i, InFlight))
    /\ UNCHANGED <<file, alone, quiet>>

Exit(i) == main[i] = "exiting" /\ Ends(i)

\* A crash, a SIGKILL, or a signal before its handler is installed.
Killed(i) == i \in Alive /\ Ends(i)

-----------------------------------------------------------------------------
(* The serve task *)

\* Mutant: a file that is there already is left alone.
ClearKeeps(i) ==
    /\ serve[i] = "clearing"
    /\ serve' = [serve EXCEPT ![i] = "binding"]
    /\ UNCHANGED <<main, file, muted, calls, history>>

\* remove_file(socket_path), meant for a stale file.
Clear(i) ==
    /\ serve[i] = "clearing"
    /\ serve' = [serve EXCEPT ![i] = "binding"]
    /\ file' = NoInstance
    /\ UNCHANGED <<main, muted, calls, history>>

Bind(i) ==
    /\ serve[i] = "binding" /\ file = NoInstance
    /\ serve' = [serve EXCEPT ![i] = "listening"]
    /\ file' = i
    /\ UNCHANGED <<main, muted, calls, history>>

\* EADDRINUSE: there is a file again.
BindRefused(i) ==
    /\ serve[i] = "binding" /\ file # NoInstance
    /\ serve' = [serve EXCEPT ![i] = "refused"]
    /\ UNCHANGED <<main, file, muted, calls, history>>

\* An I/O error of create_dir_all or remove_file.
ClearFails(i) ==
    /\ serve[i] = "clearing"
    /\ serve' = [serve EXCEPT ![i] = "failed"]
    /\ UNCHANGED <<main, file, muted, calls, history>>

\* An error of accept (out of file descriptors): the listener is dropped, and
\* with it the connections it has not accepted.
AcceptFails(i) ==
    /\ Listening(i)
    /\ serve' = [serve EXCEPT ![i] = "failed"]
    /\ Over(CallsOn(i, {"queued"}))
    /\ UNCHANGED <<main, file, muted, alone, quiet>>

-----------------------------------------------------------------------------
(* A call: client_roundtrip on one side, accept, handle_conn and dispatch  *)
(* on the other.                                                           *)

\* A status call relies on the promises that stand when it begins, a mute call
\* may make one; an unmute that is or gets on its way takes all this back.
Connected(c, r) ==
    /\ call' = [call EXCEPT ![c] = "queued"]
    /\ srv' = [srv EXCEPT ![c] = file]
    /\ req' = [req EXCEPT ![c] = r]
    /\ quiet' = IF r = "unmute" THEN {} ELSE quiet
    /\ expects' =
          CASE r = "unmute" -> [k \in Clients |-> {}]
            [] r = "status" -> [expects EXCEPT ![c] = quiet]
            [] r = "mute" -> [expects EXCEPT ![c] = IF UnmuteInFlight THEN {} ELSE {file}]
            [] r = "other" -> expects
    /\ UNCHANGED <<instance, reply, alone>>

\* connect reaches the listener behind the file; then the request is sent.  When
\* there is no file or nobody listens, wm ends with an error and nothing changes.
Connect(c, r) ==
    /\ call[c] = "idle"
    /\ file # NoInstance /\ Listening(file)
    /\ Connected(c, r)

Accept(c) ==
    /\ call[c] = "queued" /\ Listening(srv[c])
    /\ call' = [call EXCEPT ![c] = "taken"]
    /\ UNCHANGED <<instance, srv, req, reply, history>>

\* Mutant: unmute has no arm of its own.
ResponseToMost(r, m) ==
    CASE r = "mute" -> "ack"
      [] r = "status" -> IF m THEN "muted" ELSE "unmuted"
      [] r = "other" -> "not served"
      [] OTHER -> "none"

Response(r, m) ==
    CASE r \in {"mute", "unmute"} -> "ack"
      [] r = "status" -> IF m THEN "muted" ELSE "unmuted"
      [] r = "other" -> "not served"

\* Mutant: the flag is set from every request.
DispatchAssigns(c) ==
    /\ call[c] = "taken"
    /\ call' = [call EXCEPT ![c] = "dispatched"]
    /\ reply' = [reply EXCEPT ![c] = Response(req[c], muted[srv[c]])]
    /\ muted' = [muted EXCEPT ![srv[c]] = (req[c] = "mute")]
    /\ UNCHANGED <<main, serve, file, srv, req, history>>

\* Mutant: a request without a handler gets no response.
DispatchServedOnly(c) ==
    /\ call[c] = "taken" /\ req[c] # "other"
    /\ call' = [call EXCEPT ![c] = "dispatched"]
    /\ reply' = [reply EXCEPT ![c] = Response(req[c], muted[srv[c]])]
    /\ muted' = [muted EXCEPT ![srv[c]] = (req[c] = "mute") \/ (@ /\ req[c] # "unmute")]
    /\ UNCHANGED <<main, serve, file, srv, req, history>>

\* dispatch: one step, under the lock of the view.
Dispatch(c) ==
    /\ call[c] = "taken"
    /\ call' = [call EXCEPT ![c] = "dispatched"]
    /\ reply' = [reply EXCEPT ![c] = Response(req[c], muted[srv[c]])]
    /\ muted' = [muted EXCEPT ![srv[c]] = (req[c] = "mute") \/ (@ /\ req[c] # "unmute")]
    /\ UNCHANGED <<main, serve, file, srv, req, history>>

\* The response is written and read.
Answer(c) ==
    /\ call[c] = "dispatched"
    /\ quiet' = IF req[c] = "mute" THEN quiet \cup expects[c] ELSE quiet
    /\ Over({c})
    /\ UNCHANGED <<instance, alone>>

-----------------------------------------------------------------------------

Main(i) == Ready(i) \/ ServeEnded(i) \/ Unlink(i) \/ Exit(i)

Serve(i) == Clear(i) \/ Bind(i) \/ BindRefused(i)

Handle(c) == Accept(c) \/ Dispatch(c) \/ Answer(c)

Wm(c) == \E r \in Sends[c] : Connect(c, r)

Outside(i) == Launch(i) \/ Signal(i) \/ Killed(i) \/ ClearFails(i) \/ AcceptFails(i)

Next == \/ \E i \in Instances : Main(i) \/ Serve(i) \/ Outside(i)
        \/ \E c \in Clients : Handle(c) \/ Wm(c)

Spec == Init /\ [][Next]_vars

\* tokio runs every task that can go on, and accept takes connections in the
\* order of the queue.  Nobody has to start, stop or call anything.
FairSpec == /\ Spec
            /\ \A i \in Instances : WF_vars(Main(i)) /\ WF_vars(Serve(i))
            /\ \A c \in Clients : WF_vars(Handle(c))

-----------------------------------------------------------------------------
(* Safety *)

\* Any instance may be killed at any step and leave its socket file behind.  The
\* next one gets its socket all the same: while it is the only one its bind is
\* not refused, and from then on it is behind the path until it is told to leave.
TakesOver ==
    \A i \in alone :
        /\ serve[i] # "refused"
        /\ Listening(i) /\ main[i] \in {"starting", "waiting"} => file = i

\* The mute flag is a linearizable register: a status call that begins after an
\* instance has acknowledged a mute, and with no unmute sent before the answer,
\* does not hear from that instance that it is unmuted.
MuteVisible ==
    \A c \in Clients : call[c] = "dispatched" /\ srv[c] \in expects[c]
                          => reply[c] # "unmuted"

-----------------------------------------------------------------------------
(* Liveness *)

\* No wm command hangs, although client_roundtrip has no timeout: whatever
\* becomes of the instance, the call is answered or cut off.
CallEnds ==
    \A c \in Clients : call[c] \in InFlight ~> call[c] = "idle"

\* An instance that cannot serve ends, so that systemd can start another.
UselessLeaves ==
    \A i \in Instances : serve[i] \in {"refused", "failed"} ~> main[i] = "off"

-----------------------------------------------------------------------------
(* What the documentation says and the code does not do *)

\* supervisor.rs: "any stale socket file is removed first".  It is the file of a
\* live instance that is removed, by serve and by the end of run: when the
\* others are gone, the instance that still listens is not behind the path.
SurvivorReachable ==
    \A i \in Instances :
        Alive = {i} /\ main[i] = "waiting" /\ Listening(i) => file = i

=============================================================================
