------------------------- MODULE ControlPlaneProofs --------------------------
(***************************************************************************)
(* Theorems about ControlPlane, for any number of instances and clients,   *)
(* whether instances overlap or not.                                       *)
(***************************************************************************)
EXTENDS ControlPlane, TLAPS

MainSteps == {"off", "starting", "waiting", "leaving", "exiting"}
ServeSteps == {"off", "clearing", "binding", "listening", "refused", "failed"}

LEMMA TypeInit == Init => TypeOK
BY ControlAssumption DEF Init, TypeOK, InFlight, Replies, Requests

(* Calls that are over are idle, the others are as they were. *)
LEMMA OverType ==
    ASSUME TypeOK, NEW cs \in SUBSET Clients, Over(cs)
    PROVE  /\ call' \in [Clients -> InFlight \cup {"idle"}]
           /\ srv' \in [Clients -> Instances \cup {NoInstance}]
           /\ req' \in [Clients -> Requests]
           /\ reply' \in [Clients -> Replies]
           /\ expects' \in [Clients -> SUBSET Instances]
           /\ \A c \in Clients : /\ call'[c] = "idle" <=> srv'[c] = NoInstance
                                 /\ call'[c] = "dispatched" <=> reply'[c] # "none"
<1> USE DEF TypeOK, Over
<1>1. call' \in [Clients -> InFlight \cup {"idle"}]
  OBVIOUS
<1>2. srv' \in [Clients -> Instances \cup {NoInstance}]
  OBVIOUS
<1>3. req' \in [Clients -> Requests]
  BY DEF Requests
<1>4. reply' \in [Clients -> Replies]
  BY DEF Replies
<1>5. expects' \in [Clients -> SUBSET Instances]
  OBVIOUS
<1>6. ASSUME NEW c \in Clients
      PROVE  /\ call'[c] = "idle" <=> srv'[c] = NoInstance
             /\ call'[c] = "dispatched" <=> reply'[c] # "none"
  OBVIOUS
<1>. QED
  BY <1>1, <1>2, <1>3, <1>4, <1>5, <1>6

LEMMA EndsType ==
    ASSUME TypeOK, NEW i \in Instances, Ends(i)
    PROVE  TypeOK'
<1>1. CallsOn(i, InFlight) \in SUBSET Clients
  BY DEF CallsOn
<1>2. Over(CallsOn(i, InFlight))
  BY DEF Ends
<1>. QED
  BY <1>1, <1>2, OverType DEF Ends, TypeOK

LEMMA MainType ==
    ASSUME TypeOK, NEW i \in Instances, Main(i) \/ Serve(i) \/ Outside(i)
    PROVE  TypeOK'
<1> USE DEF TypeOK, instance, calls, promises, history
<1>1. CASE Ready(i) \/ Signal(i) \/ ServeEnded(i) \/ Unlink(i)
  BY <1>1 DEF Ready, Signal, ServeEnded, Unlink
<1>2. CASE Exit(i) \/ Killed(i)
  BY <1>2, EndsType DEF Exit, Killed
<1>3. CASE Launch(i)
  BY <1>3 DEF Launch, Alive
<1>4. CASE Clear(i) \/ Bind(i) \/ BindRefused(i) \/ ClearFails(i)
  BY <1>4 DEF Clear, Bind, BindRefused, ClearFails
<1>5. CASE AcceptFails(i)
  <2>1. CallsOn(i, {"queued"}) \in SUBSET Clients
    BY DEF CallsOn
  <2>2. Over(CallsOn(i, {"queued"}))
    BY <1>5 DEF AcceptFails
  <2>3. \A j \in Instances : main'[j] = "off" <=> serve'[j] = "off"
    BY <1>5 DEF AcceptFails, Listening
  <2>. QED
    BY <1>5, <2>1, <2>2, <2>3, OverType DEF AcceptFails
<1>. QED
  BY <1>1, <1>2, <1>3, <1>4, <1>5 DEF Main, Serve, Outside

LEMMA CallType ==
    ASSUME TypeOK, NEW c \in Clients, Handle(c) \/ Wm(c)
    PROVE  TypeOK'
<1> USE DEF TypeOK, instance, calls, promises, history
<1>1. ASSUME NEW r \in Sends[c], Connect(c, r)
      PROVE  TypeOK'
  <2>0. r \in Requests /\ file \in Instances /\ file # NoInstance
    BY <1>1, ControlAssumption DEF Connect
  <2>1. /\ call' \in [Clients -> InFlight \cup {"idle"}]
        /\ srv' \in [Clients -> Instances \cup {NoInstance}]
        /\ req' \in [Clients -> Requests]
        /\ quiet' \in SUBSET Instances
    BY <1>1, <2>0 DEF Connect, Connected, InFlight
  <2>2. expects' \in [Clients -> SUBSET Instances]
    BY <1>1, <2>0 DEF Connect, Connected, Requests
  <2>3. \A k \in Clients : /\ call'[k] = "idle" <=> srv'[k] = NoInstance
                           /\ call'[k] = "dispatched" <=> reply'[k] # "none"
    BY <1>1, <2>0 DEF Connect, Connected
  <2>4. UNCHANGED <<main, serve, file, muted, reply, alone>>
    BY <1>1 DEF Connect, Connected
  <2>. QED
    BY <2>1, <2>2, <2>3, <2>4
<1>2. CASE Accept(c)
  BY <1>2 DEF Accept, InFlight
<1>3. CASE Dispatch(c)
  <2>1. Response(req[c], muted[srv[c]]) \in Replies \ {"none"}
    BY DEF Response, Requests, Replies
  <2>2. call' \in [Clients -> InFlight \cup {"idle"}]
    BY <1>3 DEF Dispatch, InFlight
  <2>3. reply' \in [Clients -> Replies]
    BY <1>3, <2>1 DEF Dispatch
  <2>4. muted' \in [Instances -> BOOLEAN]
    BY <1>3 DEF Dispatch
  <2>5. \A k \in Clients : /\ call'[k] = "idle" <=> srv'[k] = NoInstance
                           /\ call'[k] = "dispatched" <=> reply'[k] # "none"
    BY <1>3, <2>1 DEF Dispatch
  <2>. QED
    BY <1>3, <2>2, <2>3, <2>4, <2>5 DEF Dispatch
<1>4. CASE Answer(c)
  <2>1. Over({c})
    BY <1>4 DEF Answer
  <2>. QED
    BY <1>4, <2>1, OverType DEF Answer
<1>. QED
  BY <1>1, <1>2, <1>3, <1>4 DEF Handle, Wm

LEMMA TypeNext == TypeOK /\ [Next]_vars => TypeOK'
<1>1. TypeOK /\ UNCHANGED vars => TypeOK'
  BY DEF TypeOK, vars, instance, calls, promises, history, Listening
<1>. QED
  BY <1>1, MainType, CallType DEF Next

(* The state of the instances, of the calls and of what clients may rely on *)
(* has its type in every reachable state.                                  *)
THEOREM ControlTypeCorrect == Spec => []TypeOK
BY TypeInit, TypeNext, PTL DEF Spec

-----------------------------------------------------------------------------
(* TakesOver: an instance that has had no company since its launch is the   *)
(* only one there is, so between its Clear and its Bind nobody creates the *)
(* file, and afterwards nobody removes it.                                 *)

AloneOnly == \A i \in alone : alone \subseteq {i} /\ Alive \subseteq {i}

AloneServes ==
    \A i \in alone :
        /\ serve[i] = "binding" => file = NoInstance
        /\ serve[i] # "refused"
        /\ Listening(i) /\ main[i] \in {"starting", "waiting"} => file = i

TakeoverInv == TypeOK /\ AloneOnly /\ AloneServes

LEMMA TakeoverInit == Init => AloneOnly /\ AloneServes
BY DEF Init, AloneOnly, AloneServes

LEMMA TakeoverNext ==
    ASSUME TakeoverInv, [Next]_vars
    PROVE  AloneOnly' /\ AloneServes'
<1> USE DEF TakeoverInv, TypeOK, AloneOnly, AloneServes, Alive, Listening,
            instance, calls, promises, history
<1>1. CASE UNCHANGED vars
  BY <1>1 DEF vars
<1>2. ASSUME NEW i \in Instances, Launch(i)
      PROVE  AloneOnly' /\ AloneServes'
  BY <1>2 DEF Launch
<1>3. ASSUME NEW i \in Instances, Ready(i) \/ Signal(i) \/ ServeEnded(i) \/ Unlink(i)
      PROVE  AloneOnly' /\ AloneServes'
  \* The instance that acts is alive, hence the lone one if there is one.
  <2>1. \A j \in alone : j = i
    BY <1>3 DEF Ready, Signal, ServeEnded, Unlink
  <2>2. /\ UNCHANGED <<serve, alone>>
        /\ \A j \in Instances : main'[j] # "off" => main[j] # "off"
    BY <1>3 DEF Ready, Signal, ServeEnded, Unlink
  <2>3. AloneOnly'
    BY <2>2
  <2>4. AloneServes'
    BY <1>3, <2>1, <2>2 DEF Ready, Signal, ServeEnded, Unlink
  <2>. QED
    BY <2>3, <2>4
<1>4. ASSUME NEW i \in Instances, Ends(i)
      PROVE  AloneOnly' /\ AloneServes'
  BY <1>4 DEF Ends
<1>5. ASSUME NEW i \in Instances,
             Clear(i) \/ Bind(i) \/ BindRefused(i) \/ ClearFails(i) \/ AcceptFails(i)
      PROVE  AloneOnly' /\ AloneServes'
  <2>1. \A j \in alone : j = i
    BY <1>5 DEF Clear, Bind, BindRefused, ClearFails, AcceptFails
  <2>2. UNCHANGED <<main, alone>>
    BY <1>5 DEF Clear, Bind, BindRefused, ClearFails, AcceptFails
  <2>. QED
    BY <1>5, <2>1, <2>2 DEF Clear, Bind, BindRefused, ClearFails, AcceptFails
<1>6. ASSUME NEW c \in Clients, Handle(c) \/ Wm(c)
      PROVE  AloneOnly' /\ AloneServes'
  <2>1. UNCHANGED <<main, serve, file, alone>>
    BY <1>6 DEF Handle, Accept, Dispatch, Answer, Wm, Connect, Connected
  <2>. QED
    BY <2>1
<1>. QED
  BY <1>1, <1>2, <1>3, <1>4, <1>5, <1>6 DEF Next, Main, Serve, Outside, Exit, Killed

(* Whatever a killed predecessor left behind, an instance that is the only *)
(* one is never refused its socket and then stays behind the path.         *)
THEOREM SocketTakenOver == Spec => []TakesOver
<1>1. Init => TakeoverInv
  BY TypeInit, TakeoverInit DEF TakeoverInv
<1>2. TakeoverInv /\ [Next]_vars => TakeoverInv'
  BY TypeNext, TakeoverNext DEF TakeoverInv
<1>3. TakeoverInv => TakesOver
  BY DEF TakeoverInv, AloneServes, TakesOver
<1>. QED
  BY <1>1, <1>2, <1>3, PTL DEF Spec

-----------------------------------------------------------------------------
(* MuteVisible: while anybody relies on a mute, no unmute is under way, so  *)
(* the flag of an instance that has promised stays up until it ends.       *)

Served == \A c \in Clients : call[c] \in InFlight => srv[c] \in Alive

IdleExpectsNothing == \A c \in Clients : call[c] = "idle" => expects[c] = {}

NoUnmuteMeanwhile ==
    (quiet # {} \/ \E c \in Clients : expects[c] # {}) => ~UnmuteInFlight

QuietIsMuted == \A i \in quiet \cap Alive : muted[i]

\* What a call stands for when its server is among those it relies on.
CallKeeps(c) ==
    /\ req[c] = "mute" /\ call[c] \in InFlight => expects[c] \subseteq {srv[c]}
    /\ srv[c] \in expects[c] =>
          /\ req[c] = "status" /\ call[c] \in {"queued", "taken"} => muted[srv[c]]
          /\ req[c] = "mute" /\ call[c] = "dispatched" => muted[srv[c]]
          /\ call[c] = "dispatched" => reply[c] # "unmuted"

PromiseInv ==
    /\ TypeOK /\ Served /\ IdleExpectsNothing /\ NoUnmuteMeanwhile /\ QuietIsMuted
    /\ \A c \in Clients : CallKeeps(c)

LEMMA PromiseInit == Init => PromiseInv
<1> SUFFICES ASSUME Init
             PROVE  PromiseInv
  OBVIOUS
<1>1. TypeOK
  BY TypeInit
<1>2. \A c \in Clients : CallKeeps(c)
  BY DEF Init, CallKeeps, InFlight
<1>. QED
  BY <1>1, <1>2 DEF Init, PromiseInv, Served, IdleExpectsNothing, NoUnmuteMeanwhile,
                    QuietIsMuted, InFlight

(* The steps of the two tasks that touch neither calls nor the flag.        *)
LEMMA PromiseFrame ==
    ASSUME PromiseInv, TypeOK', UNCHANGED <<muted, calls, promises>>, Alive' = Alive
    PROVE  PromiseInv'
BY DEF PromiseInv, Served, IdleExpectsNothing, NoUnmuteMeanwhile, UnmuteInFlight,
       QuietIsMuted, CallKeeps, calls, promises

(* Calls that end take their expectations along.                           *)
LEMMA PromiseOver ==
    ASSUME PromiseInv, TypeOK', NEW cs \in SUBSET Clients, Over(cs),
           \A c \in Clients \ cs : call[c] \in InFlight => srv[c] \in Alive',
           \A c \in Clients \ cs : call[c] \in InFlight => muted'[srv[c]] = muted[srv[c]],
           quiet' # {} => ~UnmuteInFlight,
           \A i \in quiet' \cap Alive' : muted'[i]
    PROVE  PromiseInv'
<1> USE DEF PromiseInv, TypeOK
<1>1. ASSUME NEW c \in cs
      PROVE  /\ call'[c] = "idle" /\ srv'[c] = NoInstance /\ req'[c] = "other"
             /\ reply'[c] = "none" /\ expects'[c] = {}
  BY <1>1 DEF Over
<1>2. ASSUME NEW c \in Clients \ cs
      PROVE  /\ call'[c] = call[c] /\ srv'[c] = srv[c] /\ req'[c] = req[c]
             /\ reply'[c] = reply[c] /\ expects'[c] = expects[c]
  BY <1>2 DEF Over
<1>3. Served' /\ IdleExpectsNothing'
  <2> SUFFICES ASSUME NEW c \in Clients
               PROVE  /\ call'[c] \in InFlight => srv'[c] \in Alive'
                      /\ call'[c] = "idle" => expects'[c] = {}
    BY DEF Served, IdleExpectsNothing
  <2>1. CASE c \in cs
    BY <1>1, <2>1 DEF InFlight
  <2>2. CASE c \notin cs
    BY <1>2, <2>2 DEF IdleExpectsNothing
  <2>. QED
    BY <2>1, <2>2
<1>4. NoUnmuteMeanwhile'
  <2>1. UnmuteInFlight' => UnmuteInFlight
    BY <1>1, <1>2 DEF UnmuteInFlight, InFlight
  <2>2. (\E c \in Clients : expects'[c] # {}) => \E c \in Clients : expects[c] # {}
    BY <1>1, <1>2
  <2>. QED
    BY <2>1, <2>2 DEF NoUnmuteMeanwhile
<1>5. QuietIsMuted'
  BY DEF QuietIsMuted
<1>6. ASSUME NEW c \in Clients
      PROVE  CallKeeps(c)'
  <2>1. CASE c \in cs
    BY <1>1, <2>1 DEF CallKeeps, InFlight
  <2>2. CASE c \notin cs
    BY <1>2, <2>2 DEF CallKeeps, InFlight
  <2>. QED
    BY <2>1, <2>2
<1>. QED
  BY <1>3, <1>4, <1>5, <1>6

LEMMA PromiseEnds ==
    ASSUME PromiseInv, TypeOK', NEW i \in Instances, Ends(i)
    PROVE  PromiseInv'
<1> DEFINE cs == CallsOn(i, InFlight)
<1> USE DEF PromiseInv, TypeOK
<1>1. cs \in SUBSET Clients /\ Over(cs)
  BY DEF CallsOn, Ends
<1>2. Alive' = Alive \ {i} /\ muted' = [muted EXCEPT ![i] = FALSE] /\ quiet' = quiet
  BY DEF Ends, Alive
<1>3. ASSUME NEW c \in Clients \ cs, call[c] \in InFlight
      PROVE  srv[c] # i /\ srv[c] \in Alive
  BY <1>3 DEF CallsOn, Served
<1>4. \A c \in Clients \ cs : call[c] \in InFlight =>
          srv[c] \in Alive' /\ muted'[srv[c]] = muted[srv[c]]
  BY <1>2, <1>3 DEF Alive
<1>5. \A j \in quiet' \cap Alive' : muted'[j]
  BY <1>2 DEF QuietIsMuted, Alive
<1>6. quiet' # {} => ~UnmuteInFlight
  BY <1>2 DEF NoUnmuteMeanwhile
<1> HIDE DEF cs
<1>. QED
  BY <1>1, <1>4, <1>5, <1>6, PromiseOver

LEMMA PromiseLaunch ==
    ASSUME PromiseInv, TypeOK', NEW i \in Instances, Launch(i)
    PROVE  PromiseInv'
<1> USE DEF PromiseInv, TypeOK, calls
<1>1. /\ i \notin Alive /\ Alive' = Alive \cup {i}
      /\ muted' = [muted EXCEPT ![i] = FALSE] /\ quiet' = quiet \ {i}
      /\ UNCHANGED <<call, srv, req, reply, expects>>
  BY DEF Launch, Alive
<1>2. Served' /\ IdleExpectsNothing' /\ NoUnmuteMeanwhile'
  BY <1>1 DEF Served, IdleExpectsNothing, NoUnmuteMeanwhile, UnmuteInFlight
<1>3. QuietIsMuted'
  BY <1>1 DEF QuietIsMuted, Alive
<1>4. ASSUME NEW c \in Clients
      PROVE  CallKeeps(c)'
  <2>1. CASE call[c] \in InFlight
    <3>1. srv[c] # i /\ srv[c] \in Instances
      BY <1>1, <2>1 DEF Served, Alive
    <3>. QED
      BY <1>1, <3>1 DEF CallKeeps
  <2>2. CASE call[c] \notin InFlight
    BY <1>1, <2>2 DEF CallKeeps, InFlight
  <2>. QED
    BY <2>1, <2>2
<1>. QED
  BY <1>2, <1>3, <1>4

LEMMA PromiseConnect ==
    ASSUME PromiseInv, TypeOK', NEW c \in Clients, NEW r \in Sends[c], Connect(c, r)
    PROVE  PromiseInv'
<1> USE DEF PromiseInv, TypeOK, instance
<1>1. /\ r \in Requests /\ call[c] = "idle" /\ file \in Instances /\ file \in Alive
  BY ControlAssumption DEF Connect, Listening, Alive
<1>2. /\ call'[c] = "queued" /\ srv'[c] = file /\ req'[c] = r /\ expects[c] = {}
      /\ UNCHANGED <<main, muted, reply>> /\ Alive' = Alive
  BY <1>1 DEF Connect, Connected, IdleExpectsNothing, Alive
<1>3. \A k \in Clients \ {c} : call'[k] = call[k] /\ srv'[k] = srv[k] /\ req'[k] = req[k]
  BY DEF Connect, Connected
<1>4. Served'
  BY <1>1, <1>2, <1>3 DEF Served
<1>5. CASE r = "unmute"
  <2>1. quiet' = {} /\ \A k \in Clients : expects'[k] = {}
    BY <1>5 DEF Connect, Connected
  <2>. QED
    BY <1>2, <1>4, <2>1 DEF IdleExpectsNothing, NoUnmuteMeanwhile, QuietIsMuted, CallKeeps
<1>6. CASE r # "unmute"
  <2>1. UnmuteInFlight' <=> UnmuteInFlight
    BY <1>1, <1>2, <1>3, <1>6 DEF UnmuteInFlight, InFlight
  <2>2. /\ quiet' = quiet
        /\ \A k \in Clients \ {c} : expects'[k] = expects[k]
        /\ r = "status" => expects'[c] = quiet
        /\ r = "mute" => expects'[c] = IF UnmuteInFlight THEN {} ELSE {file}
        /\ r = "other" => expects'[c] = {}
    <3>1. quiet' = quiet /\ Connected(c, r)
      BY <1>6 DEF Connect, Connected
    <3>2. CASE r = "status"
      <4>1. expects' = [expects EXCEPT ![c] = quiet]
        BY <3>1, <3>2 DEF Connected
      <4>. QED
        BY <3>1, <3>2, <4>1
    <3>3. CASE r = "mute"
      <4>1. expects' = [expects EXCEPT ![c] = IF UnmuteInFlight THEN {} ELSE {file}]
        BY <3>1, <3>3 DEF Connected
      <4>. QED
        BY <3>1, <3>3, <4>1
    <3>4. CASE r = "other"
      <4>1. expects' = expects
        BY <3>1, <3>4 DEF Connected
      <4>. QED
        BY <1>2, <3>1, <3>4, <4>1
    <3>. QED
      BY <1>1, <1>6, <3>2, <3>3, <3>4 DEF Requests
  <2>3. IdleExpectsNothing'
    BY <1>2, <1>3, <2>2 DEF IdleExpectsNothing
  <2>4. NoUnmuteMeanwhile'
    BY <1>1, <1>6, <2>1, <2>2 DEF NoUnmuteMeanwhile, Requests
  <2>5. QuietIsMuted'
    BY <1>2, <2>2 DEF QuietIsMuted
  <2>6. CallKeeps(c)'
    BY <1>1, <1>2, <1>6, <2>2 DEF CallKeeps, QuietIsMuted, Requests
  <2>7. \A k \in Clients \ {c} : CallKeeps(k)'
    BY <1>2, <1>3, <2>2 DEF CallKeeps
  <2>. QED
    BY <1>4, <2>3, <2>4, <2>5, <2>6, <2>7
<1>. QED
  BY <1>5, <1>6

LEMMA PromiseDispatch ==
    ASSUME PromiseInv, TypeOK', NEW c \in Clients, Dispatch(c)
    PROVE  PromiseInv'
<1> USE DEF PromiseInv, TypeOK, promises, history
<1>1. /\ call[c] = "taken" /\ srv[c] \in Instances /\ req[c] \in Requests
      /\ call' = [call EXCEPT ![c] = "dispatched"]
      /\ reply' = [reply EXCEPT ![c] = Response(req[c], muted[srv[c]])]
      /\ muted' = [muted EXCEPT ![srv[c]] = (req[c] = "mute") \/ (@ /\ req[c] # "unmute")]
      /\ UNCHANGED <<main, srv, req, quiet, expects>> /\ Alive' = Alive
  BY DEF Dispatch, Alive
<1>2. Served' /\ IdleExpectsNothing' /\ NoUnmuteMeanwhile'
  BY <1>1 DEF Served, IdleExpectsNothing, NoUnmuteMeanwhile, UnmuteInFlight, InFlight
\* The flag is not taken down while anybody relies on it.
<1>3. ASSUME quiet # {} \/ \E k \in Clients : expects[k] # {}, NEW i \in Instances, muted[i]
      PROVE  muted'[i]
  <2>1. req[c] # "unmute"
    BY <1>1, <1>3 DEF NoUnmuteMeanwhile, UnmuteInFlight, InFlight
  <2>. QED
    BY <1>1, <1>3, <2>1
<1>4. QuietIsMuted'
  BY <1>1, <1>3 DEF QuietIsMuted, Alive
<1>5. CallKeeps(c)'
  <2>1. /\ call'[c] = "dispatched" /\ UNCHANGED <<srv, req, expects>>
        /\ reply'[c] = Response(req[c], muted[srv[c]])
    BY <1>1
  <2>2. ASSUME req[c] = "mute"
        PROVE  muted'[srv[c]]
    <3>1. muted' = [muted EXCEPT ![srv[c]] = TRUE]
      <4>1. ((req[c] = "mute") \/ (muted[srv[c]] /\ req[c] # "unmute")) = TRUE
        BY <2>2
      <4>. QED
        BY <1>1, <4>1, Zenon
    <3>. QED
      BY <1>1, <3>1
  <2>3. ASSUME srv[c] \in expects[c]
        PROVE  reply'[c] # "unmuted"
    <3>1. CASE req[c] = "status"
      <4>1. muted[srv[c]]
        BY <1>1, <2>3, <3>1 DEF CallKeeps
      <4>. QED
        BY <2>1, <3>1, <4>1 DEF Response
    <3>2. CASE req[c] \in {"mute", "unmute"}
      BY <2>1, <3>2 DEF Response
    <3>3. CASE req[c] = "other"
      BY <2>1, <3>3 DEF Response
    <3>. QED
      BY <1>1, <3>1, <3>2, <3>3 DEF Requests
  <2>4. req[c] = "mute" => expects[c] \subseteq {srv[c]}
    BY <1>1 DEF CallKeeps, InFlight
  <2>. QED
    BY <2>1, <2>2, <2>3, <2>4 DEF CallKeeps
<1>6. ASSUME NEW k \in Clients \ {c}
      PROVE  CallKeeps(k)'
  <2>1. call'[k] = call[k] /\ reply'[k] = reply[k]
    BY <1>1
  <2>2. CASE srv[k] \in expects[k]
    <3>1. srv[k] \in Instances
      BY <2>2
    <3>. QED
      BY <1>1, <1>3, <2>1, <2>2, <3>1 DEF CallKeeps
  <2>3. CASE srv[k] \notin expects[k]
    BY <1>1, <2>1, <2>3 DEF CallKeeps
  <2>. QED
    BY <2>2, <2>3
<1>. QED
  BY <1>2, <1>4, <1>5, <1>6

LEMMA PromiseAnswer ==
    ASSUME PromiseInv, TypeOK', NEW c \in Clients, Answer(c)
    PROVE  PromiseInv'
<1> USE DEF PromiseInv, TypeOK, instance
<1>1. /\ call[c] = "dispatched" /\ Over({c}) /\ UNCHANGED <<main, muted>> /\ Alive' = Alive
      /\ quiet' = IF req[c] = "mute" THEN quiet \cup expects[c] ELSE quiet
  BY DEF Answer, Alive
<1>2. quiet' # {} => ~UnmuteInFlight
  BY <1>1 DEF NoUnmuteMeanwhile
<1>3. \A i \in quiet' \cap Alive' : muted'[i]
  BY <1>1 DEF QuietIsMuted, CallKeeps, InFlight
<1>4. \A k \in Clients \ {c} : call[k] \in InFlight =>
          srv[k] \in Alive' /\ muted'[srv[k]] = muted[srv[k]]
  BY <1>1 DEF Served
<1>. QED
  BY <1>1, <1>2, <1>3, <1>4, PromiseOver

LEMMA PromiseNext == PromiseInv /\ [Next]_vars => PromiseInv'
<1> SUFFICES ASSUME PromiseInv, [Next]_vars
             PROVE  PromiseInv'
  OBVIOUS
<1>0. TypeOK /\ TypeOK'
  BY TypeNext DEF PromiseInv
<1> USE DEF instance, calls, promises, history
<1>1. CASE UNCHANGED vars
  BY <1>0, <1>1, PromiseFrame DEF vars, Alive
<1>2. ASSUME NEW i \in Instances, Launch(i)
      PROVE  PromiseInv'
  BY <1>0, <1>2, PromiseLaunch
<1>3. ASSUME NEW i \in Instances, Ends(i)
      PROVE  PromiseInv'
  BY <1>0, <1>3, PromiseEnds
<1>4. ASSUME NEW i \in Instances,
             \/ Ready(i) \/ Signal(i) \/ ServeEnded(i) \/ Unlink(i)
             \/ Clear(i) \/ Bind(i) \/ BindRefused(i) \/ ClearFails(i)
      PROVE  PromiseInv'
  <2>1. UNCHANGED <<muted, calls, promises>>
    BY <1>4 DEF Ready, Signal, ServeEnded, Unlink, Clear, Bind, BindRefused, ClearFails
  <2>2. Alive' = Alive
    BY <1>0, <1>4 DEF Ready, Signal, ServeEnded, Unlink, Clear, Bind, BindRefused,
                      ClearFails, Alive, TypeOK
  <2>. QED
    BY <1>0, <2>1, <2>2, PromiseFrame
<1>5. ASSUME NEW i \in Instances, AcceptFails(i)
      PROVE  PromiseInv'
  <2>1. CallsOn(i, {"queued"}) \in SUBSET Clients /\ Over(CallsOn(i, {"queued"}))
    BY <1>5 DEF AcceptFails, CallsOn
  <2>2. UNCHANGED <<muted, quiet>> /\ Alive' = Alive
    BY <1>5 DEF AcceptFails, Alive
  <2>. QED
    BY <1>0, <2>1, <2>2, PromiseOver DEF PromiseInv, Served, NoUnmuteMeanwhile, QuietIsMuted
<1>6. ASSUME NEW c \in Clients, NEW r \in Sends[c], Connect(c, r)
      PROVE  PromiseInv'
  BY <1>0, <1>6, PromiseConnect
<1>7. ASSUME NEW c \in Clients, Accept(c)
      PROVE  PromiseInv'
  BY <1>0, <1>7 DEF Accept, PromiseInv, TypeOK, Served, IdleExpectsNothing, NoUnmuteMeanwhile,
                    UnmuteInFlight, QuietIsMuted, CallKeeps, Alive, InFlight
<1>8. ASSUME NEW c \in Clients, Dispatch(c)
      PROVE  PromiseInv'
  BY <1>0, <1>8, PromiseDispatch
<1>9. ASSUME NEW c \in Clients, Answer(c)
      PROVE  PromiseInv'
  BY <1>0, <1>9, PromiseAnswer
<1>. QED
  BY <1>1, <1>2, <1>3, <1>4, <1>5, <1>6, <1>7, <1>8, <1>9
     DEF Next, Main, Serve, Outside, Exit, Killed, Handle, Wm

(* However calls of any number of clients overlap, and whichever instances  *)
(* come and go, a status call that begins after an acknowledged mute never *)
(* hears from that instance that it is unmuted, unless an unmute was sent. *)
THEOREM MuteLinearizable == Spec => []MuteVisible
<1>1. Init => PromiseInv
  BY PromiseInit
<1>2. PromiseInv /\ [Next]_vars => PromiseInv'
  BY PromiseNext
<1>3. PromiseInv => MuteVisible
  BY DEF PromiseInv, CallKeeps, MuteVisible
<1>. QED
  BY <1>1, <1>2, <1>3, PTL DEF Spec

=============================================================================
