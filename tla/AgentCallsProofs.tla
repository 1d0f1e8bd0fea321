-------------------------- MODULE AgentCallsProofs --------------------------
(***************************************************************************)
(* Theorems about AgentCalls, for every value of the time limits and every *)
(* set of calls.                                                           *)
(*                                                                         *)
(* The inductive invariant is TypeOK with Control (which states of client, *)
(* connection and processes go together), Progress (the commands that have *)
(* run are those before step) and Clocks (the handler's clock is the       *)
(* client's as long as the client waits).                                  *)
(***************************************************************************)
EXTENDS AgentCalls, TLAPS

Steps == 1..Len(Commands(call.action))

\* Every step before k has succeeded, or it does not matter that it failed.
DoneBefore(k) == \A j \in Steps : j < k => j \in succeeded \/ Tolerated(call.action, j)

Control ==
    /\ cli = "idle" => srv = "idle"
    /\ srv # "running" => command = {}
    /\ srv # "closed" => reply = "nothing" /\ orphans = {}
    /\ orphans # {} => srvClock = HANDLER_TIMEOUT /\ reply # "ok"
    /\ cli = "ok" => reply = "ok"

Progress ==
    /\ Running => step \in Steps /\ DoneBefore(step)
    /\ reply = "ok" => \A j \in Steps : j \in succeeded \/ Tolerated(call.action, j)

Clocks ==
    /\ cli \in {"idle", "connected"} => cliClock = 0
    /\ srv = "reading" /\ cli = "waiting" => cliClock = 0
    /\ Running => /\ cli \in {"waiting", "late"}
                  /\ srvClock <= HANDLER_TIMEOUT
                  /\ cli = "waiting" => cliClock = srvClock

IInv == TypeOK /\ Control /\ Progress /\ Clocks

-----------------------------------------------------------------------------
\* A handler runs at most two commands, of registered binaries.
LEMMA CommandsShape ==
    ASSUME NEW a
    PROVE  /\ Len(Commands(a)) \in 0..2
           /\ \A k \in 1..Len(Commands(a)) : Commands(a)[k] \in Binaries
<1> DEFINE two == {"nginx.reload", "user.ensure_domain_user"}
           one == {"user.create", "user.delete", "user.fix_ownership", "ssl.get_expiry",
                   "phpfpm.reload"} \cup CagefsActions \cup NftActions \cup CertbotActions
<1>1. \/ Commands(a) = <<>>
      \/ \E b \in Binaries : Commands(a) = <<b>>
      \/ \E b, c \in Binaries : Commands(a) = <<b, c>>
    <2>1. CASE a \in two
        BY <2>1, BinaryAssumption DEF Commands
    <2>2. CASE a \in one
        BY <2>2, BinaryAssumption DEF Commands, CagefsActions, NftActions, CertbotActions
    <2>3. CASE a \notin two \cup one
        BY <2>3 DEF Commands
    <2> QED
        BY <2>1, <2>2, <2>3
<1> QED
    BY <1>1

LEMMA AtMostTwoSteps == Steps \subseteq 1..2
<1>1. Len(Commands(call.action)) \in 0..2
    BY CommandsShape
<1>2. ASSUME NEW n \in 0..2 PROVE 1..n \subseteq 1..2
    OBVIOUS
<1> QED
    BY <1>1, <1>2 DEF Steps

LEMMA Limits ==
    /\ HANDLER_TIMEOUT \in Nat \ {0} /\ HANDLER_TIMEOUT < MaxAge
    /\ REQUEST_TIMEOUT \in Nat \ {0} /\ REQUEST_TIMEOUT < MaxAge
    /\ READ_TIMEOUT \in Nat \ {0} /\ READ_TIMEOUT < MaxAge
    /\ MaxAge \in Nat
BY TimeoutAssumption

\* When the failure of a step is passed over, nothing that matters is left.
LEMMA ToleratedIsLast ==
    ASSUME NEW a, NEW k \in 1..Len(Commands(a)), Tolerated(a, k),
           NEW j \in 1..Len(Commands(a))
    PROVE  j < k \/ Tolerated(a, j)
<1>1. CASE a = "user.ensure_domain_user"
    BY <1>1 DEF Tolerated, Commands
<1>2. CASE a # "user.ensure_domain_user"
    BY <1>2 DEF Tolerated
<1> QED
    BY <1>1, <1>2

\* What GoOn leaves: a fresh process at step k, or a closed connection.
LEMMA GoOnOutcome ==
    ASSUME NEW k \in 1..3, GoOn(k)
    PROVE  /\ step' = k
           /\ \/ /\ srv' = "running" /\ reply' = reply
                 /\ k \in Steps
                 /\ command' \subseteq Process /\ AtMostOne(command')
              \/ /\ srv' = "closed" /\ command' = {}
                 /\ reply' \in {"ok", "internal error"}
                 /\ reply' = "ok" =>
                        k \notin Steps \/ (k \in Steps /\ Tolerated(call.action, k))
<1> DEFINE cmds == Commands(call.action)
<1>0. Len(cmds) \in 0..2 /\ \A j \in 1..Len(cmds) : cmds[j] \in Binaries
    BY CommandsShape
<1> HIDE DEF cmds
<1>s. Steps = 1..Len(cmds)
    BY DEF Steps, cmds
<1>1. CASE k <= Len(cmds) /\ Spawn(cmds[k]) /\ step' = k /\ srv' = "running" /\ UNCHANGED reply
    <2>1. cmds[k] \in Binaries /\ k \in Steps
        BY <1>0, <1>s, <1>1
    <2> QED
        BY <1>1, <2>1, TimeoutAssumption DEF Spawn, Process, AtMostOne
<1>2. CASE k <= Len(cmds) /\ Fail(k, "internal error")
    BY <1>0, <1>s, <1>2 DEF Fail, Close
<1>3. CASE /\ k > Len(cmds)
           /\ Close("ok")
           /\ step' = k
           /\ command' = {}
    <2>0. k > Len(cmds) /\ step' = k /\ command' = {}
        BY <1>3
    <2>1. k \notin Steps
        BY <1>0, <1>s, <2>0
    <2>2. srv' = "closed" /\ reply' \in {"ok", "internal error"}
        BY <1>3 DEF Close
    <2> QED
        BY <2>0, <2>1, <2>2
<1>4. CASE Close("internal error") /\ step' = k /\ command' = {}
    BY <1>4 DEF Close
<1> QED
    BY <1>1, <1>2, <1>3, <1>4 DEF GoOn, cmds

-----------------------------------------------------------------------------
LEMMA InitInv == Init => IInv
<1> SUFFICES ASSUME Init PROVE IInv
    OBVIOUS
<1> QED
    BY TimeoutAssumption
    DEF Init, IInv, TypeOK, Control, Progress, Clocks, Running, Ended, AtMostOne

\* The handler's next step is due, with succeeded' as the steps done so far.
LEMMA GoOnInv ==
    ASSUME IInv, NEW k \in 1..3, GoOn(k), UNCHANGED <<up, client, orphans>>,
           srv \in {"reading", "running"},
           succeeded' \subseteq 1..2, DoneBefore(k)',
           srvClock' \in 0..HANDLER_TIMEOUT,
           cli \in {"waiting", "late"}, cli = "waiting" => cliClock = srvClock'
    PROVE  IInv'
<1> USE DEF client
<1>0. Steps' = Steps /\ call' = call
    BY DEF Steps
<1>1. Steps \subseteq 1..2
    BY AtMostTwoSteps
<1>o. \/ /\ Running' /\ reply' = reply /\ k \in Steps
         /\ command' \subseteq Process /\ AtMostOne(command')
      \/ /\ srv' = "closed" /\ command' = {} /\ reply' \in {"ok", "internal error"}
         /\ reply' = "ok" => k \notin Steps \/ (k \in Steps /\ Tolerated(call.action, k))
    BY GoOnOutcome DEF Running
<1>k. step' = k
    BY GoOnOutcome
<1>c. srvClock' \in 0..MaxAge /\ srvClock' <= HANDLER_TIMEOUT
    BY Limits
<1>t. TypeOK /\ Control /\ Clocks
    BY DEF IInv
<1>2. TypeOK'
    <2>1. /\ srv' \in {"running", "closed"}
          /\ reply' = reply \/ reply' \in {"ok", "internal error"}
        BY <1>o DEF Running
    <2>k. step' \in 0..3
        BY <1>k
    <2>2. command' \subseteq Process /\ AtMostOne(command')
        BY <1>o DEF AtMostOne
    <2>3. UNCHANGED <<up, call, cli, cliClock, orphans>>
        OBVIOUS
    <2> QED
        BY <1>c, <1>t, <2>1, <2>k, <2>2, <2>3 DEF TypeOK, AtMostOne
<1>3. Control'
    BY <1>o DEF IInv, TypeOK, Control, Running
<1>4. Progress'
    <2>1. ASSUME reply' = "ok", NEW j \in Steps
          PROVE  j \in succeeded' \/ Tolerated(call.action, j)
        <3>1. \/ k \notin Steps
              \/ k \in Steps /\ Tolerated(call.action, k)
            BY <1>o, <2>1 DEF IInv, Control, Running
        <3>2. CASE k \notin Steps
            <4>1. Len(Commands(call.action)) \in 0..2
                BY CommandsShape
            <4>2. j < k
                BY <3>2, <4>1 DEF Steps
            <4> QED
                BY <4>2, <1>0 DEF DoneBefore
        <3>3. CASE k \in Steps /\ Tolerated(call.action, k)
            <4>1. j < k \/ Tolerated(call.action, j)
                BY <3>3, ToleratedIsLast DEF Steps
            <4> QED
                BY <4>1, <1>0 DEF DoneBefore
        <3> QED
            BY <3>1, <3>2, <3>3
    <2> QED
        BY <2>1, <1>0, <1>o, <1>k DEF Progress, Running, DoneBefore
<1>5. Clocks'
    BY <1>c, <1>o DEF Clocks, Running
<1> QED
    BY <1>2, <1>3, <1>4, <1>5 DEF IInv

\* The command of the current step has failed.
LEMMA FailInv ==
    ASSUME IInv, Running, NEW m \in {"internal error", "timed out"}, Fail(step, m),
           UNCHANGED <<up, client, srvClock, orphans, succeeded>>
    PROVE  IInv'
<1> USE DEF client, Fail, Close
<1>0. Steps' = Steps /\ call' = call
    BY DEF Steps
<1>1. Steps \subseteq 1..2
    BY AtMostTwoSteps
<1>2. TypeOK'
    BY DEF IInv, TypeOK, AtMostOne
<1>3. Control'
    BY DEF IInv, TypeOK, Control, Running
<1>4. Progress'
    <2>1. ASSUME reply' = "ok", NEW j \in Steps
          PROVE  j \in succeeded \/ Tolerated(call.action, j)
        <3>1. step \in Steps /\ Tolerated(call.action, step) /\ DoneBefore(step)
            BY <2>1 DEF IInv, Progress
        <3>2. j < step \/ Tolerated(call.action, j)
            BY <3>1, ToleratedIsLast DEF Steps
        <3> QED
            BY <3>1, <3>2 DEF DoneBefore
    <2> QED
        BY <2>1, <1>0 DEF Progress, Running
<1>5. Clocks'
    BY DEF IInv, Clocks, Running
<1> QED
    BY <1>2, <1>3, <1>4, <1>5 DEF IInv

\* handle_client refuses the request, or gives up reading it.
LEMMA RefuseInv ==
    ASSUME IInv, srv = "reading",
           NEW m \in {"request timed out", "not permitted", "missing key"}, Refuse(m),
           UNCHANGED <<up, client>>
    PROVE  IInv'
<1> USE DEF Refuse, Close, client, IInv
<1>1. Steps' = Steps /\ call' = call
    BY DEF Steps
<1>2. TypeOK'
    BY DEF TypeOK, AtMostOne
<1>3. Control'
    BY DEF TypeOK, Control
<1>4. Progress'
    BY <1>1 DEF Progress, Running
<1>5. Clocks'
    BY DEF Clocks, Running
<1> QED
    BY <1>2, <1>3, <1>4, <1>5

LEMMA ReceiveInv ==
    ASSUME IInv, Receive
    PROVE  IInv'
<1>1. srv = "reading" /\ cli = "waiting" /\ UNCHANGED <<up, client>> /\ cliClock = 0
    BY DEF Receive, IInv, Clocks
<1>2. CASE Refuse("not permitted") \/ Refuse("missing key")
    BY <1>1, <1>2, RefuseInv
<1>3. CASE /\ GoOn(1) \/ (call.action = "ssl.get_expiry" /\ GoOn(2))
           /\ srvClock' = 0
           /\ UNCHANGED <<orphans, succeeded>>
    <2>1. /\ UNCHANGED <<up, client, orphans>> /\ srvClock' \in 0..HANDLER_TIMEOUT
          /\ cliClock = srvClock'
        BY <1>1, <1>3, Limits
    <2>2. succeeded' \subseteq 1..2
        BY <1>3 DEF IInv, TypeOK
    <2>3. CASE GoOn(1)
        <3>1. DoneBefore(1)'
            BY DEF DoneBefore, Steps
        <3> QED
            BY <1>1, <2>1, <2>2, <2>3, <3>1, GoOnInv
    <2>4. CASE call.action = "ssl.get_expiry" /\ GoOn(2)
        <3>1. DoneBefore(2)'
            BY <1>1, <2>4 DEF DoneBefore, Tolerated, client
        <3> QED
            BY <1>1, <2>1, <2>2, <2>4, <3>1, GoOnInv
    <2> QED
        BY <1>3, <2>3, <2>4
<1> QED
    BY <1>2, <1>3 DEF Receive

LEMMA CommandExitsInv ==
    ASSUME IInv, NEW p \in command, NEW ok \in BOOLEAN, CommandExits(p, ok)
    PROVE  IInv'
<1>1. Running /\ UNCHANGED <<up, client, srvClock, orphans>>
    BY DEF CommandExits, IInv, Control, Running
<1>2. CASE ok
    <2>1. GoOn(step + 1) /\ succeeded' = succeeded \cup {step}
        BY <1>2 DEF CommandExits
    <2>2. step \in Steps /\ step \in 1..2 /\ DoneBefore(step)
        BY <1>1, AtMostTwoSteps DEF IInv, Progress
    <2>3. Steps' = Steps /\ call' = call
        BY <1>1 DEF Steps, client
    <2>4. PICK k \in 1..3 : k = step + 1
        BY <2>2
    <2>5. DoneBefore(k)'
        <3> SUFFICES ASSUME NEW j \in Steps, j < k
                     PROVE  j \in succeeded' \/ Tolerated(call.action, j)
            BY <2>3 DEF DoneBefore
        <3>1. CASE j = step
            BY <2>1, <3>1
        <3>2. CASE j < step
            BY <2>1, <2>2, <3>2 DEF DoneBefore
        <3>3. j = step \/ j < step
            BY <2>2, <2>4, AtMostTwoSteps
        <3> QED
            BY <3>1, <3>2, <3>3
    <2>6. succeeded' \subseteq 1..2
        BY <2>1, <2>2 DEF IInv, TypeOK
    <2>7. /\ srvClock' \in 0..HANDLER_TIMEOUT /\ cli \in {"waiting", "late"}
          /\ cli = "waiting" => cliClock = srvClock'
        <3>1. srvClock \in 0..MaxAge /\ srvClock <= HANDLER_TIMEOUT
            BY <1>1 DEF IInv, TypeOK, Clocks
        <3>2. srvClock \in 0..HANDLER_TIMEOUT
            BY <3>1, Limits
        <3> QED
            BY <1>1, <3>2 DEF IInv, Clocks, client
    <2> QED
        BY <1>1, <2>1, <2>4, <2>5, <2>6, <2>7, GoOnInv DEF Running
<1>3. CASE ~ok
    BY <1>1, <1>3, FailInv DEF CommandExits
<1> QED
    BY <1>2, <1>3

\* A signal is sent to the process the handler awaits.
LEMMA SignalInv ==
    ASSUME IInv, NEW p \in command, CommandTimesOut(p) \/ Sigkill(p)
    PROVE  IInv'
<1> USE DEF CommandTimesOut, Sigkill, client, IInv
<1>1. PICK s \in {"term", "kill"} : command' = {[p EXCEPT !.kill = s]}
    OBVIOUS
<1>2. UNCHANGED <<up, client, srv, srvClock, reply, step, orphans, succeeded>>
    OBVIOUS
<1>3. TypeOK'
    <2>1. [p EXCEPT !.kill = s] \in Process
        BY DEF TypeOK, Process
    <2> QED
        BY <1>1, <1>2, <2>1, ZenonT(40) DEF TypeOK, AtMostOne
<1>4. Control'
    BY <1>1, <1>2 DEF Control
<1>5. Progress'
    BY <1>2 DEF Progress, DoneBefore, Steps, Running
<1>6. Clocks'
    BY <1>2 DEF Clocks, Running
<1> QED
    BY <1>3, <1>4, <1>5, <1>6

LEMMA HandlerTimeoutInv ==
    ASSUME IInv, HandlerTimeout
    PROVE  IInv'
<1> USE DEF HandlerTimeout, HandlerDue, Running, Close, client, IInv
<1>1. orphans = {} /\ orphans' = command
    BY DEF Control
<1>2. TypeOK'
    BY <1>1 DEF TypeOK, AtMostOne
<1>3. Control'
    BY <1>1 DEF TypeOK, Control
<1>4. Progress'
    BY DEF Progress
<1>5. Clocks'
    BY DEF Clocks
<1> QED
    BY <1>2, <1>3, <1>4, <1>5

LEMMA OrphanExitsInv ==
    ASSUME IInv, NEW p \in orphans, OrphanExits(p)
    PROVE  IInv'
<1> USE DEF OrphanExits, client, IInv
<1>1. TypeOK'
    BY DEF TypeOK, AtMostOne
<1>2. Control'
    BY DEF Control
<1>3. Progress'
    BY DEF Progress, DoneBefore, Steps, Running
<1>4. Clocks'
    BY DEF Clocks, Running
<1> QED
    BY <1>1, <1>2, <1>3, <1>4

LEMMA AgentInv ==
    ASSUME IInv, AgentDies \/ AgentStarts
    PROVE  IInv'
<1> USE DEF AgentDies, AgentStarts, agent, client, IInv
<1>1. TypeOK'
    BY DEF TypeOK, AtMostOne
<1>2. Control'
    BY DEF TypeOK, Control
<1>3. Progress'
    BY DEF TypeOK, Progress, DoneBefore, Steps, Running
<1>4. Clocks'
    BY DEF Clocks, Running
<1> QED
    BY <1>1, <1>2, <1>3, <1>4

-----------------------------------------------------------------------------
LEMMA ConnectInv ==
    ASSUME IInv, NEW c \in Calls, Connect(c) \/ ConnectFails(c)
    PROVE  IInv'
<1> USE DEF Connect, ConnectFails, Close, agent, IInv
<1>1. srv = "idle" /\ reply = "nothing" /\ orphans = {} /\ command = {} /\ cliClock = 0
    BY DEF Control, Clocks
<1>2. TypeOK'
    BY <1>1 DEF TypeOK, AtMostOne, Ended
<1>3. Control'
    BY <1>1 DEF Control
<1>4. Progress'
    BY <1>1 DEF Progress, Running
<1>5. Clocks'
    BY <1>1 DEF Clocks, Running
<1> QED
    BY <1>2, <1>3, <1>4, <1>5

\* The client's own steps change nothing of the agent's.
LEMMA ClientInv ==
    ASSUME IInv, Send \/ Read \/ GiveUp
    PROVE  IInv'
<1> USE DEF Send, Read, GiveUp, ReadDue, agent, IInv
<1>1. UNCHANGED <<up, call, cliClock, agent>>
    OBVIOUS
<1>2. cli' \in Ended \cup {"waiting"}
    BY DEF Ended
<1>3. TypeOK'
    BY <1>1, <1>2 DEF TypeOK, AtMostOne
<1>4. Control'
    BY <1>1 DEF Control
<1>5. Progress'
    BY <1>1 DEF Progress, DoneBefore, Steps, Running
<1>6. Clocks'
    BY Limits DEF Clocks, Running
<1> QED
    BY <1>3, <1>4, <1>5, <1>6

LEMMA NextCallInv ==
    ASSUME IInv, NextCall
    PROVE  IInv'
<1> USE DEF NextCall, Fresh, IInv
<1>1. command = {} /\ orphans = {}
    BY DEF Control
<1>2. TypeOK'
    <2>1. cliClock' \in 0..READ_TIMEOUT /\ srvClock' \in 0..MaxAge /\ step' \in 0..3
        BY Limits
    <2>2. /\ UNCHANGED <<up, command, orphans>> /\ call' = NoCall /\ cli' = "idle"
          /\ srv' = "idle" /\ reply' = "nothing" /\ succeeded' = {}
        OBVIOUS
    <2> QED
        BY <1>1, <2>1, <2>2 DEF TypeOK, AtMostOne
<1>3. Control'
    BY <1>1 DEF Control
<1>4. Progress'
    BY DEF Progress, Running
<1>5. Clocks'
    BY DEF Clocks, Running
<1> QED
    BY <1>2, <1>3, <1>4, <1>5

-----------------------------------------------------------------------------
LEMMA OlderProcess ==
    ASSUME NEW S, S \subseteq Process, AtMostOne(S)
    PROVE  {Older(p) : p \in S} \subseteq Process /\ AtMostOne({Older(p) : p \in S})
<1>1. ASSUME NEW p \in S PROVE Older(p) \in Process
    <2>1. p \in Process /\ p.age \in 0..MaxAge
        BY DEF Process
    <2>2. Later(p.age) \in 0..MaxAge
        BY <2>1, Limits DEF Later
    <2> QED
        BY <2>1, <2>2 DEF Older, Process
<1> QED
    BY <1>1 DEF AtMostOne

LEMMA TickInv ==
    ASSUME IInv, Tick
    PROVE  IInv'
<1> USE DEF IInv
<1>1. /\ UNCHANGED <<up, call, cli, srv, reply, step, succeeded>>
      /\ cliClock' = IF cli = "waiting" THEN Later(cliClock) ELSE cliClock
      /\ srvClock' = IF srv \in {"reading", "running"} THEN Later(srvClock) ELSE srvClock
      /\ command' = {Older(p) : p \in command}
      /\ orphans' = {Older(p) : p \in orphans}
    BY DEF Tick
<1>2. /\ srv = "running" => srvClock # HANDLER_TIMEOUT
      /\ cli = "waiting" => cliClock # READ_TIMEOUT
      /\ ~(srv = "reading" /\ cli = "waiting")
    BY DEF Tick, Due, HandlerDue, ReadDue, Running
<1>3. srvClock' \in 0..MaxAge /\ cliClock' \in 0..READ_TIMEOUT
    <2>1. ASSUME NEW n \in 0..MaxAge
          PROVE  /\ Later(n) \in 0..MaxAge
                 /\ \A l \in Nat : l < MaxAge /\ n <= l /\ n # l => Later(n) <= l
        BY Limits DEF Later
    <2>2. srvClock \in 0..MaxAge /\ cliClock \in 0..MaxAge /\ cliClock <= READ_TIMEOUT
        <3>1. srvClock \in 0..MaxAge /\ cliClock \in 0..READ_TIMEOUT
            BY DEF TypeOK
        <3> QED
            BY <3>1, Limits
    <2>3. srvClock' \in 0..MaxAge
        BY <1>1, <2>1, <2>2
    <2>4. CASE cli = "waiting"
        <3>1. cliClock' = Later(cliClock) /\ cliClock # READ_TIMEOUT
            BY <1>1, <1>2, <2>4
        <3> QED
            BY <2>1, <2>2, <2>3, <3>1, Limits
    <2>5. CASE cli # "waiting"
        BY <1>1, <2>3, <2>5 DEF TypeOK
    <2> QED
        BY <2>4, <2>5
<1>4. /\ command' \subseteq Process /\ AtMostOne(command')
      /\ orphans' \subseteq Process /\ AtMostOne(orphans')
    BY <1>1, OlderProcess DEF TypeOK
<1>5. TypeOK'
    BY <1>1, <1>3, <1>4 DEF TypeOK, AtMostOne
<1>6. Control'
    BY <1>1 DEF Control
<1>7. Progress'
    BY <1>1 DEF Progress, DoneBefore, Steps, Running
<1>8. Clocks'
    <2>1. cli' \in {"idle", "connected"} => cliClock' = 0
        BY <1>1 DEF Clocks
    <2>2. ~(srv' = "reading" /\ cli' = "waiting")
        BY <1>1, <1>2
    <2>3. CASE Running
        <3>1. srvClock \in 0..MaxAge /\ srvClock <= HANDLER_TIMEOUT /\ srvClock # HANDLER_TIMEOUT
            BY <1>2, <2>3 DEF TypeOK, Clocks, Running
        <3>2. Later(srvClock) <= HANDLER_TIMEOUT
            BY <3>1, Limits DEF Later
        <3>3. srvClock' = Later(srvClock)
            BY <1>1, <2>3 DEF Running
        <3> QED
            BY <1>1, <2>1, <2>2, <2>3, <3>2, <3>3 DEF Clocks, Running
    <2>4. CASE ~Running
        BY <1>1, <2>1, <2>2, <2>4 DEF Clocks, Running
    <2> QED
        BY <2>3, <2>4
<1> QED
    BY <1>5, <1>6, <1>7, <1>8

-----------------------------------------------------------------------------
LEMMA StepInv == IInv /\ [Next]_vars => IInv'
<1> SUFFICES ASSUME IInv, [Next]_vars
             PROVE  IInv'
    OBVIOUS
<1>1. CASE Send \/ Read \/ GiveUp
    BY <1>1, ClientInv
<1>2. CASE Receive
    BY <1>2, ReceiveInv
<1>3. CASE ReadTimeout
    BY <1>3, RefuseInv DEF ReadTimeout, RequestDue
<1>4. CASE HandlerTimeout
    BY <1>4, HandlerTimeoutInv
<1>5. CASE \E p \in command : CommandTimesOut(p) \/ Sigkill(p)
    BY <1>5, SignalInv
<1>6. CASE Tick
    BY <1>6, TickInv
<1>7. CASE NextCall
    BY <1>7, NextCallInv
<1>8. CASE AgentDies \/ AgentStarts
    BY <1>8, AgentInv
<1>9. CASE \E c \in Calls : Connect(c) \/ ConnectFails(c)
    BY <1>9, ConnectInv
<1>10. CASE \E p \in command : KilledExits(p)
    <2>1. PICK p \in command : KilledExits(p)
        BY <1>10
    <2>2. Running
        BY DEF IInv, Control, Running
    <2>3. PICK m \in {"internal error", "timed out"} : Fail(step, m)
        BY <2>1 DEF KilledExits
    <2> QED
        BY <2>1, <2>2, <2>3, FailInv DEF KilledExits
<1>11. CASE \E p \in command, ok \in BOOLEAN : CommandExits(p, ok)
    BY <1>11, CommandExitsInv
<1>12. CASE \E p \in orphans : OrphanExits(p)
    BY <1>12, OrphanExitsInv
<1>13. CASE UNCHANGED vars
    BY <1>13, ZenonT(40)
    DEF vars, agent, client, IInv, TypeOK, AtMostOne, Control, Progress, Clocks, Running, Steps,
        DoneBefore
<1> QED
    BY <1>1, <1>2, <1>3, <1>4, <1>5, <1>6, <1>7, <1>8, <1>9, <1>10, <1>11, <1>12, <1>13
    DEF Next, Loops

LEMMA Inductive == Spec => []IInv
BY InitInv, StepInv, PTL DEF Spec

-----------------------------------------------------------------------------
\* run_command awaits at most one process at a time, and at most one is left
\* behind on a connection.
THEOREM SpecTypeOK == Spec => []TypeOK
BY Inductive, PTL DEF IInv

\* AgentClient.call returns a result only when every command of the handler
\* has ended well, or is one whose failure the handler passes over, and none
\* of them is running any more.
THEOREM SpecOkMeansDone == Spec => []OkMeansDone
<1>1. IInv => OkMeansDone
    <2> SUFFICES ASSUME IInv, cli = "ok"
                 PROVE  /\ command = {} /\ orphans = {}
                        /\ \A k \in Steps : k \in succeeded \/ Tolerated(call.action, k)
        BY DEF OkMeansDone, Steps
    <2>1. reply = "ok"
        BY DEF IInv, Control
    <2>2. srv = "closed"
        BY <2>1 DEF IInv, Control
    <2> QED
        BY <2>1, <2>2 DEF IInv, Control, Progress
<1> QED
    BY <1>1, Inductive, PTL

\* Only wait_for's HANDLER_TIMEOUT leaves a process that nobody awaits, and
\* its caller has not been told that the call succeeded.
THEOREM SpecUnattendedAfterTimeout == Spec => []UnattendedAfterTimeout
<1>1. IInv => UnattendedAfterTimeout
    BY DEF IInv, Control, UnattendedAfterTimeout
<1> QED
    BY <1>1, Inductive, PTL

LEMMA LateStep ==
    ASSUME READ_TIMEOUT >= HANDLER_TIMEOUT, IInv, LateMeansOver, [Next]_vars
    PROVE  LateMeansOver'
<1> SUFFICES ASSUME cli' = "late", Running'
             PROVE  srvClock' = HANDLER_TIMEOUT
    BY DEF LateMeansOver, Running
<1>1. CASE cli = "late" /\ Running /\ UNCHANGED srvClock
    BY <1>1 DEF LateMeansOver, Running
<1>2. CASE GiveUp
    <2>1. Running /\ cli = "waiting" /\ cliClock = READ_TIMEOUT /\ srvClock' = srvClock
        BY <1>2 DEF GiveUp, ReadDue, agent, Running
    <2>2. srvClock <= HANDLER_TIMEOUT /\ cliClock = srvClock
        BY <2>1 DEF IInv, Clocks
    <2> QED
        BY <2>1, <2>2, Limits
<1>3. GiveUp \/ (cli = "late" /\ Running /\ UNCHANGED srvClock)
    <2>1. CASE Send \/ Read
        BY <2>1 DEF Send, Read
    <2>2. CASE Receive \/ ReadTimeout \/ HandlerTimeout
        BY <2>2 DEF Receive, ReadTimeout, HandlerTimeout, Refuse, Close, client, Running
    <2>3. CASE \E p \in command : CommandTimesOut(p) \/ Sigkill(p)
        BY <2>3 DEF CommandTimesOut, Sigkill, client, Running
    <2>4. CASE Tick
        BY <2>4 DEF Tick, Due, HandlerDue, LateMeansOver, Running
    <2>5. CASE NextCall
        BY <2>5 DEF NextCall, Fresh
    <2>6. CASE AgentDies \/ AgentStarts
        BY <2>6 DEF AgentDies, AgentStarts, client, agent, Running
    <2>7. CASE \E c \in Calls : Connect(c) \/ ConnectFails(c)
        BY <2>7 DEF Connect, ConnectFails
    <2>8. CASE \E p \in command : KilledExits(p) \/ \E ok \in BOOLEAN : CommandExits(p, ok)
        BY <2>8 DEF KilledExits, CommandExits, client, IInv, Control, Running
    <2>9. CASE \E p \in orphans : OrphanExits(p)
        BY <2>9 DEF OrphanExits, client, Running
    <2>10. CASE UNCHANGED vars
        BY <2>10 DEF vars, agent, client, Running
    <2> QED
        BY <2>1, <2>2, <2>3, <2>4, <2>5, <2>6, <2>7, <2>8, <2>9, <2>10 DEF Next, Loops
<1> QED
    BY <1>1, <1>2, <1>3

\* Where READ_TIMEOUT is not below HANDLER_TIMEOUT, as in the two files that
\* set them, a client that has given up on a reply leaves a handler behind
\* only at the instant of the handler's own limit.
THEOREM SpecLateMeansOver ==
    ASSUME READ_TIMEOUT >= HANDLER_TIMEOUT
    PROVE  Spec => []LateMeansOver
<1>1. Init => LateMeansOver
    BY DEF Init, LateMeansOver
<1>2. IInv /\ LateMeansOver /\ [Next]_vars => LateMeansOver'
    BY LateStep
<1> QED
    BY <1>1, <1>2, Inductive, PTL DEF Spec

=============================================================================
