-------------------------------- MODULE Managed --------------------------------
(***************************************************************************)
(* The agent that the relay runs for one profile (server/managed.py), and   *)
(* the calls that start it, stop it and change the credential it runs with  *)
(* (server/api/credentials.py).                                             *)
(*                                                                         *)
(* Every call is a task of the relay's event loop: it goes on without       *)
(* interruption up to the next await, and the calls of several tabs of one  *)
(* person overlap.  The agent's process is the operating system's: it ends  *)
(* when it likes, closes its output when it likes, and obeys a first signal *)
(* if it likes.  Profiles share nothing, so one is modelled.                *)
(*                                                                         *)
(* A call is made once.  The token it issues, the agent it launches and the *)
(* secret it deposits bear its name.  The credential can be deciphered, and *)
(* the relay runs agents; the two refusals change nothing.                  *)
(***************************************************************************)
EXTENDS Naturals

CONSTANTS Calls,          \* calls of the API by this profile
          Nothing,        \* no agent, no secret
          FirstSecret     \* a secret deposited before

ASSUME ManagedAssumption == Nothing \notin Calls /\ FirstSecret \notin Calls \cup {Nothing}

VARIABLES
  credential,  \* the deposited secret
  registered,  \* the agent the relay knows
  token,       \* of each agent: "none", "active", "revoked"
  secret,      \* what it was launched with
  process,     \* "none", "starting", "running", "ended", "failed"
  signal,      \* what was sent to it: "none", "term", "kill"
  pump,        \* the task that reads its output: "none", "fresh" (scheduled),
               \* "reading", "waiting" (for the end of the process), "done"
  error,       \* the interface says why it is not there
  at,          \* of each call: "ready", "create", "pump", "term", "kill", "returned"
  target,      \* the agent it stops
  next,        \* what it does after: "return", "close", "lancer", "issue"
  astray,      \* history: the tokens that no stop will find
  dropped      \* history: agents forgotten while their process was being created

agentVars == <<secret, process, signal, pump, error>>
callVars == <<at, target, next>>
managedVars == <<credential, registered, token, agentVars, callVars, astray, dropped>>

ManagedTypeOK ==
  /\ credential \in Calls \cup {FirstSecret, Nothing}
  /\ registered \in Calls \cup {Nothing}
  /\ token \in [Calls -> {"none", "active", "revoked"}]
  /\ secret \in [Calls -> Calls \cup {FirstSecret, Nothing}]
  /\ process \in [Calls -> {"none", "starting", "running", "ended", "failed"}]
  /\ signal \in [Calls -> {"none", "term", "kill"}]
  /\ pump \in [Calls -> {"none", "fresh", "reading", "waiting", "done"}]
  /\ error \in [Calls -> BOOLEAN]
  /\ at \in [Calls -> {"ready", "create", "pump", "term", "kill", "returned"}]
  /\ target \in [Calls -> Calls \cup {Nothing}]
  /\ next \in [Calls -> {"return", "close", "lancer", "issue"}]
  /\ astray \subseteq Calls /\ dropped \subseteq Calls

ManagedInit ==
  /\ credential \in {FirstSecret, Nothing}
  /\ registered = Nothing
  /\ token = [c \in Calls |-> "none"] /\ secret = [c \in Calls |-> Nothing]
  /\ process = [c \in Calls |-> "none"] /\ signal = [c \in Calls |-> "none"]
  /\ pump = [c \in Calls |-> "none"] /\ error = [c \in Calls |-> FALSE]
  /\ at = [c \in Calls |-> "ready"] /\ target = [c \in Calls |-> Nothing]
  /\ next = [c \in Calls |-> "return"]
  /\ astray = {} /\ dropped = {}

\* A process that has not ended: Managed.running, of an agent.
Running(a) == a # Nothing /\ process[a] = "running"

InProgress(c) == at[c] \notin {"ready", "returned"}

\* A new call is served until the relay closes.
Begins(c) == at[c] = "ready" /\ \A d \in Calls : next[d] # "close"

-----------------------------------------------------------------------------
(* What the calls are made of.  Each leaves a call at an await, or returned. *)

Return(c) == at' = [at EXCEPT ![c] = "returned"] /\ UNCHANGED <<target, next>>

Suspend(c, where, a, then) ==
  /\ at' = [at EXCEPT ![c] = where]
  /\ target' = [target EXCEPT ![c] = a]
  /\ next' = [next EXCEPT ![c] = then]

\* _revoke.
Without(tokens, a) == IF a = Nothing THEN tokens ELSE [tokens EXCEPT ![a] = "revoked"]

\* An agent leaves the registry: its process may still be being created.
Forgets(a) ==
  dropped' = IF a # Nothing /\ process[a] = "starting" THEN dropped \cup {a} ELSE dropped

\* Nothing of this agent has to be awaited for its stop.
Gone(a) == a = Nothing \/ (pump[a] \in {"none", "done"} /\ ~Running(a))

\* Faulty variant: the process is launched whatever is registered.
OverwritesIt(reg) == FALSE

\* ManagedAgents.start returns the agent that runs.
IsServedBy(reg) == Running(reg)

\* _lancer from the reading of the credential: a token is issued, and
\* ManagedAgents.start returns the agent that runs, or fails to make the folders of a
\* new one: in both cases the token is nobody's.  Else it registers an agent, and
\* launches it, or fails to write its file (an OSError revokes nothing: _lancer catches
\* ManagedError).  reg and tokens are what it finds: after a stop that was awaited, the
\* agent of another call, which it replaces.
Issue(c, reg, tokens) ==
  IF credential = Nothing
    THEN /\ registered' = reg /\ token' = tokens
         /\ Return(c)
         /\ UNCHANGED <<agentVars, astray>>
    ELSE /\ token' = [tokens EXCEPT ![c] = "active"]
         /\ \/ /\ registered' = reg
               /\ astray' = astray \cup {c}
               /\ Return(c)
               /\ UNCHANGED agentVars
            \/ /\ ~IsServedBy(reg)
               /\ registered' = c
               /\ secret' = [secret EXCEPT ![c] = credential]
               /\ astray' = astray \cup {a \in {reg} : a # Nothing /\ next[c] = "issue"}
               /\ UNCHANGED <<signal, pump, error>>
               /\ \/ /\ process' = [process EXCEPT ![c] = "starting"]
                     /\ Suspend(c, "create", Nothing, "return")
                  \/ UNCHANGED process /\ Return(c)

\* The cancellation of the pump: one that was not scheduled yet ends at once, one
\* that reads turns to the end of the process, and one that awaits it gives up.
Cancelled(state) == CASE state \in {"fresh", "waiting"} -> "done"
                      [] state = "reading"              -> "waiting"
                      [] OTHER                          -> state

\* _terminate, of an agent that has a task: the task is cancelled, and awaited.
\* An agent without a task has no process: see Gone.
Terminate(c, a, then) ==
  /\ pump' = [pump EXCEPT ![a] = Cancelled(@)]
  /\ Suspend(c, "pump", a, then)
  /\ UNCHANGED <<secret, process, signal, error>>

\* Faulty variant: the token of a dead agent is left to it.
NotDead == FALSE

\* The agent that is registered does not run.
Dead == registered # Nothing /\ ~Running(registered)

\* _lancer: a dead agent is stopped first, its token revoked.
Lancer(c) ==
  IF Dead
    THEN /\ Forgets(registered)
         /\ IF Gone(registered)
              THEN Issue(c, Nothing, Without(token, registered))
              ELSE /\ token' = Without(token, registered)
                   /\ registered' = Nothing
                   /\ Terminate(c, registered, "issue")
                   /\ UNCHANGED astray
    ELSE Issue(c, registered, token) /\ UNCHANGED dropped

\* _arreter: the token is revoked, the agent forgotten, then stopped.
Arreter(c, then) ==
  /\ token' = Without(token, registered)
  /\ registered' = Nothing
  /\ Forgets(registered)
  /\ IF Gone(registered) THEN Return(c) /\ UNCHANGED agentVars
                         ELSE Terminate(c, registered, then)
  /\ UNCHANGED astray

-----------------------------------------------------------------------------
(* The calls, up to their first await. *)

\* POST /agent/start.
Start(c) == Begins(c) /\ Lancer(c) /\ UNCHANGED credential

\* POST /agent/stop.
Stop(c) == Begins(c) /\ Arreter(c, "return") /\ UNCHANGED credential

\* Faulty variant: only an agent that runs is stopped.
StopWhatRuns(c) ==
  IF Running(registered) THEN Arreter(c, "lancer")
                         ELSE Return(c) /\ UNCHANGED <<registered, token, agentVars, astray, dropped>>

\* What a new secret does to the agent: stopped, and launched again if it ran.
Renew(c) == Arreter(c, IF Running(registered) THEN "lancer" ELSE "return")

\* PUT /credential.
Store(c) == Begins(c) /\ credential' = c /\ Renew(c)

\* DELETE /credential.
Forget(c) == Begins(c) /\ credential' = Nothing /\ Arreter(c, "return")

\* aclose, once the requests are served: the agent is stopped, not its token.
Close(c) ==
  /\ Begins(c) /\ \A d \in Calls : ~InProgress(d)
  /\ registered' = Nothing
  /\ astray' = astray \cup ({registered} \ {Nothing})
  /\ Forgets(registered)
  /\ IF Gone(registered)
       THEN /\ at' = [at EXCEPT ![c] = "returned"]
            /\ next' = [next EXCEPT ![c] = "close"]
            /\ UNCHANGED <<target, agentVars>>
       ELSE Terminate(c, registered, "close")
  /\ UNCHANGED <<credential, token>>

-----------------------------------------------------------------------------
(* The rest of a call. *)

\* What follows _terminate in the call.
GoesOn(c) ==
  /\ CASE next[c] = "lancer" -> Lancer(c)
       [] next[c] = "issue"  -> Issue(c, registered, token) /\ UNCHANGED dropped
       [] OTHER              -> Return(c) /\ UNCHANGED <<registered, token, agentVars, astray, dropped>>
  /\ UNCHANGED credential

\* create_subprocess_exec returns: the output has its task.
Created(c) ==
  /\ at[c] = "create"
  /\ process' = [process EXCEPT ![c] = "running"]
  /\ pump' = [pump EXCEPT ![c] = "fresh"]
  /\ Return(c)
  /\ UNCHANGED <<credential, registered, token, secret, signal, error, astray, dropped>>

\* Or it fails: the token is revoked, the agent stays registered with its error.
CreateFails(c) ==
  /\ at[c] = "create"
  /\ process' = [process EXCEPT ![c] = "none"]
  /\ error' = [error EXCEPT ![c] = TRUE]
  /\ token' = Without(token, c)
  /\ astray' = astray \ {c}
  /\ Return(c)
  /\ UNCHANGED <<credential, registered, secret, signal, pump, dropped>>

Signal(c, name, where) ==
  /\ signal' = [signal EXCEPT ![target[c]] = name]
  /\ at' = [at EXCEPT ![c] = where]
  /\ UNCHANGED <<credential, registered, token, secret, process, pump, error,
                 target, next, astray, dropped>>

\* The task of the output has ended; a process that is still there is asked to end.
PumpAwaited(c) ==
  /\ at[c] = "pump" /\ pump[target[c]] = "done"
  /\ IF Running(target[c]) THEN Signal(c, "term", "term") ELSE GoesOn(c)

\* The process has ended, of itself or killed.
ProcessAwaited(c) == at[c] \in {"term", "kill"} /\ ~Running(target[c]) /\ GoesOn(c)

\* Faulty variant: only the signal that can be refused is sent.
NoKill(c) == FALSE

\* Ten seconds have passed: the process is killed.
TermTimeout(c) == at[c] = "term" /\ Running(target[c]) /\ Signal(c, "kill", "kill")

-----------------------------------------------------------------------------
(* The process of an agent, and the task that reads its output (_drain). *)

OnlyPump(a) == UNCHANGED <<credential, registered, token, secret, process, signal, callVars,
                           astray, dropped>>

PumpStarts(a) ==
  /\ pump[a] = "fresh"
  /\ pump' = [pump EXCEPT ![a] = "reading"]
  /\ UNCHANGED error /\ OnlyPump(a)

\* The return code of the process is read, a failure told.
Concludes(a) ==
  /\ pump' = [pump EXCEPT ![a] = "done"]
  /\ error' = [error EXCEPT ![a] = @ \/ process[a] = "failed"]

\* Faulty variant: the code is read as soon as the output ends.
ConcludesAtOnce(a) == Concludes(a)

\* The end of the output is not the end of the process, which is awaited.
AfterOutput(a) ==
  IF Running(a) THEN pump' = [pump EXCEPT ![a] = "waiting"] /\ UNCHANGED error
                ELSE Concludes(a)

OutputEnds(a) == pump[a] = "reading" /\ AfterOutput(a) /\ OnlyPump(a)

PumpEnds(a) == pump[a] = "waiting" /\ ~Running(a) /\ Concludes(a) /\ OnlyPump(a)

\* The process ends, well or not.
Exits(a) ==
  /\ Running(a)
  /\ \E end \in {"ended", "failed"} : process' = [process EXCEPT ![a] = end]
  /\ UNCHANGED <<credential, registered, token, secret, signal, pump, error, callVars,
                 astray, dropped>>

-----------------------------------------------------------------------------

Advance(c) ==
  Created(c) \/ CreateFails(c) \/ PumpAwaited(c) \/ ProcessAwaited(c) \/ TermTimeout(c)

ByTheUser(c) == Start(c) \/ Stop(c) \/ Store(c) \/ Forget(c) \/ Close(c)

Drain(a) == PumpStarts(a) \/ PumpEnds(a)

ManagedNext ==
  \E c \in Calls : ByTheUser(c) \/ Advance(c) \/ Drain(c) \/ OutputEnds(c) \/ Exits(c)

\* The event loop runs what can run; a killed process ends; the output of a process
\* that has ended does.
ManagedFairness ==
  \A c \in Calls :
    /\ WF_managedVars(Advance(c))
    /\ WF_managedVars(Drain(c))
    /\ WF_managedVars(OutputEnds(c) /\ ~Running(c))
    /\ WF_managedVars(Exits(c) /\ signal[c] = "kill")

ManagedSpec == ManagedInit /\ [][ManagedNext]_managedVars /\ ManagedFairness

-----------------------------------------------------------------------------
(* Properties. *)

\* The agent the relay knows runs with the secret that is deposited now, and none
\* once it is forgotten: credentials.py:78-80, 122-123, through any overlap of calls.
RunsWithTheDeposit == registered # Nothing => secret[registered] = credential

\* A token that opens the relay is the one of the registered agent, or went astray:
\* issued to a call that found an agent running or could not make the folders of one
\* (managed.py:152-153, against credentials.py:134-136), to an agent replaced by a call
\* that was stopping its predecessor, or kept by the relay's own stop.  And an agent
\* that the relay shows as running can use its own (credentials.py:195-197).
TokensDieWithTheirAgent ==
  /\ \A c \in Calls : token[c] = "active" => c = registered \/ c \in astray
  /\ Running(registered) => token[registered] = "active"

\* A process that runs is registered, or is being stopped by a call, or was dropped
\* or replaced while it was being created (managed.py:92, one per profile at most).
NoProcessUnattended ==
  \A a \in Calls :
    Running(a) => \/ a = registered
                  \/ \E c \in Calls : InProgress(c) /\ target[c] = a
                  \/ a \in dropped \cup astray

\* The failure of the agent the relay knows is told in the end, unless it is
\* forgotten: managed.py:231-235.
FailureIsTold ==
  \A a \in Calls : process[a] = "failed" /\ registered = a ~> error[a] \/ registered # a

\* The call awaits the end of a process that nobody has asked to end.
Held(c) == at[c] = "pump" /\ pump[target[c]] = "waiting" /\ Running(target[c])

\* Every call returns, the process obeying or not, unless it is held.
CallsReturn == \A c \in Calls : InProgress(c) ~> at[c] = "returned" \/ Held(c)

\* The stop of an agent returns: managed.py:258-262, a blocked CLI must not keep the
\* relay from stopping.
StopReturns == \A c \in Calls : at[c] = "pump" ~> at[c] = "returned"

=============================================================================
