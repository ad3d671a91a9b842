------------------------------- MODULE Knock -------------------------------
(***************************************************************************)
(* The knock command (src/admin/handlers/knock.ts): firewall rules that an *)
(* admin command opens, a login narrows to one address, and a timeout or a *)
(* silent session closes.  Node runs one callback at a time; what          *)
(* interleaves are the calls to the root agent that the functions await.   *)
(* Its names differ from those of AdminCommands: AdminProofs extends both. *)
(***************************************************************************)
EXTENDS Integers, Bags

CONSTANTS
  Knocks,       \* transactions that carry a knock command
  Ports,        \* the ports they open
  Sources,      \* source filters a command may ask for, one of them for none
  Ips,          \* addresses somebody may log in from
  None,
  MaxTasks,     \* bound: async functions of this module under way
  MaxSessions,  \* bound: logins and heartbeats of sessions
  MaxFailures,  \* bound: calls the root agent does not answer well, or at all
  MaxRestarts   \* bound: restarts of the monitor

ASSUME KnockAssumption ==
  /\ None \notin Sources \cup Ips
  /\ MaxTasks \in Nat \ {0}
  /\ {MaxSessions, MaxFailures, MaxRestarts} \subseteq Nat

VARIABLES
  sent,       \* commands dispatched
  knocks,     \* activeKnocks: tx hash -> knock
  tasks,      \* the bag of functions awaiting the root agent
  stuck,      \* <<loop, tx>>: functions whose call is never going to return
  rules,      \* the root agent's rules: <<port, source>>
  file,       \* /run/blockhost/knock.active, or None
  stopping,   \* shutdown has begun
  sessions, failures, restarts

VARIABLE raced   \* history: knocks closed or narrowed during a transition

knockVars == <<sent, knocks, tasks, stuck, rules, file, stopping, sessions,
               failures, restarts, raced>>

-----------------------------------------------------------------------------
ActiveKnock ==
  [source      : Sources,
   loginSource : Ips \cup {None},
   timer       : BOOLEAN,     \* timeoutId is armed
   polling     : BOOLEAN,     \* heartbeatInterval is set
   tailing     : BOOLEAN]     \* tailProcess runs

ActiveFile == [ip : Ips, stale : BOOLEAN]

(***************************************************************************)
(* A task is a loop over the ports with one call per port: "open" and      *)
(* "undo" belong to executeKnock, "narrow" and "reopen" are the two loops  *)
(* of transitionToPostLogin, "close" is the loop of closeKnock, called     *)
(* "shutdown" when closeAllKnocks awaits it.                               *)
(***************************************************************************)
Loops == {"open", "undo", "narrow", "reopen", "close", "shutdown"}

Task == [loop   : Loops,
         tx     : Knocks,
         source : Sources \cup Ips,
         ip     : Ips \cup {None},
         left   : SUBSET Ports]

Loop(name, k, source, ip) ==
  [loop |-> name, tx |-> k, source |-> source, ip |-> ip, left |-> Ports]

InFlight == BagToSet(tasks)

Add(t)          == tasks (+) SetToBag({t})
Replace(t, new) == (tasks (-) SetToBag({t})) (+) SetToBag(new)

RoomForTask == BagCardinality(tasks) < MaxTasks

\* A caller that awaits one function of a kind after the other is busy.
Busy(loops) ==
  \/ \E t \in InFlight : t.loop \in loops
  \/ \E call \in stuck : call[1] \in loops

Transitioning(k) ==
  \E t \in InFlight : t.tx = k /\ t.loop \in {"narrow", "reopen"}

EmptyMap == [k \in {} |-> k]

KnockInit ==
  /\ sent = {}
  /\ knocks = EmptyMap
  /\ tasks = EmptyBag
  /\ stuck = {}
  /\ rules = {}
  /\ file = None
  /\ stopping = FALSE
  /\ sessions = 0
  /\ failures = 0
  /\ restarts = 0
  /\ raced = {}

-----------------------------------------------------------------------------
(***************************************************************************)
(* Calls to the root agent.                                                *)
(***************************************************************************)
Opens(t) == t.loop \in {"open", "reopen"}

Rule(t, port) == <<port, IF t.loop = "reopen" THEN t.ip ELSE t.source>>

RulesAfter(t, port) ==
  IF Opens(t) THEN rules \cup {Rule(t, port)} ELSE rules \ {Rule(t, port)}

AgentAnswers(t) ==
  /\ \E port \in t.left :
       /\ rules' = RulesAfter(t, port)
       /\ tasks' = Replace(t, {[t EXCEPT !.left = @ \ {port}]})
  /\ UNCHANGED <<sent, stuck, knocks, file, stopping, sessions, failures,
                 restarts, raced>>

\* closePort catches the error and goes on; openPort throws, which starts the
\* cleanup of executeKnock or ends the transition.
AgentFails(t) ==
  /\ failures < MaxFailures
  /\ failures' = failures + 1
  /\ \E port \in t.left :
       /\ rules' \in {rules, RulesAfter(t, port)}
       /\ tasks' = Replace(t,
            IF t.loop = "open" THEN {Loop("undo", t.tx, t.source, None)}
            ELSE IF t.loop = "reopen" THEN {}
            ELSE {[t EXCEPT !.left = @ \ {port}]})
  /\ UNCHANGED <<sent, stuck, knocks, file, stopping, sessions, restarts,
                 raced>>

\* callRootAgent listens for data, errors and idleness, not for the end of the
\* connection: an agent that closes it before it answers leaves the promise
\* pending, and the function that awaits it where it is.  Nothing waits for a
\* transition, so one that is stuck is forgotten.
AgentHangsUp(t) ==
  /\ failures < MaxFailures
  /\ failures' = failures + 1
  /\ \E port \in t.left : rules' \in {rules, RulesAfter(t, port)}
  /\ tasks' = Replace(t, {})
  /\ stuck' = IF t.loop \in {"narrow", "reopen"}
              THEN stuck
              ELSE stuck \cup {<<t.loop, t.tx>>}
  /\ UNCHANGED <<sent, knocks, file, stopping, sessions, restarts, raced>>

-----------------------------------------------------------------------------
(***************************************************************************)
(* executeKnock.  The poll loop awaits it: one at a time.                  *)
(***************************************************************************)
ExecuteKnock(k, source) ==
  /\ k \notin sent
  /\ ~Busy({"open", "undo"})
  /\ RoomForTask
  /\ sent' = sent \cup {k}
  /\ tasks' = Add(Loop("open", k, source, None))
  /\ UNCHANGED <<knocks, stuck, rules, file, stopping, sessions, failures,
                 restarts, raced>>

\* All ports are open: arm the timeout, track the knock, start the heartbeat
\* poller, which removes an active file it finds, and watch the auth log,
\* if there is one and port 22 is asked for.
TrackKnock(t) ==
  /\ t.loop = "open"
  /\ t.left = {}
  /\ tasks' = Replace(t, {})
  /\ \E tailing \in BOOLEAN :
       knocks' = [k \in DOMAIN knocks \cup {t.tx} |->
         IF k # t.tx THEN knocks[k]
         ELSE [source |-> t.source, loginSource |-> None,
               timer |-> TRUE, polling |-> TRUE, tailing |-> tailing]]
  /\ file' = None
  /\ UNCHANGED <<sent, stuck, rules, stopping, sessions, failures, restarts,
                 raced>>

\* The last port is closed again: executeKnock reports the failure.
UndoEnds(t) ==
  /\ t.loop = "undo"
  /\ t.left = {}
  /\ tasks' = Replace(t, {})
  /\ UNCHANGED <<sent, knocks, stuck, rules, file, stopping, sessions,
                 failures, restarts, raced>>

-----------------------------------------------------------------------------
(***************************************************************************)
(* transitionToPostLogin                                                   *)
(***************************************************************************)
\* Mutant: the per-IP rules are opened beside the first ones.
TransitionWidens(k, ip) ==
  /\ tasks' = IF knocks[k].loginSource # None THEN tasks
              ELSE Add(Loop("reopen", k, knocks[k].source, ip))
  /\ raced' = IF knocks[k].loginSource = None /\ Transitioning(k)
              THEN raced \cup {k} ELSE raced

\* It returns at once when the knock is gone or has its loginSource.
Transition(k, ip) ==
  /\ tasks' = IF knocks[k].loginSource # None THEN tasks
              ELSE Add(Loop("narrow", k, knocks[k].source, ip))
  /\ raced' = IF knocks[k].loginSource = None /\ Transitioning(k)
              THEN raced \cup {k} ELSE raced

\* Mutant: the timeout is cancelled before the ports are open again.
ReopenUntimed(t) ==
  /\ t.loop = "narrow"
  /\ t.left = {}
  /\ tasks' = Replace(t, {Loop("reopen", t.tx, t.source, t.ip)})
  /\ knocks' = IF t.tx \notin DOMAIN knocks THEN knocks
               ELSE [knocks EXCEPT ![t.tx].timer = FALSE]
  /\ UNCHANGED <<sent, stuck, rules, file, stopping, sessions, failures,
                 restarts, raced>>

ReopenPorts(t) ==
  /\ t.loop = "narrow"
  /\ t.left = {}
  /\ tasks' = Replace(t, {Loop("reopen", t.tx, t.source, t.ip)})
  /\ UNCHANGED <<sent, knocks, stuck, rules, file, stopping, sessions,
                 failures, restarts, raced>>

\* The knock object is changed whether or not the map still holds it.
RecordLogin(t) ==
  /\ t.loop = "reopen"
  /\ t.left = {}
  /\ tasks' = Replace(t, {})
  /\ knocks' = IF t.tx \notin DOMAIN knocks THEN knocks
               ELSE [knocks EXCEPT ![t.tx].timer = FALSE,
                                   ![t.tx].loginSource = t.ip,
                                   ![t.tx].tailing = FALSE]
  /\ UNCHANGED <<sent, stuck, rules, file, stopping, sessions, failures,
                 restarts, raced>>

-----------------------------------------------------------------------------
(***************************************************************************)
(* closeKnock                                                              *)
(***************************************************************************)
\* Mutant: the source filter is forgotten before the login.
CloseLoginRules(k, caller) ==
  /\ tasks' = Add(Loop(caller, k, knocks[k].loginSource, None))
  /\ knocks' = [knocks EXCEPT ![k].timer = FALSE, ![k].polling = FALSE,
                              ![k].tailing = FALSE]
  /\ raced' = IF Transitioning(k) THEN raced \cup {k} ELSE raced

\* Mutant: the source filter of the command is closed in both phases.
CloseFirstRules(k, caller) ==
  /\ tasks' = Add(Loop(caller, k, knocks[k].source, None))
  /\ knocks' = [knocks EXCEPT ![k].timer = FALSE, ![k].polling = FALSE,
                              ![k].tailing = FALSE]
  /\ raced' = IF Transitioning(k) THEN raced \cup {k} ELSE raced

\* It silences the timers and the tail, then chooses the rules to close.
Close(k, caller) ==
  LET knock == knocks[k] IN
  /\ tasks' = Add(Loop(caller, k,
                IF knock.loginSource # None THEN knock.loginSource ELSE knock.source,
                None))
  /\ knocks' = [knocks EXCEPT ![k].timer = FALSE, ![k].polling = FALSE,
                              ![k].tailing = FALSE]
  /\ raced' = IF Transitioning(k) THEN raced \cup {k} ELSE raced

CloseEnds(t) ==
  /\ t.loop \in {"close", "shutdown"}
  /\ t.left = {}
  /\ tasks' = Replace(t, {})
  /\ file' = None
  /\ knocks' = [k \in DOMAIN knocks \ {t.tx} |-> knocks[k]]
  /\ UNCHANGED <<sent, stuck, rules, stopping, sessions, failures, restarts,
                 raced>>

TimeoutFires(k) ==
  /\ k \in DOMAIN knocks
  /\ knocks[k].timer
  /\ RoomForTask
  /\ Close(k, "close")
  /\ UNCHANGED <<sent, stuck, rules, file, stopping, sessions, failures,
                 restarts>>

\* One tick of the heartbeat poller that does something.
HeartbeatTransition(k) ==
  /\ k \in DOMAIN knocks
  /\ knocks[k].polling
  /\ knocks[k].loginSource = None
  /\ file # None
  /\ RoomForTask
  /\ Transition(k, file.ip)
  /\ UNCHANGED <<sent, knocks, stuck, rules, file, stopping, sessions,
                 failures, restarts>>

HeartbeatClose(k) ==
  /\ k \in DOMAIN knocks
  /\ knocks[k].polling
  /\ knocks[k].loginSource # None
  /\ file # None => file.stale
  /\ RoomForTask
  /\ Close(k, "close")
  /\ UNCHANGED <<sent, stuck, rules, file, stopping, sessions, failures,
                 restarts>>

\* The auth log monitor of a knock reads a line about a login.
LoginDetected(k, ip) ==
  /\ k \in DOMAIN knocks
  /\ knocks[k].tailing
  /\ sessions < MaxSessions
  /\ sessions' = sessions + 1
  /\ RoomForTask
  /\ file' = [ip |-> ip, stale |-> FALSE]
  /\ Transition(k, ip)
  /\ UNCHANGED <<sent, knocks, stuck, rules, stopping, failures, restarts>>

-----------------------------------------------------------------------------
(***************************************************************************)
(* The session behind the active file, shutdown, and the end of the        *)
(* process.                                                                *)
(***************************************************************************)
SessionWrites(ip) ==
  /\ sessions < MaxSessions
  /\ sessions' = sessions + 1
  /\ file' = [ip |-> ip, stale |-> FALSE]
  /\ UNCHANGED <<sent, knocks, tasks, stuck, rules, stopping, failures,
                 restarts, raced>>

\* HEARTBEAT_STALE_MS pass without a heartbeat.
SessionFallsSilent ==
  /\ file # None
  /\ file' = [file EXCEPT !.stale = TRUE]
  /\ UNCHANGED <<sent, knocks, tasks, stuck, rules, stopping, sessions,
                 failures, restarts, raced>>

SessionEnds ==
  /\ file # None
  /\ file' = None
  /\ UNCHANGED <<sent, knocks, tasks, stuck, rules, stopping, sessions,
                 failures, restarts, raced>>

Shutdown ==
  /\ ~stopping
  /\ stopping' = TRUE
  /\ UNCHANGED <<sent, knocks, tasks, stuck, rules, file, sessions, failures,
                 restarts, raced>>

\* closeAllKnocks awaits one closeKnock after the other.
ShutdownClose(k) ==
  /\ stopping
  /\ k \in DOMAIN knocks
  /\ ~Busy({"shutdown"})
  /\ RoomForTask
  /\ Close(k, "shutdown")
  /\ UNCHANGED <<sent, stuck, rules, file, stopping, sessions, failures,
                 restarts>>

\* Rules and the active file outlive the process.
Restart ==
  /\ restarts < MaxRestarts
  /\ restarts' = restarts + 1
  /\ knocks' = EmptyMap
  /\ tasks' = EmptyBag
  /\ stuck' = {}
  /\ stopping' = FALSE
  /\ UNCHANGED <<sent, rules, file, sessions, failures, raced>>

-----------------------------------------------------------------------------
Return(t) ==
  \/ AgentAnswers(t)
  \/ TrackKnock(t)
  \/ UndoEnds(t)
  \/ ReopenPorts(t)
  \/ RecordLogin(t)
  \/ CloseEnds(t)

KnockNext ==
  \/ \E t \in InFlight : Return(t) \/ AgentFails(t) \/ AgentHangsUp(t)
  \/ \E k \in Knocks :
       \/ \E source \in Sources : ExecuteKnock(k, source)
       \/ TimeoutFires(k)
       \/ HeartbeatTransition(k)
       \/ HeartbeatClose(k)
       \/ \E ip \in Ips : LoginDetected(k, ip)
       \/ ShutdownClose(k)
  \/ \E ip \in Ips : SessionWrites(ip)
  \/ SessionFallsSilent
  \/ SessionEnds
  \/ Shutdown
  \/ Restart

KnockSpec == KnockInit /\ [][KnockNext]_knockVars

(***************************************************************************)
(* A call that is not hung up on returns or times out, armed timers fire,  *)
(* and no session sends heartbeats for ever.                               *)
(***************************************************************************)
Fairness ==
  /\ WF_knockVars(SessionFallsSilent)
  /\ \A k \in Knocks :
       /\ WF_knockVars(\E t \in InFlight : t.tx = k /\ Return(t))
       /\ WF_knockVars(TimeoutFires(k))
       /\ WF_knockVars(HeartbeatTransition(k))
       /\ WF_knockVars(HeartbeatClose(k))

KnockFairSpec == KnockSpec /\ Fairness

-----------------------------------------------------------------------------
\* The map, the functions under way, the rules and the file hold their kinds.
KnockTypeOK ==
  /\ sent \subseteq Knocks
  /\ DOMAIN knocks \subseteq sent
  /\ \A k \in DOMAIN knocks : knocks[k] \in ActiveKnock
  /\ IsABag(tasks) /\ InFlight \subseteq Task
  /\ stuck \subseteq Loops \X Knocks
  /\ rules \subseteq Ports \X (Sources \cup Ips)
  /\ file \in ActiveFile \cup {None}
  /\ stopping \in BOOLEAN
  /\ sessions \in 0..MaxSessions
  /\ failures \in 0..MaxFailures
  /\ restarts \in 0..MaxRestarts
  /\ raced \subseteq sent

\* Somebody will still close the rule, or knows that it is open.
AccountedFor(rule) ==
  \/ \E k \in DOMAIN knocks :
       rule[2] \in {knocks[k].source, knocks[k].loginSource}
  \/ \E t \in InFlight : rule[2] \in {t.source, t.ip}

(***************************************************************************)
(* A rule that is open belongs to a tracked knock or to a function under   *)
(* way.  Only a call the root agent failed, a restart, or a knock closed   *)
(* or narrowed while transitionToPostLogin was awaiting can leave a rule   *)
(* behind that nothing closes.                                             *)
(***************************************************************************)
RulesAccountedFor ==
  \/ \A rule \in rules : AccountedFor(rule)
  \/ failures > 0
  \/ restarts > 0
  \/ raced # {}

(***************************************************************************)
(* knock.ts:8-9: after the login the ports are open for that address only: *)
(* the rules of phase 1 are gone, unless they are another knock's as well. *)
(***************************************************************************)
NarrowedAfterLogin ==
  \A k \in DOMAIN knocks :
    (knocks[k].loginSource \notin {None, knocks[k].source}
       /\ \E port \in Ports : <<port, knocks[k].source>> \in rules)
    => \/ failures > 0
       \/ restarts > 0
       \/ raced # {}
       \/ \E other \in DOMAIN knocks \ {k} :
            knocks[k].source \in {knocks[other].source, knocks[other].loginSource}
       \/ \E t \in InFlight : t.tx # k /\ knocks[k].source \in {t.source, t.ip}

\* Every knock is closed in the end: by its timeout as long as nobody has
\* logged in, by a stale or missing active file afterwards; a transition
\* that fails half way, or never comes back, is no way out.  Only a closeKnock
\* that never comes back leaves its knock in the map, with its timers cleared.
KnockEnds ==
  \A k \in Knocks :
    k \in DOMAIN knocks ~>
      \/ k \notin DOMAIN knocks
      \/ {<<"close", k>>, <<"shutdown", k>>} \cap stuck # {}

(***************************************************************************)
(* knock.ts:2, "opens firewall ports temporarily": a rule that is open is  *)
(* closed again, when the root agent answers every call and the monitor    *)
(* keeps running.                                                          *)
(***************************************************************************)
OpenedTemporarily ==
  []~stopping =>
    \A port \in Ports, source \in Sources \cup Ips :
      <<port, source>> \in rules ~> <<port, source>> \notin rules

=============================================================================
