------------------------------- MODULE RacInit -------------------------------
(***************************************************************************)
(* The service engine of RacInit, the first user process                   *)
(* (init/src/engine.rs): the start order (Kahn's algorithm), starting      *)
(* units, waiting for children, the restart policy and its burst limit.    *)
(*                                                                         *)
(* Engine is sequential; what runs beside it are its children, which exit  *)
(* at any time, and the clock.  Unit files are data: a configuration gives *)
(* each unit its dependencies (After= and Requires=, names that resolve),  *)
(* its kind and its restart policy.  Kind "none" stands for the units that *)
(* start no process: targets, mounts, timers, devices, an empty ExecStart. *)
(***************************************************************************)
EXTENDS Integers, Sequences, FiniteSets, Functions

CONSTANTS
    N,              \* units.len()
    Configs,        \* the unit files considered
    BurstLimit,     \* BURST_LIMIT
    BurstWindow,    \* BURST_WINDOW_SEC
    MaxPid,         \* bound on the processes started
    MaxTime         \* bound on the clock

Units == 1 .. N
Pids == 1 .. MaxPid

Kinds == {"none", "simple", "oneshot"}       \* forking is treated as simple
Policies == {"no", "on-failure", "always"}   \* on-abnormal is treated as on-failure

ASSUME RacInitAssumption ==
    /\ N \in Nat
    /\ Configs \subseteq [deps : [Units -> SUBSET Units], kind : [Units -> Kinds],
                          restart : [Units -> Policies]]
    /\ BurstLimit \in Nat /\ BurstWindow \in Nat
    /\ MaxPid \in Nat /\ MaxTime \in Nat

VARIABLES
    unit,       \* the configuration
    phase,      \* "resolve" and "start" (start_all), then "supervise"
    inDegree,   \* resolve_start_order: dependencies not in order yet
    ready,      \* its stack of units whose dependencies are all in order
    order,      \* its result
    next,       \* start_all: position in order
    state,      \* state[u]: the unit's state
    oneshot,    \* the unit whose start is waiting for a child, or 0
    pids,       \* pids of running services: <<unit, pid>>
    tracker,    \* tracker[u]: RestartTracker.timestamps
    now,        \* now_secs()
    proc,       \* proc[p]: "unborn", "running", exit "ok" or "fail", "reaped"
    owner,      \* owner[p]: the unit p was started for, 0 for an orphan
    nextPid,
    restarts    \* restarts[u]: times at which u was restarted (history)

resolveVars == <<inDegree, ready, order>>
trackVars == <<tracker, restarts>>
procVars == <<proc, owner, nextPid>>
vars == <<unit, phase, resolveVars, next, state, oneshot, pids, now, trackVars, procVars>>

TypeOK ==
    /\ unit \in Configs
    /\ phase \in {"resolve", "start", "supervise"}
    /\ inDegree \in [Units -> Nat]
    /\ ready \in Seq(Units)
    /\ order \in Seq(Units)
    /\ next \in 1 .. Len(order) + 1
    /\ state \in [Units -> {"Loaded", "Active", "Stopped", "Failed"}]
    /\ oneshot \in Units \cup {0}
    /\ pids \subseteq Units \X Pids
    /\ tracker \in [Units -> Seq(0 .. MaxTime)]
    /\ now \in 0 .. MaxTime
    /\ proc \in [Pids -> {"unborn", "running", "ok", "fail", "reaped"}]
    /\ owner \in [Pids -> Units \cup {0}]
    /\ nextPid \in 1 .. MaxPid + 1
    /\ restarts \in [Units -> Seq(0 .. MaxTime)]

-------------------------------------------------------------------------------
(* resolve_start_order *)

\* The members of S as a loop over the indices visits them.
Ascending(S) ==
    CHOOSE s \in [1 .. Cardinality(S) -> S] :
        /\ \A x \in S : \E i \in 1 .. Cardinality(S) : s[i] = x
        /\ \A i, j \in 1 .. Cardinality(S) : i < j => s[i] < s[j]

\* depends_on[u]: a unit's dependency on itself is dropped.
DependsOn(u) == unit.deps[u] \ {u}

Init ==
    /\ unit \in Configs
    /\ phase = "resolve"
    /\ inDegree = [u \in Units |-> Cardinality(DependsOn(u))]
    /\ ready = Ascending({u \in Units : DependsOn(u) = {}})
    /\ order = <<>>
    /\ next = 1
    /\ state = [u \in Units |-> "Loaded"]
    /\ oneshot = 0
    /\ pids = {}
    /\ tracker = [u \in Units |-> <<>>]
    /\ now = 0
    /\ proc = [p \in Pids |-> "unborn"]
    /\ owner = [p \in Pids |-> 0]
    /\ nextPid = 1
    /\ restarts = [u \in Units |-> <<>>]

\* One turn of the loop: the last ready unit is next, and frees those for which
\* it was the last dependency.
Resolve ==
    /\ phase = "resolve" /\ ready # <<>>
    /\ LET u == ready[Len(ready)]
           enabled == {v \in Units : u \in DependsOn(v)}
       IN /\ order' = Append(order, u)
          /\ inDegree' = [v \in Units |-> IF v \in enabled THEN inDegree[v] - 1 ELSE inDegree[v]]
          /\ ready' = SubSeq(ready, 1, Len(ready) - 1) \o Ascending({v \in enabled : inDegree[v] = 1})
    /\ UNCHANGED <<unit, phase, next, state, oneshot, pids, now, trackVars, procVars>>

MutCycle == {u \in Units : inDegree[u] > 1}

\* ResolveResult.cycle
Cycle == {u \in Units : inDegree[u] > 0}

Resolved ==
    /\ phase = "resolve" /\ ready = <<>>
    /\ phase' = "start"
    /\ UNCHANGED <<unit, resolveVars, next, state, oneshot, pids, now, trackVars, procVars>>

-------------------------------------------------------------------------------
(* start_unit, from start_all or on_child_exit, which left ps of pids and *)
(* pr of the processes                                                    *)

\* spawn returned a pid; a oneshot's start goes on to wait for a child.
Spawned(u, ps, pr) ==
    /\ nextPid <= MaxPid
    /\ state' = [state EXCEPT ![u] = "Active"]
    /\ pids' = ps \cup {<<u, nextPid>>}
    /\ proc' = [pr EXCEPT ![nextPid] = "running"]
    /\ owner' = [owner EXCEPT ![nextPid] = u]
    /\ nextPid' = nextPid + 1
    /\ oneshot' = IF unit.kind[u] = "oneshot" THEN u ELSE 0

SpawnFailed(u, ps, pr) ==
    /\ state' = [state EXCEPT ![u] = "Failed"]
    /\ pids' = ps
    /\ proc' = pr
    /\ UNCHANGED <<owner, nextPid, oneshot>>

StartUnit(u, ps, pr) ==
    \/ /\ unit.kind[u] = "none"
       /\ state' = [state EXCEPT ![u] = "Active"]
       /\ pids' = ps
       /\ proc' = pr
       /\ UNCHANGED <<owner, nextPid, oneshot>>
    \/ /\ unit.kind[u] # "none"
       /\ Spawned(u, ps, pr) \/ SpawnFailed(u, ps, pr)

Zombie(p) == proc[p] \in {"ok", "fail"}

\* wait(-1) returns some exited child.
Reaped(p) == [proc EXCEPT ![p] = "reaped"]

\* The rest of a oneshot's start: whichever child wait returned, its status
\* becomes the unit's, and the unit's pid is forgotten.
OneshotDone ==
    /\ oneshot # 0
    /\ \E p \in Pids :
         /\ Zombie(p)
         /\ proc' = Reaped(p)
         /\ state' = [state EXCEPT ![oneshot] = IF proc[p] = "ok" THEN "Active" ELSE "Failed"]
    /\ pids' = {e \in pids : e[1] # oneshot}
    /\ oneshot' = 0
    /\ UNCHANGED <<unit, phase, resolveVars, next, now, trackVars, owner, nextPid>>

MutStartNext ==
    /\ phase = "start" /\ oneshot = 0
    /\ next <= Len(order)
    /\ StartUnit(order[Len(order) + 1 - next], pids, proc)
    /\ next' = next + 1
    /\ UNCHANGED <<unit, phase, resolveVars, now, trackVars>>

StartNext ==
    /\ phase = "start" /\ oneshot = 0
    /\ next <= Len(order)
    /\ StartUnit(order[next], pids, proc)
    /\ next' = next + 1
    /\ UNCHANGED <<unit, phase, resolveVars, now, trackVars>>

\* The end of start_all: units the order leaves out fail.
StartDone ==
    /\ phase = "start" /\ oneshot = 0
    /\ next > Len(order)
    /\ state' = [u \in Units |-> IF u \in Cycle THEN "Failed" ELSE state[u]]
    /\ phase' = "supervise"
    /\ UNCHANGED <<unit, resolveVars, next, oneshot, pids, now, trackVars, procVars>>

-------------------------------------------------------------------------------
(* supervise *)

\* on_child_exit: should_restart.
ShouldRestart(u, status) ==
    \/ unit.restart[u] = "always"
    \/ unit.restart[u] = "on-failure" /\ status = "fail"

\* retain: what s holds at the positions K.
Retained(s, K) == [i \in 1 .. Cardinality(K) |-> s[Ascending(K)[i]]]

MutRecent(u) == Retained(tracker[u], {k \in DOMAIN tracker[u] : now - tracker[u][k] < BurstWindow})

\* record_and_check keeps the timestamps inside the window; time only grows.
Recent(u) == Retained(tracker[u], {k \in DOMAIN tracker[u] : now - tracker[u][k] <= BurstWindow})

\* on_child_exit: nobody's child, an orphan handed to init.
ReapOrphan(p) ==
    /\ \A u \in Units : <<u, p>> \notin pids
    /\ proc' = Reaped(p)
    /\ UNCHANGED <<state, oneshot, pids, trackVars, owner, nextPid>>

\* on_child_exit: the policy asks for no restart.
StaysDown(u, p) ==
    /\ ~ShouldRestart(u, proc[p])
    /\ state' = [state EXCEPT ![u] = IF proc[p] = "ok" THEN "Stopped" ELSE "Failed"]
    /\ pids' = pids \ {<<u, p>>}
    /\ proc' = Reaped(p)
    /\ UNCHANGED <<oneshot, trackVars, owner, nextPid>>

MutQuarantine(u, p) ==
    /\ ShouldRestart(u, proc[p])
    /\ tracker' = [tracker EXCEPT ![u] = Append(Recent(u), now)]
    /\ Len(tracker'[u]) > BurstLimit
    /\ pids' = pids \ {<<u, p>>}
    /\ proc' = Reaped(p)
    /\ UNCHANGED <<state, oneshot, restarts, owner, nextPid>>

\* on_child_exit: the burst gate gives the unit up.
Quarantine(u, p) ==
    /\ ShouldRestart(u, proc[p])
    /\ tracker' = [tracker EXCEPT ![u] = Append(Recent(u), now)]
    /\ Len(tracker'[u]) > BurstLimit
    /\ state' = [state EXCEPT ![u] = "Failed"]
    /\ pids' = pids \ {<<u, p>>}
    /\ proc' = Reaped(p)
    /\ UNCHANGED <<oneshot, restarts, owner, nextPid>>

\* on_child_exit: start the unit again.
Restart(u, p) ==
    /\ ShouldRestart(u, proc[p])
    /\ tracker' = [tracker EXCEPT ![u] = Append(Recent(u), now)]
    /\ Len(tracker'[u]) <= BurstLimit
    /\ restarts' = [restarts EXCEPT ![u] = Append(@, now)]
    /\ StartUnit(u, pids \ {<<u, p>>}, Reaped(p))

MutOwns(u, p) == \E q \in Pids : <<u, q>> \in pids

\* on_child_exit looks the pid up in the list.
Owns(u, p) == <<u, p>> \in pids

\* One turn of the loop: wait returned p.
Supervise ==
    /\ phase = "supervise" /\ oneshot = 0
    /\ \E p \in Pids :
         /\ Zombie(p)
         /\ \/ ReapOrphan(p)
            \/ \E u \in Units : Owns(u, p) /\ (StaysDown(u, p) \/ Quarantine(u, p) \/ Restart(u, p))
    /\ UNCHANGED <<unit, phase, resolveVars, next, now>>

-------------------------------------------------------------------------------
(* What runs beside the engine *)

Engine == Resolve \/ Resolved \/ OneshotDone \/ StartNext \/ StartDone \/ Supervise

ChildExits(p, status) ==
    /\ proc[p] = "running"
    /\ proc' = [proc EXCEPT ![p] = status]
    /\ UNCHANGED <<unit, phase, resolveVars, next, state, oneshot, pids, now, trackVars, owner,
                   nextPid>>

\* A service exits before a child of its own, which the kernel hands to init.
Adopt ==
    /\ phase # "resolve" /\ nextPid <= MaxPid
    /\ \E p \in Pids : Zombie(p)
    /\ proc' = [proc EXCEPT ![nextPid] = "running"]
    /\ nextPid' = nextPid + 1
    /\ UNCHANGED <<unit, phase, resolveVars, next, state, oneshot, pids, now, trackVars, owner>>

\* Time passes, in supervise's sleep when there is no child too.
Tick ==
    /\ phase = "supervise" /\ now < MaxTime
    /\ now' = now + 1
    /\ UNCHANGED <<unit, phase, resolveVars, next, state, oneshot, pids, trackVars, procVars>>

Next ==
    \/ Engine \/ Adopt \/ Tick
    \/ \E p \in Pids, status \in {"ok", "fail"} : ChildExits(p, status)

\* The engine is a loop that the scheduler keeps running.
Spec == Init /\ [][Next]_vars /\ WF_vars(Engine)

-------------------------------------------------------------------------------
(* What must hold *)

\* Units from which dependencies lead round for ever: the largest set in which
\* everyone depends on a member.
Circular ==
    UNION {S \in SUBSET Units : \A u \in S : DependsOn(u) \cap S # {}}

\* resolve_start_order leaves out exactly the units that are in a cycle or behind
\* one, and lists every other unit once.
CycleExact ==
    phase # "resolve" =>
        /\ Cycle = Circular
        /\ Range(order) = Units \ Circular
        /\ IsInjective(order)

\* start_all starts a unit only after every unit it depends on was started.
DependenciesFirst ==
    \A u \in Units \ Circular : state[u] # "Loaded" =>
        \A v \in DependsOn(u) : state[v] # "Loaded"

\* However services exit and whatever wait returns, a unit never has two
\* processes at once (start_unit, on_child_exit).
OneProcess ==
    \A p, q \in Pids : proc[p] = "running" /\ proc[q] = "running" /\ owner[p] = owner[q] =>
        p = q \/ owner[p] = 0

\* No unit is restarted more than BURST_LIMIT times within BURST_WINDOW_SEC
\* (record_and_check), over any stretch of time and not only since the last check.
BurstBounded ==
    \A u \in Units : \A i \in DOMAIN restarts[u] :
        i + BurstLimit \in DOMAIN restarts[u] =>
            restarts[u][i + BurstLimit] - restarts[u][i] > BurstWindow

Running(u) == \E p \in Pids : proc[p] = "running" /\ owner[p] = u

\* Without oneshot units, a unit shown Active whose process is gone is noticed:
\* supervise starts it again, or shows it Stopped or Failed.
ExitNoticed ==
    \A u \in Units :
        /\ unit.kind[u] = "simple" /\ \A v \in Units : unit.kind[v] # "oneshot"
        /\ state[u] = "Active" /\ ~Running(u)
        ~> state[u] # "Active" \/ Running(u)

-------------------------------------------------------------------------------
(* What the documents say *)

\* "oneshot | Runs and exits. Considered active after successful exit."
\* (docs/specs/SERVICE_MODEL.md): once start_unit is through with it, an Active
\* oneshot unit has no process left.
OneshotActiveAfterExit ==
    \A u \in Units : unit.kind[u] = "oneshot" /\ state[u] = "Active" /\ oneshot # u =>
        ~Running(u)

===============================================================================
