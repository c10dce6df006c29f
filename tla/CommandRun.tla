----------------------------- MODULE CommandRun -----------------------------
(* One shell command at a time from each caller: the checks and the approval   *)
(* (emery/command_execution.py), the backend that runs it                      *)
(* (emery/command_backends.py) and the runner on the host                      *)
(* (scripts/emery_host_command.py), which has a limit of its own.              *)
(*                                                                             *)
(* A command is a process group.  It may leave a child behind that holds its   *)
(* output: in the group, or in a session of its own.  Of docker and ssh only   *)
(* the client is local, and what it started goes on when the client is killed. *)
EXTENDS Naturals, FiniteSets

CONSTANTS
    Commands,        \* calls of the tool run_command
    Backends,        \* the values of COMMAND_EXECUTION_BACKEND
    Dangerous,       \* the commands that the safety policy names
    MaxConcurrent    \* MAX_CONCURRENT_COMMANDS of the runner

ASSUME CommandAssumption ==
    /\ Backends \subseteq {"local", "docker", "ssh", "host"} /\ Dangerous \subseteq Commands
    /\ MaxConcurrent \in Nat \ {0}

VARIABLES
    commandBackend,  \* the backend of this process
    command,         \* where each call stands, its answer, and what was decided and audited
    group,           \* its processes: the command itself and a child that holds its output
    active           \* _active_commands of the runner

commandVars == <<commandBackend, command, group, active>>

NoProcess == [main |-> "none", child |-> "none"]

CommandInit ==
    /\ commandBackend \in Backends
    /\ command = [c \in Commands |-> [at |-> "new", reply |-> "none", answer |-> "none", approved |-> FALSE, audited |-> FALSE]]
    /\ group = [c \in Commands |-> NoProcess]
    /\ active = 0

Remote == commandBackend \in {"docker", "ssh"}
Moves(c, at) == command' = [command EXCEPT ![c].at = at]

\* run_command gives its answer, and most of them are audited.
Answers(c, answer, audited) ==
    command' = [command EXCEPT ![c].at = "answered", ![c].answer = answer, ![c].audited = audited]

-----------------------------------------------------------------------------
\* An empty or overlong command, a timeout out of range, a directory that is none.
Invalid(c) ==
    /\ command[c].at = "new"
    /\ Answers(c, "error", FALSE)
    /\ UNCHANGED <<commandBackend, group, active>>

\* Seeded fault: what the policy does not name is taken for dangerous, and the rest for harmless.
NeedsApproval_Not(c) == c \notin Dangerous
NeedsApproval(c) == c \in Dangerous

Checked(c) ==
    /\ command[c].at = "new"
    /\ Moves(c, IF NeedsApproval(c) THEN "approval" ELSE "launch")
    /\ UNCHANGED <<commandBackend, group, active>>

ApprovalGiven(c) ==
    /\ command[c].at = "approval"
    /\ command' = [command EXCEPT ![c].at = "launch", ![c].approved = TRUE]
    /\ UNCHANGED <<commandBackend, group, active>>

ApprovalRefused(c) ==
    /\ command[c].at = "approval"
    /\ Answers(c, "blocked", TRUE)
    /\ UNCHANGED <<commandBackend, group, active>>

\* The local shell, or the client of docker or ssh.
CommandLaunched(c) ==
    /\ command[c].at = "launch" /\ commandBackend # "host"
    /\ Moves(c, "running")
    /\ group' = [group EXCEPT ![c].main = "running"]
    /\ UNCHANGED <<commandBackend, active>>

\* The executable is missing, the socket cannot be reached.
Unavailable(c) ==
    /\ command[c].at = "launch"
    /\ Answers(c, "error", TRUE)
    /\ UNCHANGED <<commandBackend, group, active>>

HostSends(c) ==
    /\ command[c].at = "launch" /\ commandBackend = "host"
    /\ Moves(c, "received")
    /\ UNCHANGED <<commandBackend, group, active>>

-----------------------------------------------------------------------------
(* The runner *)

\* Nobody reads the reply when the client has given up.
RunnerSays(c, reply) ==
    command' = [command EXCEPT ![c].at = IF command[c].answer = "none" THEN "replied" ELSE "answered", ![c].reply = reply]

\* Its own policy or the directory refuses the command, or no shell can be started.
RunnerDenies(c) ==
    /\ command[c].at = "received"
    /\ RunnerSays(c, "error")
    /\ UNCHANGED <<commandBackend, group, active>>

RunnerBusy(c) ==
    /\ command[c].at = "received" /\ active >= MaxConcurrent
    /\ RunnerSays(c, "busy")
    /\ UNCHANGED <<commandBackend, group, active>>

RunnerTakes(c) ==
    /\ command[c].at = "received" /\ active < MaxConcurrent
    /\ active' = active + 1
    /\ Moves(c, "running")
    /\ group' = [group EXCEPT ![c].main = "running"]
    /\ UNCHANGED commandBackend

-----------------------------------------------------------------------------
(* The processes *)

CommandExits(c) ==
    /\ group[c].main = "running"
    /\ \E child \in IF Remote THEN {"none"} ELSE {"none", "group", "own"} :
        group' = [group EXCEPT ![c] = [main |-> "exited", child |-> child]]
    /\ UNCHANGED <<commandBackend, command, active>>

ChildEnds(c) ==
    /\ group[c].child # "none"
    /\ group' = [group EXCEPT ![c].child = "none"]
    /\ UNCHANGED <<commandBackend, command, active>>

\* The output is read to its end, which a child that holds it keeps away.
OutputEnds(c) ==
    /\ group[c].child = "none"
    /\ group[c].main # "running" \/ (Remote /\ command[c].at = "killed")

AfterKill(g) ==
    IF g.main = "running" /\ ~Remote THEN {"none", "own"} ELSE {IF g.child = "group" THEN "none" ELSE g.child}

\* The group gets a SIGKILL.  The output is waited for again, without a limit.
CommandTimesOut(c) ==
    /\ command[c].at = "running" /\ ~OutputEnds(c)
    /\ Moves(c, "killed")
    /\ \E child \in AfterKill(group[c]) :
        group' = [group EXCEPT ![c] = [main |-> IF @.main = "running" /\ ~Remote THEN "killed" ELSE @.main, child |-> child]]
    /\ UNCHANGED <<commandBackend, active>>

\* Seeded fault: the slot is given back where the command came to its end in time.
Released_InTime(c) == IF command[c].at = "killed" THEN active ELSE active - 1
\* The slot is given back however the command ended.
Released(c) == active - 1

Status(c) == IF command[c].at = "killed" THEN {"timeout"} ELSE {"completed", "failed"}

\* Seeded fault: the output is not waited for after the kill.
Collectable_Killed(c) == command[c].at = "killed" \/ (command[c].at = "running" /\ OutputEnds(c))
Collectable(c) == command[c].at \in {"running", "killed"} /\ OutputEnds(c)

Collected(c) ==
    /\ Collectable(c)
    /\ \E status \in Status(c) :
        IF commandBackend = "host" THEN RunnerSays(c, status) /\ active' = Released(c)
        ELSE Answers(c, status, TRUE) /\ active' = active
    /\ UNCHANGED <<commandBackend, group>>

-----------------------------------------------------------------------------
(* The client of the runner *)

HostReads(c) ==
    /\ command[c].at = "replied"
    /\ Answers(c, command[c].reply, TRUE)
    /\ UNCHANGED <<commandBackend, group, active>>

\* A line longer than the limit of the reader is a ValueError, which run_command
\* reports before it comes to the audit.
HostLineTooLong(c) ==
    /\ command[c].at = "replied" /\ command[c].reply \in {"completed", "failed", "timeout"}
    /\ Answers(c, "error", FALSE)
    /\ UNCHANGED <<commandBackend, group, active>>

\* Five seconds after the timeout nobody waits for the runner any more.
HostGivesUp(c) ==
    /\ command[c].at \in {"received", "running", "killed"} /\ commandBackend = "host"
    /\ command[c].answer = "none"
    /\ command' = [command EXCEPT ![c].answer = "error", ![c].audited = TRUE]
    /\ UNCHANGED <<commandBackend, group, active>>

CommandNext ==
    \E c \in Commands :
        \/ Invalid(c) \/ Checked(c) \/ ApprovalGiven(c) \/ ApprovalRefused(c)
        \/ CommandLaunched(c) \/ Unavailable(c) \/ HostSends(c)
        \/ RunnerDenies(c) \/ RunnerBusy(c) \/ RunnerTakes(c)
        \/ CommandExits(c) \/ ChildEnds(c) \/ CommandTimesOut(c) \/ Collected(c)
        \/ HostReads(c) \/ HostLineTooLong(c) \/ HostGivesUp(c)

CommandSpec == CommandInit /\ [][CommandNext]_commandVars

-----------------------------------------------------------------------------
(* Properties *)

Started(c) == group[c].main # "none"

\* What the model is told of a command is so.  One that was blocked, or found the runner busy, was
\* never begun; a dangerous one begins with an approval; one that ended, or was terminated, has no
\* process left, unless it ran where only the client can be killed.  Whatever way a command ends,
\* the runner has as many slots taken as it has commands in hand, and what was run was audited,
\* unless its result was too long to be read.
CommandSound ==
    /\ \A c \in Commands :
        /\ command[c].answer \in {"blocked", "busy"} => ~Started(c)
        /\ Started(c) /\ c \in Dangerous => command[c].approved
        /\ command[c].answer \in {"completed", "failed", "timeout"} /\ ~Remote =>
            group[c].main \in {"exited", "killed"} /\ group[c].child = "none"
        /\ command[c].answer \in {"completed", "failed", "timeout"} => command[c].audited
    /\ active = Cardinality({c \in Commands : commandBackend = "host" /\ command[c].at \in {"running", "killed"}})
    /\ active <= MaxConcurrent
=============================================================================
