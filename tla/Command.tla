-------------------------------- MODULE Command ---------------------------------
(***************************************************************************)
(* External commands (externalcmd): each has a goroutine that runs a       *)
(* process, and runs it again after a pause if it is to be restarted; the  *)
(* pool waits for the goroutines.  A command of a hook that is over, like  *)
(* runOnDisconnect, is never closed; it ends by itself.                    *)
(***************************************************************************)
EXTENDS Naturals

CONSTANT Commands

VARIABLES
    command,      \* Cmd: at new, starting, running, killing, pausing, ended; restart; terminate
    process,      \* what the system runs for it: none, running, exited
    poolClosing   \* Pool.Close, called when the core has closed everything else

commandVars == <<command, process, poolClosing>>

CommandInit ==
    /\ command \in [Commands -> [at : {"new"}, restart : BOOLEAN, terminate : {FALSE}]]
    /\ process = [c \in Commands |-> "none"]
    /\ poolClosing = "no"

Becomes(c, at) == command' = [command EXCEPT ![c].at = at]

NewCmd(c) ==
    /\ command[c].at = "new" /\ poolClosing = "no"
    /\ Becomes(c, "starting")
    /\ UNCHANGED <<process, poolClosing>>

(* Cmd.Close does not wait.  A command that is restarted is always closed  *)
(* before the pool is.                                                     *)
Close(c) ==
    /\ command[c].at # "new" /\ ~command[c].terminate
    /\ command' = [command EXCEPT ![c].terminate = TRUE]
    /\ UNCHANGED <<process, poolClosing>>

(* Cmd.run, after the process: the goroutine ends, or pauses.              *)
AfterExit(c) == Becomes(c, IF command[c].restart THEN "pausing" ELSE "ended")

StartFails(c) ==
    /\ command[c].at = "starting" /\ AfterExit(c)
    /\ UNCHANGED <<process, poolClosing>>
Starts(c) ==
    /\ command[c].at = "starting" /\ Becomes(c, "running")
    /\ process' = [process EXCEPT ![c] = "running"]
    /\ UNCHANGED poolClosing
Exited(c) ==
    /\ command[c].at = "running" /\ process[c] = "exited" /\ AfterExit(c)
    /\ process' = [process EXCEPT ![c] = "none"]
    /\ UNCHANGED poolClosing

(* Mutant: the process is interrupted and not waited for.                  *)
Terminated_NoWait(c) ==
    /\ command[c].at = "running" /\ command[c].terminate
    /\ Becomes(c, "ended")
    /\ UNCHANGED <<process, poolClosing>>

(* The process is interrupted, then waited for.                            *)
Terminated(c) ==
    /\ command[c].at = "running" /\ command[c].terminate
    /\ Becomes(c, "killing")
    /\ UNCHANGED <<process, poolClosing>>
Killed(c) ==
    /\ command[c].at = "killing" /\ process[c] = "exited"
    /\ Becomes(c, "ended")
    /\ process' = [process EXCEPT ![c] = "none"]
    /\ UNCHANGED poolClosing

(* The pause: whichever is first, and either when both are there.          *)
PauseOver(c) ==
    /\ command[c].at = "pausing" /\ Becomes(c, "starting")
    /\ UNCHANGED <<process, poolClosing>>
PauseTerminated(c) ==
    /\ command[c].at = "pausing" /\ command[c].terminate /\ Becomes(c, "ended")
    /\ UNCHANGED <<process, poolClosing>>

(* A process may exit at any time; nothing makes it, not even SIGINT.      *)
ProcessExits(c) ==
    /\ process[c] = "running" /\ process' = [process EXCEPT ![c] = "exited"]
    /\ UNCHANGED <<command, poolClosing>>

Over(c) == command[c].at \in {"new", "ended"}
PoolClose ==
    /\ poolClosing = "no" /\ \A c \in Commands : command[c].restart => command[c].terminate \/ Over(c)
    /\ poolClosing' = "waiting"
    /\ UNCHANGED <<command, process>>
PoolCloseReturns ==
    /\ poolClosing = "waiting" /\ \A c \in Commands : Over(c)
    /\ poolClosing' = "returned"
    /\ UNCHANGED <<command, process>>

CommandGoesOn(c) ==
    \/ StartFails(c) \/ Starts(c) \/ Exited(c) \/ Terminated(c) \/ Killed(c) \/ PauseOver(c)
CommandNext ==
    \/ \E c \in Commands : NewCmd(c) \/ Close(c) \/ CommandGoesOn(c) \/ PauseTerminated(c) \/ ProcessExits(c)
    \/ PoolClose \/ PoolCloseReturns

-----------------------------------------------------------------------------
CommandTypeOK ==
    /\ command \in [Commands -> [at : {"new", "starting", "running", "killing", "pausing", "ended"},
                                 restart : BOOLEAN, terminate : BOOLEAN]]
    /\ process \in [Commands -> {"none", "running", "exited"}]
    /\ poolClosing \in {"no", "waiting", "returned"}

(* No process survives its command, or the pool.                           *)
NoProcessLeft ==
    /\ \A c \in Commands : Over(c) => process[c] = "none"
    /\ poolClosing = "returned" => \A c \in Commands : process[c] = "none"
=============================================================================
