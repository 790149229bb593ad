------------------------------- MODULE Tunnel -------------------------------
(***************************************************************************)
(* core/tunnel.py: `open_tunnel` around the loop of a run, with the ssh    *)
(* process it forks, the kernel that takes the process down with a parent  *)
(* that died, and what the network does to both.                           *)
(*                                                                         *)
(* Time is abstract: wherever the code waits with a timeout, the awaited   *)
(* event and the timeout are both possible.                                *)
(***************************************************************************)
EXTENDS Integers

CONSTANTS
    SourceDbs,          \* the SOURCE_DB sections explored
    MaxTunnelFaults   \* bound: deaths of ssh connections and of parents

SourceDb == [mode: {"direct", "ssh", "auto"}, host: BOOLEAN, ssh: BOOLEAN]

ASSUME TunnelAssumption == SourceDbs \subseteq SourceDb /\ MaxTunnelFaults \in Nat

VARIABLES
    source,     \* SOURCE_DB: the mode, the host, the ssh_*
    tunnel,     \* the step of the context manager
    ssh,        \* the ssh process
    armed,      \* it has asked for a signal when its parent dies
    signal,     \* the signal it has been sent
    listener,   \* somebody listens on the local port
    address,    \* TunnelAddress.mode that was handed over
    leftover,   \* what kinds of ssh processes nobody waits for any more
    tfaults

tunnelVars == <<source, tunnel, ssh, armed, signal, listener, address, leftover, tfaults>>

Alive == {"forked", "starting", "listening", "deaf"}

TunnelTypeOK ==
    /\ source \in SourceDbs
    /\ tunnel \in {"closed", "enter", "spawn", "wait", "drain", "drainkill",
                   "open", "term", "termwait", "termkill", "failed"}
    /\ ssh \in {"none", "zombie", "reaped"} \cup Alive
    /\ armed \in BOOLEAN
    /\ signal \in {"none", "term", "kill"}
    /\ listener \in BOOLEAN
    /\ address \in {"none", "direct", "ssh"}
    /\ leftover \subseteq {"dying", "deaf", "orphan"}
    /\ tfaults \in 0..MaxTunnelFaults

TunnelInit ==
    /\ source \in SourceDbs
    /\ tunnel = "closed"
    /\ ssh = "none" /\ armed = FALSE /\ signal = "none" /\ listener = FALSE
    /\ address = "none"
    /\ leftover = {}
    /\ tfaults = 0

-----------------------------------------------------------------------------
(* Opening.                                                                *)

HandOver(kind) == tunnel' = "open" /\ address' = kind

(* The chosen way is taken without a probe; auto probes a host it has.     *)
Direct ==
    /\ tunnel = "enter"
    /\ source.host /\ source.mode \in {"direct", "auto"}
    /\ HandOver("direct")
    /\ UNCHANGED <<source, armed, ssh, signal, listener, leftover, tfaults>>

(* Not reached, or not tried: the ssh process is forked.                   *)
Fork ==
    /\ tunnel = "enter"
    /\ source.mode # "direct" /\ source.ssh
    /\ tunnel' = "spawn"
    /\ ssh' = "forked" /\ armed' = FALSE /\ signal' = "none"
    /\ UNCHANGED <<source, listener, address, leftover, tfaults>>

(* Popen raises: there is no ssh, or no process to be had.                 *)
ForkFails ==
    /\ tunnel = "enter"
    /\ source.mode # "direct" /\ source.ssh
    /\ tunnel' = "failed"
    /\ UNCHANGED <<source, armed, ssh, signal, listener, address, leftover, tfaults>>

(* ValueError: nothing to connect with.                                    *)
NoWayIn ==
    /\ tunnel = "enter"
    /\ IF source.mode = "direct" THEN ~source.host ELSE ~source.ssh
    /\ tunnel' = "failed"
    /\ UNCHANGED <<source, armed, ssh, signal, listener, address, leftover, tfaults>>

(* Mutant of Exec: os.setsid alone.                                        *)
ExecUnarmed ==
    /\ ssh = "forked"
    /\ ssh' = "starting" /\ tunnel' = "wait"
    /\ UNCHANGED <<source, armed, signal, listener, address, leftover, tfaults>>

(* ssh_tunnel_preexec (a session of its own, and PR_SET_PDEATHSIG) and     *)
(* exec, which is when Popen returns in the parent.                        *)
Exec ==
    /\ ssh = "forked"
    /\ ssh' = "starting" /\ armed' = TRUE /\ tunnel' = "wait"
    /\ UNCHANGED <<source, signal, listener, address, leftover, tfaults>>

(* Mutant of PortTimeout: only a process that is gone ends the wait.       *)
PortTimeoutGone ==
    /\ tunnel = "wait" /\ ssh \notin Alive
    /\ tunnel' = "drain"
    /\ UNCHANGED <<source, armed, ssh, signal, listener, address, leftover, tfaults>>

(* Mutant of PortAnswers: the address is handed over without waiting.      *)
PortNotAwaited ==
    /\ tunnel = "wait"
    /\ HandOver("ssh")
    /\ UNCHANGED <<source, armed, ssh, signal, listener, leftover, tfaults>>

(* wait_for_port                                                           *)
PortAnswers ==
    /\ tunnel = "wait" /\ listener
    /\ HandOver("ssh")
    /\ UNCHANGED <<source, armed, ssh, signal, listener, leftover, tfaults>>

(* The timeout, and the terminate() of _drain_stderr.                      *)
PortTimeout ==
    /\ tunnel = "wait"
    /\ tunnel' = "drain"
    /\ signal' = IF ssh \in Alive THEN "term" ELSE signal
    /\ UNCHANGED <<source, armed, ssh, listener, address, leftover, tfaults>>

(* communicate() reaps the process.                                        *)
Drained ==
    /\ tunnel \in {"drain", "drainkill"} /\ ssh = "zombie"
    /\ tunnel' = "term" /\ ssh' = "reaped"
    /\ UNCHANGED <<source, armed, signal, listener, address, leftover, tfaults>>

(* It does not exit within five seconds, after SIGTERM and after SIGKILL.  *)
DrainTimeout ==
    /\ \/ tunnel = "drain" /\ tunnel' = "drainkill" /\ signal' = "kill"
       \/ tunnel = "drainkill" /\ tunnel' = "term" /\ UNCHANGED signal
    /\ UNCHANGED <<source, armed, ssh, listener, address, leftover, tfaults>>

-----------------------------------------------------------------------------
(* Leaving: the `finally` of _open_ssh_tunnel.                             *)

(* The block is left, normally or by an exception.                         *)
LeaveBlock ==
    /\ tunnel = "open"
    /\ IF address = "ssh" THEN tunnel' = "term" /\ UNCHANGED address
                          ELSE tunnel' = "closed" /\ address' = "none"
    /\ UNCHANGED <<source, armed, ssh, signal, listener, leftover, tfaults>>

(* The context manager is done: the RuntimeError goes on if no address has *)
(* been handed over.                                                       *)
Close ==
    /\ tunnel' = IF address = "none" THEN "failed" ELSE "closed"
    /\ address' = "none"
    /\ ssh' = "none" /\ armed' = FALSE /\ signal' = "none" /\ listener' = FALSE

(* SIGTERM to the group of a process that is still there.                  *)
Terminate ==
    /\ tunnel = "term"
    /\ tunnel' = "termwait"
    /\ signal' = IF ssh \in Alive /\ signal # "kill" THEN "term" ELSE signal
    /\ UNCHANGED <<source, armed, ssh, listener, address, leftover, tfaults>>

(* proc.wait() returns.                                                    *)
Terminated ==
    /\ tunnel \in {"termwait", "termkill"} /\ ssh \in {"zombie", "reaped"}
    /\ Close
    /\ UNCHANGED <<source, leftover, tfaults>>

(* A process that outlives SIGTERM for five seconds gets SIGKILL; one that *)
(* outlives this too is logged and left.                                   *)
TerminateTimeout ==
    /\ ssh \in Alive
    /\ \/ /\ tunnel = "termwait"
          /\ tunnel' = "termkill" /\ signal' = "kill"
          /\ UNCHANGED <<ssh, armed, listener, address, leftover>>
       \/ /\ tunnel = "termkill"
          /\ leftover' = leftover \cup {"dying"}
          /\ Close
    /\ UNCHANGED <<source, tfaults>>

-----------------------------------------------------------------------------
(* The environment: ssh, the network, the kernel.                          *)

(* ssh logs in and binds the port.                                         *)
SshListens ==
    /\ ssh = "starting"
    /\ ssh' = "listening" /\ listener' = TRUE
    /\ UNCHANGED <<source, armed, tunnel, signal, address, leftover, tfaults>>

(* It cannot log in and exits, or hangs.                                   *)
SshRefused ==
    /\ ssh = "starting"
    /\ ssh' \in {"zombie", "deaf"}
    /\ UNCHANGED <<source, armed, tunnel, signal, listener, address, leftover, tfaults>>

(* Its connection breaks under the run.                                    *)
SshBreaks ==
    /\ ssh = "listening" /\ tfaults < MaxTunnelFaults
    /\ ssh' = "zombie" /\ listener' = FALSE
    /\ tfaults' = tfaults + 1
    /\ UNCHANGED <<source, armed, tunnel, signal, address, leftover>>

(* It obeys a signal.                                                      *)
SshExits ==
    /\ ssh \in Alive /\ signal # "none"
    /\ ssh' = "zombie" /\ listener' = FALSE
    /\ UNCHANGED <<source, armed, tunnel, signal, address, leftover, tfaults>>

(* What becomes of an ssh process that is alive when its parent dies: the  *)
(* kernel sends SIGTERM if it has asked for it, which a process that hangs *)
(* may ignore.  One that has been sent SIGKILL dies.                       *)
Orphaned ==
    CASE signal = "kill" -> "dying"
      [] signal # "kill" /\ ~armed -> "orphan"
      [] signal # "kill" /\ armed /\ ssh = "deaf" -> "deaf"
      [] signal # "kill" /\ armed /\ ssh # "deaf" -> "dying"

(* The process of the run is killed, but not between the fork and the      *)
(* prctl.                                                                  *)
ParentDies ==
    /\ tunnel \notin {"closed", "spawn", "failed"} /\ tfaults < MaxTunnelFaults
    /\ leftover' = leftover \cup (IF ssh \in Alive THEN {Orphaned} ELSE {})
    /\ tunnel' = "closed"
    /\ ssh' = "none" /\ armed' = FALSE /\ signal' = "none"
    /\ listener' = FALSE /\ address' = "none"
    /\ tfaults' = tfaults + 1
    /\ UNCHANGED source

(* Killed or terminated it goes; a deaf one may go.                        *)
LeftoverDies(kind) ==
    /\ kind \in leftover
    /\ leftover' = leftover \ {kind}
    /\ UNCHANGED <<source, armed, tunnel, ssh, signal, listener, address, tfaults>>
=============================================================================
