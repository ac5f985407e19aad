------------------------------- MODULE Daemon -------------------------------
(***************************************************************************)
(* os_02/lab_01/daemonise.c: several copies of the daemon started on one   *)
(* machine, the lock file they share, and the signals sent to them.  Only  *)
(* the child that daemonize() forks is modelled; it is one of Copies.      *)
(*                                                                         *)
(* External: the fcntl() lock, which belongs to a process and a file and   *)
(* is dropped when the process closes any descriptor of the file or ends;  *)
(* the disposition of signals (ignored, deadly or blocked and pending, a   *)
(* pending signal counting once); sigwait(), which takes any pending one.  *)
(***************************************************************************)
EXTENDS FiniteSets

CONSTANTS Copies,  \* the processes
          noPid    \* no process; as a content of the lock file, no number

ASSUME CopiesAssumption == noPid \notin Copies

Signals == {"SIGHUP", "SIGTERM", "other"}

VARIABLES pc,       \* [copy -> the call it makes next, or how it ended]
          lock,     \* the copy that holds the lock of LOCKFILE, or noPid
          pidfile,  \* the pid in LOCKFILE
          pending   \* [copy -> its blocked signals that wait for sigwait()]

daemonVars == <<pc, lock, pidfile, pending>>

Locked  == {"truncate", "write", "close"}       \* between fcntl() and close()
Serving == {"create", "serve"}                  \* every signal is blocked
Ignores == {"open", "lock", "default"} \cup Locked  \* SIGHUP is SIG_IGN
Ended   == {"exited", "refused", "failed", "killed"}
PC == {"started", "block"} \cup Ignores \cup Serving \cup Ended

DaemonInit == /\ pc = [p \in Copies |-> "started"]
              /\ lock = noPid
              /\ pidfile = noPid
              /\ pending = [p \in Copies |-> {}]

Alive(p) == pc[p] \notin Ended

(* The end of a process, for whatever reason, drops its lock.              *)
End(p, how) == /\ pc' = [pc EXCEPT ![p] = how]
               /\ lock' = IF lock = p THEN noPid ELSE lock
               /\ pending' = [pending EXCEPT ![p] = {}]

-----------------------------------------------------------------------------
(* A call that the program goes on after.                                  *)
Call(p, from, next) == pc[p] = from /\ pc' = [pc EXCEPT ![p] = next]

(* A call whose failure the program answers with exit(1).                  *)
Fails(p) == /\ pc[p] \in {"started", "open", "lock", "default", "block", "create",
                          "serve"}
            /\ End(p, "failed")
            /\ UNCHANGED pidfile

(* daemonize(): its last step that matters to the signals is l. 128.       *)
daemonize(p) == Call(p, "started", "open") /\ UNCHANGED <<lock, pidfile, pending>>

Open(p) == Call(p, "open", "lock") /\ UNCHANGED <<lock, pidfile, pending>>

(* mutant: the test of lockfile()'s result inverted.                       *)
lockfile_inverted(p) ==
  \/ /\ pc[p] = "lock"
     /\ lock = noPid
     /\ End(p, "refused") /\ UNCHANGED pidfile
  \/ /\ Call(p, "lock", "truncate")
     /\ lock # noPid
     /\ UNCHANGED <<lock, pidfile, pending>>

(* mutant: F_RDLCK, which any number of processes hold at once.            *)
lockfile_shared(p) ==
  /\ Call(p, "lock", "truncate")
  /\ lock' = p
  /\ UNCHANGED <<pidfile, pending>>

(* F_SETLK does not wait: EAGAIN makes already_running() return 1, and     *)
(* main exit(1).                                                           *)
lockfile(p) ==
  \/ /\ Call(p, "lock", "truncate")
     /\ lock = noPid
     /\ lock' = p
     /\ UNCHANGED <<pidfile, pending>>
  \/ /\ pc[p] = "lock"
     /\ lock # noPid
     /\ End(p, "refused") /\ UNCHANGED pidfile

(* The results of ftruncate() and write() are not looked at.               *)
Truncate(p) == /\ Call(p, "truncate", "write")
               /\ pidfile' \in {noPid, pidfile}
               /\ UNCHANGED <<lock, pending>>

Write(p) == /\ Call(p, "write", "close")
            /\ pidfile' \in {p, pidfile}
            /\ UNCHANGED <<lock, pending>>

Close(p) == /\ Call(p, "close", "default")
            /\ lock' = noPid
            /\ UNCHANGED <<pidfile, pending>>

RestoreSIGHUP(p) == Call(p, "default", "block") /\ UNCHANGED <<lock, pidfile, pending>>

Block(p) == Call(p, "block", "create") /\ UNCHANGED <<lock, pidfile, pending>>

CreateThread(p) == Call(p, "create", "serve") /\ UNCHANGED <<lock, pidfile, pending>>

main(p) == \/ daemonize(p) \/ Open(p) \/ lockfile(p) \/ Truncate(p) \/ Write(p)
           \/ Close(p) \/ RestoreSIGHUP(p) \/ Block(p) \/ CreateThread(p)

-----------------------------------------------------------------------------
(* mutant: SIGTERM is logged like the others.                              *)
thr_fn_logs(p) ==
  /\ pc[p] = "serve"
  /\ \E signo \in pending[p] :
        /\ pending' = [pending EXCEPT ![p] = @ \ {signo}]
        /\ UNCHANGED <<pc, lock>>
  /\ UNCHANGED pidfile

(* One turn of the loop of the signal thread.                              *)
thr_fn(p) ==
  /\ pc[p] = "serve"
  /\ \E signo \in pending[p] :
        IF signo = "SIGTERM"
        THEN End(p, "exited")
        ELSE /\ pending' = [pending EXCEPT ![p] = @ \ {signo}]
             /\ UNCHANGED <<pc, lock>>
  /\ UNCHANGED pidfile

(* mutant: every signal is kept, as if blocked from the start.             *)
Signal_keeps(p, signo) ==
  /\ Alive(p)
  /\ pending' = [pending EXCEPT ![p] = @ \cup {signo}]
  /\ UNCHANGED <<pc, lock, pidfile>>

(* A signal is sent to p: kept when blocked, dropped when ignored,         *)
(* otherwise deadly.                                                       *)
Signal(p, signo) ==
  /\ Alive(p)
  /\ ~(signo = "SIGHUP" /\ pc[p] \in Ignores)
  /\ IF pc[p] \in Serving
     THEN pending' = [pending EXCEPT ![p] = @ \cup {signo}] /\ UNCHANGED <<pc, lock>>
     ELSE End(p, "killed")
  /\ UNCHANGED pidfile

DaemonNext == \E p \in Copies : \/ main(p)
                                \/ thr_fn(p)
                                \/ Fails(p)
                                \/ \E signo \in Signals : Signal(p, signo)

DaemonSpec == DaemonInit /\ [][DaemonNext]_daemonVars

(* Both threads of each copy run; no signal and no failure is promised.    *)
DaemonFairSpec ==
  DaemonSpec /\ \A p \in Copies : WF_daemonVars(main(p)) /\ WF_daemonVars(thr_fn(p))

-----------------------------------------------------------------------------
DaemonTypeOK == /\ pc \in [Copies -> PC]
                /\ lock \in Copies \cup {noPid}
                /\ pidfile \in Copies \cup {noPid}
                /\ pending \in [Copies -> SUBSET Signals]
                /\ \A p \in Copies : pending[p] # {} => pc[p] \in Serving

(* Whatever kills the holder, the lock is held exactly while its holder    *)
(* rewrites the lock file, so two copies never rewrite it at once.         *)
LockGuardsFile == \A p \in Copies : pc[p] \in Locked <=> lock = p

(* The copies never all give way to each other: one that is refused met    *)
(* another that had the lock.                                              *)
NotAllRefused == Copies # {} => \E p \in Copies : pc[p] # "refused"

(* A daemon that blocked its signals obeys a SIGTERM, also one that came   *)
(* before the signal thread exists, unless other signals never stop coming *)
(* in front of it.                                                         *)
SIGTERMObeyed ==
  \A p \in Copies :
     <>[](pending[p] \subseteq {"SIGTERM"}) =>
        (pc[p] \in Serving /\ "SIGTERM" \in pending[p] ~> ~Alive(p))

(* What the comment before the call of already_running() says: "Make sure  *)
(* only one copy of the daemon is running."                                *)
OneCopy == \A p, q \in Copies : pc[p] \in Serving /\ pc[q] \in Serving => p = q
=============================================================================
