------------------------------ MODULE BottomHalf ------------------------------
(***************************************************************************)
(* os_02/lab_09/src: tasklet/tasklet.c and workseq/workseq.c, two modules  *)
(* on the keyboard's shared interrupt line, loaded and unloaded while keys *)
(* are hit.  Both handlers read the scan code and leave the rest to a      *)
(* tasklet and to two works.                                               *)
(*                                                                         *)
(* External: the handlers of a line run one after the other, for one       *)
(* interrupt at a time; free_irq() waits for them; port 60h gives its byte *)
(* as often as it is read; a tasklet or a work that is pending is not made *)
(* pending twice, and stops being so when it begins; a single thread takes *)
(* the works in order; destroy_workqueue() first empties the queue; a      *)
(* handler that finds no tasklet, works, queue or module is an oops.       *)
(***************************************************************************)
EXTENDS Naturals, Sequences, Functions

CONSTANT Codes  \* the scan codes sent: bytes, 128 and up for a key let go

ASSUME CodesAssumption == Codes \subseteq 1..255

VARIABLES mod,      \* [module -> the last call of its init or exit]
          port,     \* the scan code in port 60h
          line,     \* the interrupt is requested, or what its handlers do next
          scancode, \* [module -> its global variable]
          tasklet,  \* [sched, disabled, step of the function]
          queue,    \* the works pending, in order
          worker,   \* the work that runs
          shown,    \* [who -> code and character last printed]
          oops

bhVars == <<mod, port, line, scancode, tasklet, queue, worker, shown, oops>>

Modules == {"tasklet", "workseq"}
Printers == {"tasklet", "fir", "sec"}
Nothing == [code |-> 0, char |-> 0]

BHInit == /\ mod = [m \in Modules |-> "out"]
          /\ port = 0 /\ line = "quiet"
          /\ scancode = [m \in Modules |-> 0]
          /\ tasklet = [sched |-> FALSE, disabled |-> FALSE, step |-> "idle"]
          /\ queue = <<>> /\ worker = "none"
          /\ shown = [p \in Printers |-> Nothing]
          /\ oops = FALSE

(* The rows of keys; a character is its key, "?" is 0.  The bit that says  *)
(* that the key was let go is taken off -- in workseq.c after the char has *)
(* been extended with its sign: bits above it stay (256 stands for them).  *)
Keys == 2..11 \cup 16..25 \cup 30..38 \cup 44..50 \cup {57, 28}

(* mutant: the rows are not bounded.                                       *)
get_ascii_unchecked(code) == IF code \in 128..255 THEN code - 128 ELSE code

get_ascii(code) == LET key == IF code \in 128..255 THEN code - 128 ELSE code
                   IN IF key \in Keys THEN key ELSE 0
Extended(code) == IF code < 128 THEN code ELSE 256 + code

-----------------------------------------------------------------------------
(* The line and its handlers.                                              *)
Key == /\ ~oops
       /\ port' \in Codes
       /\ line = "quiet" /\ line' = "requested"
       /\ UNCHANGED <<mod, scancode, tasklet, queue, worker, shown, oops>>

Registered(m) == mod[m] \notin {"out", "freed", "disabled", "killed"}

(* Enters the handlers in their order; a handler may come or go between    *)
(* two interrupts, not during one.                                         *)
Interrupt == /\ ~oops /\ line = "requested"
             /\ line' = IF Registered("tasklet") THEN "t_read"
                        ELSE IF Registered("workseq") THEN "w_read" ELSE "quiet"
             /\ UNCHANGED <<mod, port, scancode, tasklet, queue, worker, shown, oops>>

AfterTasklet == IF Registered("workseq") THEN "w_read" ELSE "quiet"

(* mutant: the tasklet is scheduled before the port is read.               *)
my_irq_handler_swapped ==
  \/ /\ ~oops /\ line = "t_read" /\ line' = "t_schedule"
     /\ tasklet' = [tasklet EXCEPT !.sched = TRUE]
     /\ UNCHANGED <<mod, port, scancode, queue, worker, shown, oops>>
  \/ /\ ~oops /\ line = "t_schedule" /\ line' = AfterTasklet
     /\ scancode' = [scancode EXCEPT !["tasklet"] = port]
     /\ UNCHANGED <<mod, port, tasklet, queue, worker, shown, oops>>

my_irq_handler ==
  \/ /\ ~oops /\ line = "t_read" /\ line' = "t_schedule"
     /\ scancode' = [scancode EXCEPT !["tasklet"] = port]
     /\ UNCHANGED <<mod, port, tasklet, queue, worker, shown, oops>>
  \/ /\ ~oops /\ line = "t_schedule" /\ line' = AfterTasklet
     /\ tasklet' = [tasklet EXCEPT !.sched = TRUE]
     /\ UNCHANGED <<mod, port, scancode, queue, worker, shown, oops>>

(* queue_work(): the work is put at the end unless it is pending.          *)
Queue(w) == IF w \in Range(queue) THEN UNCHANGED queue ELSE queue' = Append(queue, w)

HasQueue == mod["workseq"] \in {"works", "in", "flushed"}

handler ==
  \/ /\ ~oops /\ line = "w_read" /\ line' = "w_fir"
     /\ scancode' = [scancode EXCEPT !["workseq"] = port]
     /\ UNCHANGED <<mod, port, tasklet, queue, worker, shown, oops>>
  \/ /\ ~oops /\ line \in {"w_fir", "w_sec"}
     /\ IF HasQueue
        THEN /\ line' = IF line = "w_fir" THEN "w_sec" ELSE "quiet"
             /\ Queue(IF line = "w_fir" THEN "fir" ELSE "sec")
             /\ UNCHANGED oops
        ELSE oops' = TRUE /\ UNCHANGED <<line, queue>>
     /\ UNCHANGED <<mod, port, scancode, tasklet, worker, shown>>

-----------------------------------------------------------------------------
(* The deferred functions.                                                 *)
TaskletBegins == /\ ~oops /\ tasklet.sched /\ ~tasklet.disabled /\ tasklet.step = "idle"
                 /\ IF mod["tasklet"] = "irq"       \* not initialised yet
                    THEN oops' = TRUE /\ UNCHANGED tasklet
                    ELSE /\ tasklet' = [tasklet EXCEPT !.sched = FALSE, !.step = "test"]
                         /\ UNCHANGED oops
                 /\ UNCHANGED <<mod, port, line, scancode, queue, worker, shown>>

my_tasklet_function ==
  \/ /\ ~oops /\ tasklet.step = "test"
     /\ tasklet' = [tasklet EXCEPT !.step = IF scancode["tasklet"] < 103 THEN "print" ELSE "idle"]
     /\ UNCHANGED shown
     /\ UNCHANGED <<mod, port, line, scancode, queue, worker, oops>>
  \/ /\ ~oops /\ tasklet.step = "print"
     /\ tasklet' = [tasklet EXCEPT !.step = "idle"]
     /\ LET code == scancode["tasklet"]
        IN shown' = [shown EXCEPT !["tasklet"] = [code |-> code, char |-> get_ascii(code)]]
     /\ UNCHANGED <<mod, port, line, scancode, queue, worker, oops>>

WorkBegins == /\ ~oops /\ mod["workseq"] # "left"
              /\ worker = "none" /\ queue # <<>>
              /\ worker' = Head(queue) /\ queue' = Tail(queue)
              /\ UNCHANGED <<mod, port, line, scancode, tasklet, shown, oops>>

queue_function == /\ ~oops /\ mod["workseq"] # "left"
                  /\ worker # "none" /\ worker' = "none"
                  /\ LET code == scancode["workseq"]
                     IN shown' = [shown EXCEPT ![worker] =
                                    [code |-> code, char |-> get_ascii(Extended(code))]]
                  /\ UNCHANGED <<mod, port, line, scancode, tasklet, queue, oops>>

(* The work of a module that is no longer there.                           *)
Dangling == /\ ~oops /\ mod["workseq"] = "left"
            /\ queue # <<>> \/ worker # "none"
            /\ oops' = TRUE
            /\ UNCHANGED <<mod, port, line, scancode, tasklet, queue, worker, shown>>

-----------------------------------------------------------------------------
(* The modules.  free_irq() needs that no handler runs.                    *)
Call(m, from, to) == ~oops /\ mod[m] = from /\ mod' = [mod EXCEPT ![m] = to]
HandlersRest == line \in {"quiet", "requested"}
kernel == <<port, line, scancode, shown>>

(* request_irq() comes first in both; the variables are those of a new     *)
(* load.                                                                   *)
RequestIRQ(m) == /\ Call(m, "out", "irq") /\ HandlersRest
                 /\ scancode' = [scancode EXCEPT ![m] = 0]
                 /\ UNCHANGED <<port, line, shown, tasklet, queue, worker, oops>>

(* A tasklet that has been scheduled already is linked in a list.          *)
my_tasklet_init == /\ Call("tasklet", "irq", "in")
                   /\ oops' = tasklet.sched
                   /\ UNCHANGED <<kernel, tasklet, queue, worker>>

(* mutant: no tasklet_kill().                                              *)
my_tasklet_exit_no_kill ==
  \/ /\ Call("tasklet", "in", "freed") /\ HandlersRest
     /\ UNCHANGED <<kernel, tasklet, queue, worker, oops>>
  \/ /\ Call("tasklet", "freed", "out")
     /\ UNCHANGED <<kernel, tasklet, queue, worker, oops>>

(* tasklet_disable() waits for the function, tasklet_kill() until it is    *)
(* not scheduled -- for ever, if it was when it was disabled.  The second  *)
(* free_irq() names a device that was never registered and does nothing.   *)
my_tasklet_exit ==
  \/ /\ Call("tasklet", "in", "freed") /\ HandlersRest
     /\ UNCHANGED <<kernel, tasklet, queue, worker, oops>>
  \/ /\ Call("tasklet", "freed", "disabled") /\ tasklet.step = "idle"
     /\ tasklet' = [tasklet EXCEPT !.disabled = TRUE]
     /\ UNCHANGED <<kernel, queue, worker, oops>>
  \/ /\ Call("tasklet", "disabled", "killed") /\ ~tasklet.sched
     /\ UNCHANGED <<kernel, tasklet, queue, worker, oops>>
  \/ /\ Call("tasklet", "killed", "out")
     /\ tasklet' = [tasklet EXCEPT !.disabled = FALSE]
     /\ UNCHANGED <<kernel, queue, worker, oops>>

(* A failed proc_create() ends the load with the handler still registered. *)
work_queue_init ==
  /\ \/ Call("workseq", "irq", "queue")
     \/ Call("workseq", "irq", "out") /\ HandlersRest
     \/ Call("workseq", "queue", "works")
     \/ Call("workseq", "works", "in")
     \/ Call("workseq", "works", "left")
  /\ UNCHANGED <<kernel, tasklet, queue, worker, oops>>

(* The handler is the last to go but one.                                  *)
work_queue_exit ==
  /\ \/ Call("workseq", "in", "flushed") /\ queue = <<>> /\ worker = "none"
     \/ Call("workseq", "flushed", "destroyed") /\ queue = <<>> /\ worker = "none"
     \/ Call("workseq", "destroyed", "freed") /\ HandlersRest
     \/ Call("workseq", "freed", "out")
  /\ UNCHANGED <<kernel, tasklet, queue, worker, oops>>

Load == \/ \E m \in Modules : RequestIRQ(m)
        \/ my_tasklet_init \/ my_tasklet_exit \/ work_queue_init \/ work_queue_exit

Handlers == Interrupt \/ my_irq_handler \/ handler
Tasklet == TaskletBegins \/ my_tasklet_function
Worker == WorkBegins \/ queue_function \/ Dangling

BHNext == Key \/ Handlers \/ Tasklet \/ Worker \/ Load

BHSpec == BHInit /\ [][BHNext]_bhVars
BHFairSpec == /\ BHSpec
              /\ WF_bhVars(Handlers) /\ WF_bhVars(Tasklet) /\ WF_bhVars(Worker)

-----------------------------------------------------------------------------
BHTypeOK ==
  /\ mod \in [Modules -> {"out", "irq", "in", "freed", "disabled", "killed", "queue",
                          "works", "left", "flushed", "destroyed"}]
  /\ port \in Codes \cup {0}
  /\ line \in {"quiet", "requested", "t_read", "t_schedule", "w_read", "w_fir", "w_sec"}
  /\ scancode \in [Modules -> Codes \cup {0}]
  /\ tasklet \in [sched : BOOLEAN, disabled : BOOLEAN, step : {"idle", "test", "print"}]
  /\ worker \in {"none", "fir", "sec"}
  /\ queue \in {<<>>, <<"fir">>, <<"sec">>, <<"fir", "sec">>, <<"sec", "fir">>}
  /\ shown \in [Printers -> [code : Codes \cup {0}, char : Keys \cup {0}]]
  /\ oops \in BOOLEAN

(* What has been unloaded is called no more: no handler of it runs, its    *)
(* tasklet is neither scheduled nor running, none of its works is pending. *)
UnloadedIsQuiet ==
  /\ mod["tasklet"] = "out" => /\ line \notin {"t_read", "t_schedule"}
                               /\ ~tasklet.sched /\ tasklet.step = "idle"
  /\ mod["workseq"] \in {"freed", "out"} => /\ line \notin {"w_read", "w_fir", "w_sec"}
                                            /\ queue = <<>> /\ worker = "none"

(* Interrupts may be faster than the tasklet and the works, which then     *)
(* miss codes, but never the last one: when no key follows, each of them   *)
(* comes to print it (the tasklet, if it is below 103).                    *)
LastCodeShown ==
  \A k \in Codes :
     /\ <>[](scancode["tasklet"] = k /\ mod["tasklet"] = "in" /\ ~oops /\ k < 103) =>
           <>[](shown["tasklet"] = [code |-> k, char |-> get_ascii(k)])
     /\ <>[](scancode["workseq"] = k /\ mod["workseq"] = "in" /\ ~oops) =>
           \A w \in {"fir", "sec"} :
              <>[](shown[w] = [code |-> k, char |-> IF k < 128 THEN get_ascii(k) ELSE 0])
=============================================================================
