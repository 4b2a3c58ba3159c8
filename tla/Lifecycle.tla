----------------------------- MODULE Lifecycle -----------------------------
(***************************************************************************)
(* The life of the agent's process: main (cli/main.c) and the signal       *)
(* handlers that interrupt it (cli/signals.c).  main and the handlers      *)
(* share the flag done; a handler interrupts main or another handler       *)
(* between any two steps, and the interrupted code goes on when it is over.*)
(*                                                                         *)
(* signals.c asks for strict POSIX (_POSIX_C_SOURCE, c_std=c99), for which *)
(* glibc's signal() is the System V one: a signal's handler runs once, its *)
(* disposition goes back to the default as it starts, and the signal stays *)
(* unblocked.  Other C libraries give the BSD one: the handler stays and   *)
(* its signal is blocked while it runs.  libc says which one the agent has.*)
(***************************************************************************)
EXTENDS Integers, Sequences

CONSTANTS
  Libcs,        \* the forms of signal() to consider
  Sendable,     \* the signals the environment sends
  MaxSignals    \* bound on how many it sends

(* signals_config's table, in the order of its calls of signal(). *)
Entry(s, h) == [sig |-> s, fn |-> h]
InstallTable_short ==
  << Entry("SIGINT", "sig_stop"), Entry("SIGTERM", "sig_term"),
     Entry("SIGUSR1", "sig_usr1"), Entry("SIGQUIT", "sig_stop"),
     Entry("SIGUSR2", "sig_ignore"), Entry("SIGCHLD", "sig_ignore"),
     Entry("SIGPIPE", "sig_ignore"), Entry("SIGALRM", "sig_ignore") >>
InstallTable ==
  << Entry("SIGINT", "sig_stop"), Entry("SIGTERM", "sig_term"),
     Entry("SIGUSR1", "sig_usr1"), Entry("SIGQUIT", "sig_stop"),
     Entry("SIGUSR2", "sig_ignore"), Entry("SIGCHLD", "sig_ignore"),
     Entry("SIGPIPE", "sig_ignore"), Entry("SIGALRM", "sig_ignore"),
     Entry("SIGHUP", "sig_ignore") >>

StopSignals    == {"SIGINT", "SIGTERM", "SIGUSR1", "SIGQUIT"}
IgnoredSignals == {"SIGUSR2", "SIGCHLD", "SIGPIPE", "SIGALRM", "SIGHUP"}
Signals        == StopSignals \union IgnoredSignals
Handlers       == {"sig_stop", "sig_term", "sig_usr1", "sig_ignore"}

ASSUME LifecycleAssumption == /\ Libcs \subseteq {"SystemV", "BSD"}
                              /\ Sendable \subseteq Signals
                              /\ MaxSignals \in Nat

VARIABLES
  libc,        \* the form of signal() the agent is linked with
  pc,          \* where main is
  installed,   \* how many entries of the table are installed
  done,        \* the flag main's loop waits for
  command_fn,  \* what the stop handlers call
  disp,        \* the disposition of each signal: "default" or its handler
  frames,      \* the handlers that are running, the innermost last
  pending,     \* the signals sent and not delivered
  sent,        \* how many were sent
  config,      \* main's config_t: none | held | freed
  outcome,     \* running, or how the process ended
  told,        \* history: a stop command set done: no | early | in_loop
  caught,      \* history: the signals a handler was started for
  killer       \* history: the signal whose default disposition killed

vars == <<libc, pc, installed, done, command_fn, disp, frames, pending, sent,
          config, outcome, told, caught, killer>>

Init == /\ libc \in Libcs
        /\ pc = "config"
        /\ installed = 0
        /\ done = FALSE
        /\ command_fn = "default_shutdown"
        /\ disp = [s \in Signals |-> "default"]
        /\ frames = <<>>
        /\ pending = {}
        /\ sent = 0
        /\ config = "none"
        /\ outcome = "running"
        /\ told = "no"
        /\ caught = {}
        /\ killer = "none"

Running == outcome = "running"

(* A handler is installed for one signal only; otherwise it stays. *)
OneShot == libc = "SystemV"

-----------------------------------------------------------------------------
(* main.  It moves only when no handler is running. *)
Main(at) == Running /\ frames = <<>> /\ pc = at
Untouched == UNCHANGED <<libc, frames, pending, sent, told, caught, killer>>

(* config_from_cli: without a configuration the program ends at once. *)
ReadConfig == /\ Main("config")
              /\ config' = "held"
              /\ pc' = "command"
              /\ Untouched
              /\ UNCHANGED <<installed, done, command_fn, disp, outcome>>

ConfigFails == /\ Main("config")
               /\ outcome' = "exit_minus_one"
               /\ Untouched
               /\ UNCHANGED <<pc, installed, done, command_fn, disp, config>>

(* signals_config: the command first, then one handler after the other. *)
CommandGiven_unchecked == "NULL"
CommandGiven_inverted == command_fn
CommandGiven == "handle_lifecycle_command"

SetCommand == /\ Main("command")
              /\ command_fn' = CommandGiven
              /\ pc' = "install"
              /\ Untouched
              /\ UNCHANGED <<installed, done, disp, config, outcome>>

Install == /\ Main("install")
           /\ installed < Len(InstallTable)
           /\ installed' = installed + 1
           /\ disp' = [disp EXCEPT ![InstallTable[installed'].sig] =
                                      InstallTable[installed'].fn]
           /\ Untouched
           /\ UNCHANGED <<pc, done, command_fn, config, outcome>>

ClearDone == /\ Main("install")
             /\ installed = Len(InstallTable)
             /\ done' = FALSE
             /\ pc' = "test"
             /\ Untouched
             /\ UNCHANGED <<installed, command_fn, disp, config, outcome>>

(* while (!done) sleep(1): the sleep ends by itself or with a handler. *)
LoopExit_inverted == ~done
LoopExit_never == FALSE
LoopExit == done

TestDone == /\ Main("test")
            /\ pc' = IF LoopExit THEN "destroy" ELSE "sleep"
            /\ Untouched
            /\ UNCHANGED <<installed, done, command_fn, disp, config, outcome>>

Sleep == /\ Main("sleep")
         /\ pc' = "test"
         /\ Untouched
         /\ UNCHANGED <<installed, done, command_fn, disp, config, outcome>>

Destroy == /\ Main("destroy")
           /\ config' = "freed"
           /\ pc' = "return"
           /\ Untouched
           /\ UNCHANGED <<installed, done, command_fn, disp, outcome>>

Return == /\ Main("return")
          /\ outcome' = "exit_zero"
          /\ Untouched
          /\ UNCHANGED <<pc, installed, done, command_fn, disp, config>>

-----------------------------------------------------------------------------
(* The environment sends signals; one that is already pending is not queued  *)
(* again.  A signal is delivered between any two steps of the process.       *)
Send(s) == /\ Running
           /\ sent < MaxSignals
           /\ s \notin pending
           /\ pending' = pending \union {s}
           /\ sent' = sent + 1
           /\ UNCHANGED <<libc, pc, installed, done, command_fn, disp, frames, config,
                          outcome, told, caught, killer>>

Blocked(s) == ~OneShot /\ \E i \in DOMAIN frames : frames[i].sig = s

Deliverable(s) == Running /\ s \in pending /\ ~Blocked(s)

(* The default disposition kills, but for SIGCHLD. *)
DeliverDefault(s) ==
  /\ Deliverable(s)
  /\ disp[s] = "default"
  /\ pending' = pending \ {s}
  /\ IF s = "SIGCHLD" THEN UNCHANGED <<outcome, killer>>
                      ELSE outcome' = "killed" /\ killer' = s
  /\ UNCHANGED <<libc, pc, installed, done, command_fn, disp, frames, sent, config,
                 told, caught>>

AfterDelivery(s) == IF OneShot THEN "default" ELSE disp[s]

DeliverHandler(s) ==
  /\ Deliverable(s)
  /\ disp[s] # "default"
  /\ pending' = pending \ {s}
  /\ disp' = [disp EXCEPT ![s] = AfterDelivery(s)]
  /\ frames' = Append(frames, [sig |-> s, fn |-> disp[s], at |-> "log"])
  /\ caught' = caught \union {s}
  /\ UNCHANGED <<libc, pc, installed, done, command_fn, sent, config, outcome, told, killer>>

-----------------------------------------------------------------------------
(* The innermost handler. *)
Top == frames[Len(frames)]
Handling(at) == Running /\ frames # <<>> /\ Top.at = at
Pop == frames' = SubSeq(frames, 1, Len(frames) - 1)

(* The allocator is in the middle of a call of the interrupted code: another *)
(* handler's logging, or config_destroy.                                     *)
AllocatorBusy == \/ pc = "destroy"
                 \/ \E i \in 1 .. Len(frames) - 1 : frames[i].at = "log"

(* Logging formats into allocated memory.  Inside an interrupted call of the *)
(* allocator that is undefined: it goes well, or the process is broken.      *)
HandlerLogs == /\ Handling("log")
               /\ \/ UNCHANGED outcome
                  \/ AllocatorBusy /\ outcome' = "broken"
               /\ frames' = [frames EXCEPT ![Len(frames)].at = "act"]
               /\ UNCHANGED <<libc, pc, installed, done, command_fn, disp, pending, sent,
                              config, told, caught, killer>>

Reinstalled_forgotten == disp
Reinstalled == [disp EXCEPT ![Top.sig] = "sig_ignore"]

(* sig_ignore installs itself again and returns. *)
HandlerIgnores == /\ Handling("act")
                  /\ Top.fn = "sig_ignore"
                  /\ disp' = Reinstalled
                  /\ Pop
                  /\ UNCHANGED <<libc, pc, installed, done, command_fn, pending, sent,
                                 config, outcome, told, caught, killer>>

(* sig_stop, sig_term and sig_usr1 run the command: done = true, or exit(-1) *)
(* for the default command.  The event they pass is not looked at.           *)
InLoop == pc \in {"test", "sleep", "destroy", "return"}

CommandExits_always == TRUE
CommandExits == command_fn = "default_shutdown"

HandlerStops == /\ Handling("act")
                /\ Top.fn # "sig_ignore"
                /\ IF CommandExits
                     THEN outcome' = "exit_minus_one" /\ UNCHANGED <<done, told>>
                     ELSE /\ done' = TRUE
                          /\ told' = IF InLoop THEN "in_loop" ELSE "early"
                          /\ UNCHANGED outcome
                /\ Pop
                /\ UNCHANGED <<libc, pc, installed, command_fn, disp, pending, sent,
                               config, caught, killer>>

-----------------------------------------------------------------------------
MainStep == \/ ReadConfig \/ ConfigFails \/ SetCommand \/ Install \/ ClearDone
            \/ TestDone \/ Sleep \/ Destroy \/ Return

HandlerStep == HandlerLogs \/ HandlerIgnores \/ HandlerStops

Delivery == \E s \in Sendable : DeliverDefault(s) \/ DeliverHandler(s)

Next == \/ MainStep
        \/ HandlerStep
        \/ Delivery
        \/ \E s \in Sendable : Send(s)

Spec == Init /\ [][Next]_vars

(* The kernel runs the process and delivers what it is sent; nothing obliges *)
(* anybody to send a signal.                                                 *)
FairSpec == /\ Spec
            /\ WF_vars(MainStep)
            /\ WF_vars(HandlerStep)
            /\ WF_vars(Delivery)

-----------------------------------------------------------------------------
Frames == [sig : Signals, fn : Handlers, at : {"log", "act"}]

(* Every variable stays in its type. *)
TypeOK ==
  /\ libc \in Libcs
  /\ pc \in {"config", "command", "install", "test", "sleep", "destroy", "return"}
  /\ installed \in 0 .. 9
  /\ done \in BOOLEAN
  /\ command_fn \in {"default_shutdown", "handle_lifecycle_command"}
  /\ disp \in [Signals -> Handlers \union {"default"}]
  /\ frames \in Seq(Frames)
  /\ pending \subseteq Sendable
  /\ sent \in 0 .. MaxSignals
  /\ config \in {"none", "held", "freed"}
  /\ outcome \in {"running", "exit_zero", "exit_minus_one", "killed", "broken"}
  /\ told \in {"no", "early", "in_loop"}
  /\ caught \subseteq Sendable
  /\ killer \in Sendable \union {"none"}

Configured == pc \notin {"config", "command", "install"}

(* The program ends with 0 only because a command told it to after the loop   *)
(* began, and only with its configuration released (main's loop and clean-up).*)
ExitZeroIsClean == outcome = "exit_zero" => told = "in_loop" /\ config = "freed"

(* The other way out, -1, is the missing configuration alone: no handler ever *)
(* finds the default command, because signals_config sets the command before  *)
(* it installs the first handler.                                             *)
DefaultShutdownNeverRuns == outcome = "exit_minus_one" => pc = "config"

(* Once signals_config is over, the first signal of a kind does not kill: a   *)
(* stop signal kills only as a repetition, an ignored one only while the      *)
(* handler of an earlier one has not installed itself again.                  *)
KillNeedsRepetition ==
  outcome = "killed" /\ Configured =>
    IF killer \in IgnoredSignals
      THEN \E i \in DOMAIN frames : frames[i].sig = killer
      ELSE killer \in caught

(* One signal of any kind, whenever it comes, leaves a configured process      *)
(* running or ends it through its clean-up: it is neither killed nor broken,  *)
(* nor does it leave with an error.                                           *)
SingleSignalIsGraceful ==
  sent <= 1 /\ Configured => outcome \in {"running", "exit_zero"}

(* With handlers that stay, no signal of the table kills a configured process.*)
HandledSignalsNeverKill == Configured /\ ~OneShot => outcome # "killed"

(* A stop command that is carried out after done was cleared is never lost:   *)
(* the program does not go on (it may still be killed or broken by a further  *)
(* signal before its clean-up is over).                                       *)
StopInLoopEndsProgram == (told = "in_loop") ~> ~Running

(* signals.h says the handlers tell the program what the system wants: a stop *)
(* command carried out at any time would then end the program.                *)
EveryStopEndsProgram == (told # "no") ~> ~Running

(* sig_ignore logs that it ignores the signal: an ignored signal would then   *)
(* never end a configured process.                                            *)
IgnoredSignalsSurvived ==
  outcome = "killed" /\ Configured => killer \notin IgnoredSignals
=============================================================================
