-------------------------- MODULE LifecycleProofs --------------------------
(***************************************************************************)
(* Theorems about the process's life, for every set of signals the         *)
(* environment may send, any number of them, and both kinds of signal().   *)
(***************************************************************************)
EXTENDS Lifecycle, SequenceTheorems, TLAPS

(* signals_config's table has one entry for each signal, with a handler that *)
(* ignores exactly the signals to be ignored.                                *)
LEMMA Table ==
  /\ Len(InstallTable) = 9
  /\ \A k \in 1 .. 9 : /\ InstallTable[k].sig \in Signals
                       /\ InstallTable[k].fn \in Handlers
                       /\ InstallTable[k].fn = "sig_ignore"
                            <=> InstallTable[k].sig \in IgnoredSignals
  /\ \A s \in Signals : \E k \in 1 .. 9 : InstallTable[k].sig = s
<1> USE DEF InstallTable, Entry, Signals, StopSignals, IgnoredSignals, Handlers
<1>1. Len(InstallTable) = 9
  OBVIOUS
<1>2. \A k \in 1 .. 9 : /\ InstallTable[k].sig \in Signals
                        /\ InstallTable[k].fn \in Handlers
                        /\ InstallTable[k].fn = "sig_ignore"
                             <=> InstallTable[k].sig \in IgnoredSignals
  OBVIOUS
<1>3. \A s \in Signals : \E k \in 1 .. 9 : InstallTable[k].sig = s
  <2>1. /\ InstallTable[1].sig = "SIGINT"  /\ InstallTable[2].sig = "SIGTERM"
        /\ InstallTable[3].sig = "SIGUSR1" /\ InstallTable[4].sig = "SIGQUIT"
        /\ InstallTable[5].sig = "SIGUSR2" /\ InstallTable[6].sig = "SIGCHLD"
        /\ InstallTable[7].sig = "SIGPIPE" /\ InstallTable[8].sig = "SIGALRM"
        /\ InstallTable[9].sig = "SIGHUP"
    OBVIOUS
  <2>2. Signals = {"SIGINT", "SIGTERM", "SIGUSR1", "SIGQUIT", "SIGUSR2", "SIGCHLD",
                   "SIGPIPE", "SIGALRM", "SIGHUP"}
    OBVIOUS
  <2> HIDE DEF InstallTable, Signals
  <2>3. QED
    BY <2>1, <2>2
<1>4. QED
  BY <1>1, <1>2, <1>3

(* The innermost frame and the stack below it. *)
LEMMA Stack ==
  ASSUME TypeOK, frames # <<>>
  PROVE  /\ Len(frames) \in Nat \ {0}
         /\ Top \in Frames
         /\ SubSeq(frames, 1, Len(frames) - 1) \in Seq(Frames)
         /\ Len(SubSeq(frames, 1, Len(frames) - 1)) = Len(frames) - 1
         /\ \A i \in 1 .. Len(frames) - 1 :
               SubSeq(frames, 1, Len(frames) - 1)[i] = frames[i]
<1>1. frames \in Seq(Frames)
  BY DEF TypeOK
<1>2. Len(frames) \in Nat \ {0} /\ Top \in Frames
  BY <1>1 DEF Top
<1> DEFINE rest == SubSeq(frames, 1, Len(frames) - 1)
<1>3. rest \in Seq(Frames) /\ \A i \in 1 .. Len(frames) - 1 : rest[i] = frames[i]
  BY <1>1, <1>2
<1>4. Len(rest) = Len(frames) - 1
  <2>1. Len(rest) = IF 1 <= Len(frames) - 1 THEN Len(frames) - 1 - 1 + 1 ELSE 0
    BY <1>1, <1>2, SubSeqProperties
  <2>2. \A n \in Nat \ {0} : (IF 1 <= n - 1 THEN n - 1 - 1 + 1 ELSE 0) = n - 1
    OBVIOUS
  <2>3. QED
    BY <1>2, <2>1, <2>2, Zenon
<1>5. QED
  BY <1>2, <1>3, <1>4, Zenon

-----------------------------------------------------------------------------
(* The variables keep their types. *)
THEOREM TypeCorrect == Spec => []TypeOK
<1>1. Init => TypeOK
  <2> SUFFICES ASSUME Init PROVE TypeOK
    OBVIOUS
  <2>1. sent \in 0 .. MaxSignals /\ installed \in 0 .. 9
    BY LifecycleAssumption DEF Init
  <2>2. disp \in [Signals -> Handlers \union {"default"}]
    BY DEF Init
  <2>3. done \in BOOLEAN
    BY Zenon DEF Init
  <2>4. frames \in Seq(Frames) /\ pending \subseteq Sendable /\ caught \subseteq Sendable
    BY DEF Init
  <2>5. QED
    BY <2>1, <2>2, <2>3, <2>4 DEF Init, TypeOK
<1>2. TypeOK /\ [Next]_vars => TypeOK'
  <2> SUFFICES ASSUME TypeOK, [Next]_vars
               PROVE  TypeOK'
    OBVIOUS
  <2> USE DEF TypeOK
  <2>1. CASE MainStep
    <3> USE DEF Main, Untouched
    <3>1. CASE ReadConfig \/ ConfigFails
      BY <3>1 DEF ReadConfig, ConfigFails
    <3>2. CASE SetCommand \/ ClearDone
      BY <3>2 DEF SetCommand, CommandGiven, ClearDone
    <3>3. CASE Install
      BY <3>3, Table DEF Install
    <3>4. CASE TestDone \/ Sleep \/ Destroy \/ Return
      BY <3>4 DEF TestDone, Sleep, Destroy, Return
    <3>5. QED
      BY <2>1, <3>1, <3>2, <3>3, <3>4 DEF MainStep
  <2>2. CASE HandlerLogs
    <3>1. frames \in Seq(Frames) /\ frames # <<>>
      BY <2>2 DEF HandlerLogs, Handling
    <3>2. frames' = [frames EXCEPT ![Len(frames)].at = "act"]
      BY <2>2 DEF HandlerLogs
    <3>3. [Top EXCEPT !.at = "act"] \in Frames
      BY <3>1, Stack DEF Frames
    <3>4. frames' = [frames EXCEPT ![Len(frames)] = [Top EXCEPT !.at = "act"]]
      BY <3>2 DEF Top
    <3>5. frames' \in Seq(Frames)
      BY <3>1, <3>3, <3>4
    <3>6. QED
      BY <2>2, <3>5 DEF HandlerLogs
  <2>3. CASE HandlerIgnores
    <3>1. frames' \in Seq(Frames)
      BY <2>3, Stack DEF HandlerIgnores, Handling, Pop
    <3>2. disp' \in [Signals -> Handlers \union {"default"}]
      BY <2>3 DEF HandlerIgnores, Reinstalled, Handlers
    <3>3. QED
      BY <2>3, <3>1, <3>2 DEF HandlerIgnores
  <2>4. CASE HandlerStops
    <3>1. frames' \in Seq(Frames)
      BY <2>4, Stack DEF HandlerStops, Handling, Pop
    <3>2. done' \in BOOLEAN
      BY <2>4 DEF HandlerStops
    <3>3. outcome' \in {outcome, "exit_minus_one"} /\ told' \in {told, "early", "in_loop"}
      BY <2>4 DEF HandlerStops
    <3>4. QED
      BY <2>4, <3>1, <3>2, <3>3 DEF HandlerStops
  <2>5. ASSUME NEW s \in Sendable, DeliverDefault(s)
        PROVE  TypeOK'
    BY <2>5 DEF DeliverDefault
  <2>6. ASSUME NEW s \in Sendable, DeliverHandler(s)
        PROVE  TypeOK'
    <3>1. s \in Signals /\ disp[s] \in Handlers
      BY <2>6, LifecycleAssumption DEF DeliverHandler
    <3>2. [sig |-> s, fn |-> disp[s], at |-> "log"] \in Frames
      BY <3>1 DEF Frames
    <3>3. frames' \in Seq(Frames)
      BY <2>6, <3>2 DEF DeliverHandler
    <3>4. disp' \in [Signals -> Handlers \union {"default"}]
      BY <2>6, <3>1 DEF DeliverHandler, AfterDelivery
    <3>5. QED
      BY <2>6, <3>3, <3>4 DEF DeliverHandler
  <2>7. ASSUME NEW s \in Sendable, Send(s)
        PROVE  TypeOK'
    BY <2>7, LifecycleAssumption DEF Send
  <2>8. CASE UNCHANGED vars
    BY <2>8 DEF vars
  <2>9. QED
    BY <2>1, <2>2, <2>3, <2>4, <2>5, <2>6, <2>7, <2>8 DEF Next, HandlerStep, Delivery
<1>3. QED
  BY <1>1, <1>2, PTL DEF Spec

-----------------------------------------------------------------------------
(* Until signals_config has set the command no handler is installed, so none  *)
(* is running; afterwards the command is main's.                              *)
CommandInv ==
  /\ pc \in {"config", "command"} => /\ frames = <<>>
                                     /\ \A s \in Signals : disp[s] = "default"
  /\ pc \notin {"config", "command"} => command_fn = "handle_lifecycle_command"
  /\ DefaultShutdownNeverRuns

(* The default command's exit(-1) is never reached. *)
THEOREM DefaultShutdownUnreachable == Spec => []DefaultShutdownNeverRuns
<1>1. Init => CommandInv
  BY DEF Init, CommandInv, DefaultShutdownNeverRuns
<1>2. TypeOK /\ CommandInv /\ [Next]_vars => CommandInv'
  <2> SUFFICES ASSUME TypeOK, CommandInv, [Next]_vars
               PROVE  CommandInv'
    OBVIOUS
  <2> USE DEF CommandInv, DefaultShutdownNeverRuns, Running
  <2>1. CASE MainStep
    <3> USE DEF Main, Untouched
    <3>1. CASE ReadConfig \/ ConfigFails
      BY <3>1 DEF ReadConfig, ConfigFails
    <3>2. CASE SetCommand \/ ClearDone \/ Install
      BY <3>2 DEF SetCommand, CommandGiven, ClearDone, Install
    <3>3. CASE TestDone \/ Sleep \/ Destroy \/ Return
      BY <3>3 DEF TestDone, Sleep, Destroy, Return
    <3>4. QED
      BY <2>1, <3>1, <3>2, <3>3 DEF MainStep
  <2>2. CASE HandlerStep
    <3>1. frames # <<>> /\ pc \notin {"config", "command"} /\ pc' = pc
      BY <2>2 DEF HandlerStep, HandlerLogs, HandlerIgnores, HandlerStops, Handling
    <3>2. outcome' # "exit_minus_one" /\ command_fn' = command_fn
      BY <2>2, <3>1
         DEF HandlerStep, HandlerLogs, HandlerIgnores, HandlerStops, Handling, CommandExits
    <3>3. QED
      BY <3>1, <3>2
  <2>3. ASSUME NEW s \in Sendable, DeliverDefault(s) \/ DeliverHandler(s) \/ Send(s)
        PROVE  CommandInv'
    <3>1. pc' = pc /\ command_fn' = command_fn /\ outcome' # "exit_minus_one"
      BY <2>3 DEF DeliverDefault, DeliverHandler, Send, Deliverable
    <3>2. pc \in {"config", "command"} => frames' = frames /\ disp' = disp
      BY <2>3, LifecycleAssumption DEF DeliverDefault, DeliverHandler, Send
    <3>3. QED
      BY <3>1, <3>2
  <2>4. CASE UNCHANGED vars
    BY <2>4 DEF vars
  <2>5. QED
    BY <2>1, <2>2, <2>3, <2>4 DEF Next, Delivery
<1>3. CommandInv => DefaultShutdownNeverRuns
  BY DEF CommandInv
<1>4. QED
  BY <1>1, <1>2, <1>3, TypeCorrect, PTL DEF Spec

-----------------------------------------------------------------------------
(* In the loop, done says that a command was carried out since it was cleared; *)
(* beyond the loop that has happened, and only the return follows the release. *)
ExitInv ==
  /\ InLoop /\ done => told = "in_loop"
  /\ pc \in {"destroy", "return"} => told = "in_loop"
  /\ pc = "return" => config = "freed"
  /\ outcome = "exit_zero" => pc = "return"

LEMMA ExitInvariant == Spec => []ExitInv
<1>1. Init => ExitInv
  BY DEF Init, ExitInv, InLoop
<1>2. ExitInv /\ [Next]_vars => ExitInv'
  <2> SUFFICES ASSUME ExitInv, [Next]_vars
               PROVE  ExitInv'
    OBVIOUS
  <2> USE DEF ExitInv, InLoop, Running
  <2>1. CASE MainStep
    BY <2>1 DEF MainStep, Main, Untouched, ReadConfig, ConfigFails, SetCommand, Install,
                ClearDone, TestDone, LoopExit, Sleep, Destroy, Return
  <2>2. CASE HandlerStep
    BY <2>2 DEF HandlerStep, HandlerLogs, HandlerIgnores, HandlerStops, Handling
  <2>3. ASSUME NEW s \in Sendable, DeliverDefault(s) \/ DeliverHandler(s) \/ Send(s)
        PROVE  ExitInv'
    BY <2>3 DEF DeliverDefault, DeliverHandler, Send, Deliverable
  <2>4. CASE UNCHANGED vars
    BY <2>4 DEF vars
  <2>5. QED
    BY <2>1, <2>2, <2>3, <2>4 DEF Next, Delivery
<1>3. QED
  BY <1>1, <1>2, PTL DEF Spec

(* An exit with 0 follows a command given in the loop and a full clean-up. *)
THEOREM ExitZeroAlwaysClean == Spec => []ExitZeroIsClean
<1>1. ExitInv => ExitZeroIsClean
  BY DEF ExitInv, ExitZeroIsClean
<1>2. QED
  BY <1>1, ExitInvariant, PTL

-----------------------------------------------------------------------------
(* The signals whose entry of the table is installed. *)
Installed == {InstallTable[k].sig : k \in 1 .. installed}
OnStack(s) == \E i \in 1 .. Len(frames) : frames[i].sig = s
Repeats(s) == IF s \in IgnoredSignals THEN OnStack(s) ELSE s \in caught

(* An installed signal is back at its default disposition only while a        *)
(* handler of it has not installed itself again or, for a stop signal, after  *)
(* its handler was started; with handlers that stay it never is.              *)
KillInv ==
  /\ Configured => installed = 9
  /\ \A i \in 1 .. Len(frames) :
        frames[i].fn = "sig_ignore" <=> frames[i].sig \in IgnoredSignals
  /\ \A s \in Signals : disp[s] # "default" =>
        (disp[s] = "sig_ignore" <=> s \in IgnoredSignals)
  /\ \A s \in Installed : disp[s] = "default" => OneShot /\ Repeats(s)
  /\ outcome = "killed" /\ Configured => OneShot /\ Repeats(killer)

LEMMA KillInductive == TypeOK /\ KillInv /\ [Next]_vars => KillInv'
<1> SUFFICES ASSUME TypeOK, KillInv, [Next]_vars
             PROVE  KillInv'
  OBVIOUS
<1> USE DEF KillInv, Running, Configured, Installed, OnStack, Repeats
<1>0. OneShot' = OneShot
  <2>1. libc' = libc
    BY DEF Next, vars, MainStep, Untouched, ReadConfig, ConfigFails, SetCommand, Install,
           ClearDone, TestDone, Sleep, Destroy, Return, HandlerStep, HandlerLogs,
           HandlerIgnores, HandlerStops, Delivery, DeliverDefault, DeliverHandler, Send
  <2>2. QED
    BY <2>1 DEF OneShot
<1> USE <1>0
<1>1. CASE MainStep
  <2> USE DEF Main, Untouched
  <2>1. CASE Install
    <3>1. /\ installed' = installed + 1 /\ installed' \in 1 .. 9 /\ pc = "install"
          /\ UNCHANGED <<frames, caught, killer, outcome, pc>>
      BY <2>1, Table DEF Install, TypeOK
    <3> DEFINE e == InstallTable[installed']
    <3>2. /\ e.sig \in Signals /\ e.fn \in Handlers
          /\ e.fn = "sig_ignore" <=> e.sig \in IgnoredSignals
      BY <3>1, Table
    <3>3. e.fn # "default"
      BY <3>2 DEF Handlers
    <3>4. /\ disp'[e.sig] = e.fn
          /\ \A s \in Signals : s # e.sig => disp'[s] = disp[s]
      BY <2>1, <3>2 DEF Install, TypeOK
    <3>5. Installed \subseteq Signals
      BY Table DEF TypeOK
    <3>6. Installed' \subseteq Installed \union {e.sig}
      <4>1. \A k \in 1 .. installed' : k \in 1 .. installed \/ k = installed'
        BY <3>1 DEF TypeOK
      <4>2. QED
        BY <4>1
    <3>7. QED
      BY <3>1, <3>2, <3>3, <3>4, <3>5, <3>6
  <2>2. CASE ReadConfig \/ ConfigFails \/ SetCommand
    BY <2>2 DEF ReadConfig, ConfigFails, SetCommand
  <2>3. CASE ClearDone
    BY <2>3, Table DEF ClearDone
  <2>4. CASE TestDone \/ Sleep \/ Destroy \/ Return
    BY <2>4 DEF TestDone, Sleep, Destroy, Return
  <2>5. QED
    BY <1>1, <2>1, <2>2, <2>3, <2>4 DEF MainStep
<1>2. CASE HandlerLogs
  <2>1. /\ Len(frames') = Len(frames)
        /\ \A i \in 1 .. Len(frames) : /\ frames'[i].sig = frames[i].sig
                                       /\ frames'[i].fn = frames[i].fn
    BY <1>2, Stack DEF HandlerLogs, TypeOK, Frames
  <2>2. QED
    BY <1>2, <2>1 DEF HandlerLogs, Handling
<1>3. CASE HandlerIgnores
  <2>1. /\ frames # <<>> /\ Top \in Frames /\ Top.fn = "sig_ignore" /\ outcome = "running"
        /\ UNCHANGED <<pc, installed, caught, killer, outcome>>
    BY <1>3, Stack DEF HandlerIgnores, Handling
  <2>2. Top.sig \in Signals /\ Top.sig \in IgnoredSignals
    BY <2>1, Stack DEF Frames, Top
  <2>3. /\ disp'[Top.sig] = "sig_ignore"
        /\ \A s \in Signals : s # Top.sig => disp'[s] = disp[s]
    BY <1>3, <2>2 DEF HandlerIgnores, Reinstalled, TypeOK
  <2>4. /\ Len(frames') = Len(frames) - 1 /\ Len(frames) \in Nat \ {0}
        /\ \A i \in 1 .. Len(frames) - 1 : frames'[i] = frames[i]
    BY <1>3, <2>1, Stack DEF HandlerIgnores, Pop
  <2>5. \A s \in Signals : OnStack(s) => OnStack(s)' \/ s = Top.sig
    BY <2>4 DEF Top
  <2>6. Installed' = Installed /\ Installed \subseteq Signals
    BY <2>1, Table DEF TypeOK
  <2>7. \A s \in Installed' : disp'[s] = "default" => OneShot /\ Repeats(s)'
    BY <2>1, <2>3, <2>5, <2>6
  <2>8. QED
    BY <2>1, <2>2, <2>3, <2>4, <2>7
<1>4. CASE HandlerStops
  <2>1. /\ frames # <<>> /\ Top.fn # "sig_ignore" /\ outcome = "running"
        /\ outcome' # "killed"
        /\ UNCHANGED <<pc, installed, disp, caught, killer>>
    BY <1>4 DEF HandlerStops, Handling
  <2>2. /\ Len(frames') = Len(frames) - 1 /\ Len(frames) \in Nat \ {0}
        /\ \A i \in 1 .. Len(frames) - 1 : frames'[i] = frames[i]
    BY <1>4, <2>1, Stack DEF HandlerStops, Pop
  <2>3. Top.sig \notin IgnoredSignals
    BY <2>1, <2>2 DEF Top
  <2>4. \A s \in IgnoredSignals : OnStack(s) => OnStack(s)'
    BY <2>2, <2>3 DEF Top
  <2>5. QED
    BY <2>1, <2>2, <2>4
<1>5. ASSUME NEW s \in Sendable, DeliverDefault(s)
      PROVE  KillInv'
  <2>1. /\ disp[s] = "default" /\ outcome = "running" /\ s \in Signals
        /\ outcome' = "killed" => killer' = s
        /\ UNCHANGED <<pc, installed, disp, frames, caught>>
    BY <1>5, LifecycleAssumption DEF DeliverDefault, Deliverable
  <2>2. installed = 9 => s \in Installed
    BY <2>1, Table
  <2>3. QED
    BY <2>1, <2>2
<1>6. ASSUME NEW s \in Sendable, DeliverHandler(s)
      PROVE  KillInv'
  <2> DEFINE f == [sig |-> s, fn |-> disp[s], at |-> "log"]
  <2>1. /\ disp[s] # "default" /\ outcome = "running" /\ s \in Signals
        /\ caught' = caught \union {s}
        /\ UNCHANGED <<pc, installed, killer, outcome>>
    BY <1>6, LifecycleAssumption DEF DeliverHandler, Deliverable
  <2>2. /\ Len(frames') = Len(frames) + 1 /\ Len(frames) \in Nat
        /\ frames'[Len(frames) + 1] = f
        /\ \A i \in 1 .. Len(frames) : frames'[i] = frames[i]
    BY <1>6 DEF DeliverHandler, TypeOK
  <2>3. OnStack(s)' /\ \A x \in Signals : OnStack(x) => OnStack(x)'
    BY <2>2
  <2>4. /\ \A x \in Signals : x # s => disp'[x] = disp[x]
        /\ disp'[s] = AfterDelivery(s)
    BY <1>6, <2>1 DEF DeliverHandler, TypeOK
  <2>5. Repeats(s)' /\ \A x \in Signals : Repeats(x) => Repeats(x)'
    BY <2>1, <2>3
  <2>6. Installed' = Installed /\ Installed \subseteq Signals
    BY <2>1, Table DEF TypeOK
  <2>7. \A i \in 1 .. Len(frames') :
           frames'[i].fn = "sig_ignore" <=> frames'[i].sig \in IgnoredSignals
    BY <2>1, <2>2
  <2>8. QED
    BY <2>1, <2>4, <2>5, <2>6, <2>7 DEF AfterDelivery
<1>7. ASSUME NEW s \in Sendable, Send(s)
      PROVE  KillInv'
  BY <1>7 DEF Send
<1>8. CASE UNCHANGED vars
  BY <1>8 DEF vars
<1>9. QED
  BY <1>1, <1>2, <1>3, <1>4, <1>5, <1>6, <1>7, <1>8 DEF Next, HandlerStep, Delivery

LEMMA KillInvariant == Spec => []KillInv
<1>1. Init => KillInv
  BY DEF Init, KillInv, Configured, Installed
<1>2. QED
  BY <1>1, TypeCorrect, KillInductive, PTL DEF Spec

(* After signals_config only a repeated signal kills. *)
THEOREM OnlyRepetitionKills == Spec => []KillNeedsRepetition
<1>1. TypeOK /\ KillInv => KillNeedsRepetition
  BY DEF TypeOK, KillInv, KillNeedsRepetition, Repeats, OnStack
<1>2. QED
  BY <1>1, TypeCorrect, KillInvariant, PTL

(* With handlers that stay, a configured process is killed by no signal. *)
THEOREM BsdSignalsNeverKill == Spec => []HandledSignalsNeverKill
<1>1. KillInv => HandledSignalsNeverKill
  BY DEF KillInv, HandledSignalsNeverKill
<1>2. QED
  BY <1>1, KillInvariant, PTL

-----------------------------------------------------------------------------
(* A single signal is sent, then pending, then handled, then perhaps told to  *)
(* main: never two of these at a time.                                        *)
SingleInv ==
  /\ sent = 0 => pending = {} /\ frames = <<>> /\ caught = {} /\ told = "no"
  /\ sent <= 1 => /\ \A s, u \in pending : s = u
                  /\ pending # {} => frames = <<>> /\ caught = {} /\ told = "no"
                  /\ told # "no" => frames = <<>>
                  /\ Len(frames) <= 1
  /\ SingleSignalIsGraceful

LEMMA SingleInductive ==
  TypeOK /\ KillInv /\ ExitInv /\ DefaultShutdownNeverRuns' /\ SingleInv /\ [Next]_vars
    => SingleInv'
<1> SUFFICES ASSUME TypeOK, KillInv, ExitInv, DefaultShutdownNeverRuns', SingleInv,
                    [Next]_vars
             PROVE  SingleInv'
  OBVIOUS
<1> USE DEF SingleInv, SingleSignalIsGraceful, Running, Configured
<1>0. sent \in Nat /\ Len(frames) \in Nat
  BY LifecycleAssumption DEF TypeOK
<1>1. CASE MainStep
  <2>1. UNCHANGED <<frames, pending, sent, told, caught>> /\ outcome = "running"
    BY <1>1 DEF MainStep, Main, Untouched, ReadConfig, ConfigFails, SetCommand, Install,
                ClearDone, TestDone, Sleep, Destroy, Return
  <2>2. outcome' \in {"running", "exit_zero"} \/ pc' = "config"
    BY <1>1, <2>1 DEF MainStep, Main, ReadConfig, ConfigFails, SetCommand, Install,
                      ClearDone, TestDone, Sleep, Destroy, Return
  <2>3. QED
    BY <2>1, <2>2
<1>2. CASE HandlerLogs
  <2>1. /\ frames # <<>> /\ Len(frames') = Len(frames)
        /\ UNCHANGED <<pc, pending, sent, told, caught>> /\ outcome = "running"
    BY <1>2, Stack DEF HandlerLogs, Handling, TypeOK, Frames
  <2>2. sent <= 1 => ~AllocatorBusy
    BY <1>0, <2>1 DEF ExitInv, AllocatorBusy
  <2>3. outcome' = outcome \/ AllocatorBusy
    BY <1>2 DEF HandlerLogs
  <2>4. QED
    BY <1>0, <2>1, <2>2, <2>3
<1>3. CASE HandlerIgnores \/ HandlerStops
  <2>1. /\ frames # <<>> /\ outcome = "running"
        /\ UNCHANGED <<pc, pending, sent, caught>>
        /\ told' = told \/ HandlerStops
        /\ outcome' \in {"running", "exit_minus_one"}
    BY <1>3 DEF HandlerIgnores, HandlerStops, Handling
  <2>2. Len(frames') = Len(frames) - 1 /\ frames' \in Seq(Frames) /\ Len(frames) # 0
    BY <1>3, <2>1, Stack DEF HandlerIgnores, HandlerStops, Pop
  <2>3. sent <= 1 => pending = {} /\ frames' = <<>>
    BY <1>0, <2>1, <2>2
  <2>4. Configured => outcome' = "running"
    BY <2>1 DEF DefaultShutdownNeverRuns
  <2>5. sent # 0
    BY <2>1
  <2>6. QED
    BY <1>0, <2>1, <2>2, <2>3, <2>4, <2>5
<1>4. ASSUME NEW s \in Sendable, DeliverDefault(s)
      PROVE  SingleInv'
  <2>1. /\ disp[s] = "default" /\ outcome = "running" /\ s \in Signals /\ s \in pending
        /\ pending' = pending \ {s}
        /\ UNCHANGED <<pc, installed, disp, frames, sent, told, caught>>
        /\ outcome' \in {"running", "killed"}
    BY <1>4, LifecycleAssumption DEF DeliverDefault, Deliverable
  <2>2. sent <= 1 => ~Configured
    <3>1. SUFFICES ASSUME sent <= 1, Configured PROVE FALSE
      OBVIOUS
    <3>2. frames = <<>> /\ caught = {}
      BY <2>1, <3>1
    <3>3. s \in Installed
      BY <2>1, <3>1, Table DEF KillInv, Installed
    <3>4. Repeats(s)
      BY <2>1, <3>3 DEF KillInv
    <3>5. QED
      BY <3>2, <3>4 DEF Repeats, OnStack
  <2>3. QED
    BY <1>0, <2>1, <2>2
<1>5. ASSUME NEW s \in Sendable, DeliverHandler(s)
      PROVE  SingleInv'
  <2>1. /\ s \in pending /\ pending' = pending \ {s} /\ outcome = "running"
        /\ UNCHANGED <<pc, sent, told, outcome>>
        /\ Len(frames') = Len(frames) + 1
    BY <1>5 DEF DeliverHandler, Deliverable, TypeOK
  <2>2. sent # 0
    BY <2>1
  <2>3. sent <= 1 => pending' = {} /\ told' = "no" /\ Len(frames') = 1
    BY <2>1
  <2>4. QED
    BY <1>0, <2>1, <2>2, <2>3
<1>6. ASSUME NEW s \in Sendable, Send(s)
      PROVE  SingleInv'
  BY <1>0, <1>6 DEF Send
<1>7. CASE UNCHANGED vars
  BY <1>7 DEF vars
<1>8. QED
  BY <1>1, <1>2, <1>3, <1>4, <1>5, <1>6, <1>7 DEF Next, HandlerStep, Delivery

LEMMA SingleInvariant == Spec => []SingleInv
<1>1. Init => SingleInv
  BY DEF Init, SingleInv, SingleSignalIsGraceful
<1>2. QED
  BY <1>1, TypeCorrect, KillInvariant, ExitInvariant, DefaultShutdownUnreachable,
     SingleInductive, PTL DEF Spec

(* One signal, at whatever moment, neither kills nor breaks a configured      *)
(* process.                                                                   *)
THEOREM SingleSignalAlwaysGraceful == Spec => []SingleSignalIsGraceful
<1>1. SingleInv => SingleSignalIsGraceful
  BY DEF SingleInv
<1>2. QED
  BY <1>1, SingleInvariant, PTL
=============================================================================
