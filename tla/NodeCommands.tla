---------------------------- MODULE NodeCommands ----------------------------
(***************************************************************************)
(* What a node does with the configurations and triggers it is sent: the   *)
(* command dispatcher (api_client.c), which runs in the task of the        *)
(* WebSocket client, the buzzer (buzzer.c), whose effects run in tasks of  *)
(* their own, and the task of the LED (led_indicator.c).                   *)
(*                                                                         *)
(* Nothing is locked, and tasks preempt each other between any two steps:  *)
(* the flag is_on, the hardware's new duty and the duty in use can come    *)
(* from different tasks, and the LED's countdown is a read and a write.    *)
(* Delays take any time, frequencies and the LED's colours are left out.   *)
(***************************************************************************)
EXTENDS Integers, Sequences

CONSTANTS Effects,        (* the values of buzzer_mode                         *)
          Beeps,          (* effect -> how often it switches on and off        *)
          Blocking,       (* effects that play in the caller's task: chirp     *)
          Messages,       (* messages from the backend: [volume, state, mode,  *)
                          (* identify]; a state is "on", "off" or no Boolean   *)
          IdentifyTicks,  (* g_identify_ticks of an identify: 50               *)
          MaxTasks,       (* bound: effect tasks there is memory for           *)
          MaxMessages     (* bound: messages                                   *)

NoMode   == "none"
Startup  == "chirp"       (* app_main() plays it before it connects            *)
NotBool  == "other"

ASSUME CommandsAssumption ==
  /\ Beeps \in [Effects -> Nat \ {0}]
  /\ Startup \in Effects /\ NoMode \notin Effects
  /\ Messages \subseteq [volume : Int, state : {"on", "off", NotBool},
                         mode : Effects \cup {NoMode}, identify : BOOLEAN]
  /\ IdentifyTicks \in Nat \ {0} /\ {MaxTasks, MaxMessages} \subseteq Nat

Dispatcher == 0           (* the WebSocket client's task, and app_main() before *)
Tasks   == 1 .. MaxTasks
Threads == {Dispatcher} \cup Tasks

VARIABLES
  master,         (* g_is_master_node: only the master has a buzzer             *)
  is_on,          (* buzzer.c                                                   *)
  current_duty,   (* buzzer.c                                                   *)
  newDuty,        (* LEDC: what ledc_set_duty() set                             *)
  duty,           (* LEDC: what ledc_update_duty() put in use                   *)
  call,           (* thread -> its call that sets the buzzer, see NoCall        *)
  message,        (* the message the dispatcher handles                         *)
  todo,           (* the commands of it that are still to handle                *)
  g_identify_ticks,
  ledRead,        (* the LED's task: ticks read and not yet written back, or 0  *)
  messages        (* counter of the bound                                       *)

buzzer == <<is_on, current_duty, newDuty, duty>>
led    == <<g_identify_ticks, ledRead>>
vars   == <<master, buzzer, call, message, todo, led, messages>>

(* A thread in buzzer_set_state(on) or at the end of buzzer_set_volume():  *)
(* `step' is what it does next, `left' how many calls it makes, this one   *)
(* included, turning the buzzer on and off in turn.                        *)
NoCall          == [step |-> "none", on |-> FALSE, left |-> 0, value |-> 0]
SetState(on)    == [step |-> "flag", on |-> on, left |-> 1, value |-> 0]
ApplyDuty       == [step |-> "load", on |-> TRUE, left |-> 1, value |-> 0]

(* Mutation: the last buzzer_set_state(false) is missing.                  *)
PlayUnended(e)  == [step |-> "flag", on |-> TRUE, left |-> 2 * Beeps[e] - 1, value |-> 0]

Play(e)         == [step |-> "flag", on |-> TRUE, left |-> 2 * Beeps[e], value |-> 0]

InCall(t) == call[t].step # "none"

(* Maps a volume of 0 .. 100 % to half of the 13 bit timer's range.        *)
DutyOf(v) == (4095 * v) \div 100

(* Mutation: triggers and states before configurations.                    *)
StateFirst == <<"state", "volume", "mode", "identify">>

(* The order of api_commands; `volume' is handled in two steps.            *)
CommandOrder == <<"volume", "state", "mode", "identify">>

Init ==
  /\ master \in BOOLEAN
  /\ is_on = FALSE /\ current_duty = 40
  /\ newDuty = 0 /\ duty = 0
  /\ call = [t \in Threads |-> IF master /\ t = Dispatcher THEN Play(Startup) ELSE NoCall]
  /\ message = [volume |-> 1, state |-> "off", mode |-> NoMode, identify |-> FALSE]
  /\ todo = <<>>
  /\ g_identify_ticks = 0 /\ ledRead = 0
  /\ messages = 0

-----------------------------------------------------------------------------
(* The buzzer, in whichever thread                                         *)

Goes(t, c) == call' = [call EXCEPT ![t] = c]

SetFlag(t) ==
  /\ call[t].step = "flag"
  /\ is_on' = call[t].on
  /\ Goes(t, [call[t] EXCEPT !.step = "load"])
  /\ UNCHANGED <<master, current_duty, newDuty, duty, message, todo, led, messages>>

LoadDuty(t) ==
  /\ call[t].step = "load"
  /\ Goes(t, [call[t] EXCEPT !.step = "set", !.value = IF call[t].on THEN current_duty ELSE 0])
  /\ UNCHANGED <<master, buzzer, message, todo, led, messages>>

SetDuty(t) ==
  /\ call[t].step = "set"
  /\ newDuty' = call[t].value
  /\ Goes(t, [call[t] EXCEPT !.step = "update"])
  /\ UNCHANGED <<master, is_on, current_duty, duty, message, todo, led, messages>>

(* After the last call a thread goes on, or ends if it was an effect's.    *)
AfterCall(c) ==
  IF c.left = 1 THEN NoCall
  ELSE [step |-> "flag", on |-> ~c.on, left |-> c.left - 1, value |-> 0]

UpdateDuty(t) ==
  /\ call[t].step = "update"
  /\ duty' = newDuty
  /\ Goes(t, AfterCall(call[t]))
  /\ UNCHANGED <<master, is_on, current_duty, newDuty, message, todo, led, messages>>

BuzzerStep(t) == SetFlag(t) \/ LoadDuty(t) \/ SetDuty(t) \/ UpdateDuty(t)

-----------------------------------------------------------------------------
(* The dispatcher                                                          *)

Receive(m) ==
  /\ messages < MaxMessages
  /\ messages' = messages + 1
  /\ todo = <<>> /\ ~InCall(Dispatcher)
  /\ message' = m
  /\ todo' = CommandOrder
  /\ UNCHANGED <<master, buzzer, call, led>>

Handles(command) == todo # <<>> /\ Head(todo) = command /\ ~InCall(Dispatcher)

(* Commands of the buzzer are for the master only.                         *)
Ignored(command) ==
  \/ command # "identify" /\ ~master
  \/ command = "volume" /\ message.volume \notin 0 .. 100
  \/ command = "state" /\ message.state = NotBool
  \/ command = "mode" /\ message.mode = NoMode
  \/ command = "identify" /\ ~message.identify

Ignore ==
  /\ \E command \in {"volume", "state", "mode", "identify"} :
       Handles(command) /\ Ignored(command)
  /\ todo' = Tail(todo)
  /\ UNCHANGED <<master, buzzer, call, message, led, messages>>

SetVolume ==
  /\ Handles("volume") /\ ~Ignored("volume")
  /\ current_duty' = DutyOf(message.volume)
  /\ todo' = [todo EXCEPT ![1] = "apply"]
  /\ UNCHANGED <<master, is_on, newDuty, duty, call, message, led, messages>>

(* The end of buzzer_set_volume(): is_on is read, and the duty set later.  *)
ApplyVolume ==
  /\ Handles("apply")
  /\ IF is_on THEN Goes(Dispatcher, ApplyDuty) ELSE UNCHANGED call
  /\ todo' = Tail(todo)
  /\ UNCHANGED <<master, buzzer, message, led, messages>>

SwitchBuzzer ==
  /\ Handles("state") /\ ~Ignored("state")
  /\ Goes(Dispatcher, SetState(message.state = "on"))
  /\ todo' = Tail(todo)
  /\ UNCHANGED <<master, buzzer, message, led, messages>>

(* An effect plays here or in a task of its own, if one can be created.    *)
PlayEffect ==
  /\ Handles("mode") /\ ~Ignored("mode")
  /\ IF message.mode \in Blocking THEN Goes(Dispatcher, Play(message.mode))
     ELSE \/ \E t \in Tasks : ~InCall(t) /\ Goes(t, Play(message.mode))
          \/ UNCHANGED call
  /\ todo' = Tail(todo)
  /\ UNCHANGED <<master, buzzer, message, led, messages>>

Identify ==
  /\ Handles("identify") /\ ~Ignored("identify")
  /\ g_identify_ticks' = IdentifyTicks
  /\ todo' = Tail(todo)
  /\ UNCHANGED <<master, buzzer, call, message, ledRead, messages>>

Dispatch == Ignore \/ SetVolume \/ ApplyVolume \/ SwitchBuzzer \/ PlayEffect \/ Identify

-----------------------------------------------------------------------------
(* The LED's task                                                          *)

(* A pass of the loop while there are ticks: the LED is set, and the ticks *)
(* are read to be decremented.                                             *)
Blink ==
  /\ ledRead = 0 /\ g_identify_ticks > 0
  /\ ledRead' = g_identify_ticks
  /\ UNCHANGED <<master, buzzer, call, message, todo, g_identify_ticks, messages>>

WriteTicks ==
  /\ ledRead > 0
  /\ g_identify_ticks' = ledRead - 1
  /\ ledRead' = 0
  /\ UNCHANGED <<master, buzzer, call, message, todo, messages>>

LedTask == Blink \/ WriteTicks

-----------------------------------------------------------------------------
Next ==
  \/ \E m \in Messages : Receive(m)
  \/ Dispatch
  \/ \E t \in Threads : BuzzerStep(t)
  \/ LedTask

Spec == Init /\ [][Next]_vars

(* Effects and the client's task have the same priority and take turns.    *)
FairSpec ==
  /\ Spec
  /\ WF_vars(Dispatch)
  /\ \A t \in Threads : WF_vars(BuzzerStep(t))

-----------------------------------------------------------------------------
TypeOK ==
  /\ {master, is_on} \subseteq BOOLEAN
  /\ {current_duty, newDuty, duty} \subseteq 0 .. 4095
  /\ call \in [Threads -> [step : {"none", "flag", "load", "set", "update"}, on : BOOLEAN,
                           left : Nat, value : 0 .. 4095]]
  /\ todo \in Seq({"volume", "apply", "state", "mode", "identify"})
  /\ g_identify_ticks \in 0 .. IdentifyTicks /\ ledRead \in 0 .. IdentifyTicks
  /\ messages \in 0 .. MaxMessages

AtRest == todo = <<>> /\ \A t \in Threads : ~InCall(t)

(* When no effect plays any more and the last message switched the buzzer  *)
(* off, it is silent: however effects, volume changes and switching were   *)
(* interleaved.  A volume change that turns it on again after an effect's  *)
(* end is undone because the same message goes on to switch it off.        *)
SilentAtRest == (AtRest /\ message.state = "off") => duty = 0 /\ ~is_on

(* A buzzer that sounds falls silent by itself, unless a message says that *)
(* it be on: no effect goes on for ever or is left on by another one.      *)
FallsSilent ==
  (duty > 0 /\ message.state = "off") ~> (duty = 0 \/ message.state # "off")
=============================================================================
