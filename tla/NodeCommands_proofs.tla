------------------------- MODULE NodeCommands_proofs -------------------------
(***************************************************************************)
(* The buzzer falls silent, for any effects, messages and number of tasks: *)
(* whatever was written to the flag, to the new duty or to the duty in use *)
(* by one thread, some thread will write again until the last one to write *)
(* writes silence.                                                         *)
(***************************************************************************)
EXTENDS NodeCommands, TLAPS

-----------------------------------------------------------------------------
(* The invariant                                                           *)

Duties == 0 .. 4095

Calls == [step : {"none", "flag", "load", "set", "update"}, on : BOOLEAN,
          left : Nat, value : Duties]

MessageOK ==
  message \in [volume : Int, state : {"on", "off", NotBool},
               mode : Effects \cup {NoMode}, identify : BOOLEAN]

(* The commands that are still to handle are the last ones of a message.   *)
BeforeState ==
  {<<"volume", "state", "mode", "identify">>, <<"apply", "state", "mode", "identify">>,
   <<"state", "mode", "identify">>}

BehindState == {<<"mode", "identify">>, <<"identify">>, <<>>}

Rests == BeforeState \cup BehindState

(* The last message switches the buzzer off and did so already.            *)
SwitchedOff == message.state = "off" /\ todo \in BehindState

(* A thread turns the buzzer on and off in turn and ends with off, except  *)
(* in a call that a message which is not "off" made, or that is made       *)
(* before the message is found to say "off".                               *)
EndsOff(t) == (call[t].left % 2 = 0) <=> call[t].on

CallOK(t) ==
  /\ InCall(t) => call[t].left >= 1
  /\ (InCall(t) /\ ~EndsOff(t)) => t = Dispatcher /\ ~SwitchedOff
  /\ (InCall(t) /\ ~call[t].on /\ call[t].step \in {"set", "update"}) => call[t].value = 0

(* Who will still clear the flag, and who will still set the new duty to 0.*)
WillClear(t)   == InCall(t) /\ (call[t].left > 1 \/ (~call[t].on /\ call[t].step = "flag"))
WillSetZero(t) == InCall(t) /\ (call[t].left > 1 \/ (~call[t].on /\ call[t].step # "update"))

Silences ==
  SwitchedOff =>
    /\ is_on => \E t \in Threads : WillClear(t)
    /\ newDuty # 0 => \E t \in Threads : WillSetZero(t)
    /\ duty # 0 => \E t \in Threads : InCall(t)

(* A listener's buzzer is never touched.                                   *)
ListenerIsSilent ==
  ~master => ~is_on /\ newDuty = 0 /\ duty = 0 /\ \A t \in Threads : ~InCall(t)

BuzzerInv == (\A t \in Threads : CallOK(t)) /\ Silences /\ ListenerIsSilent

IInv == TypeOK /\ MessageOK /\ todo \in BeforeState \cup BehindState /\ BuzzerInv

(* Which of the parts each step can disturb: the types of the buzzer, of   *)
(* the message at hand, and of the rest.                                   *)
BuzzerTypes ==
  /\ {master, is_on} \subseteq BOOLEAN
  /\ {current_duty, newDuty, duty} \subseteq Duties
  /\ call \in [Threads -> Calls]

OtherTypes ==
  /\ g_identify_ticks \in 0 .. IdentifyTicks /\ ledRead \in 0 .. IdentifyTicks
  /\ messages \in 0 .. MaxMessages

-----------------------------------------------------------------------------
(* The type invariant is that of its parts.                                *)
LEMMA Types ==
  TypeOK <=> /\ BuzzerTypes /\ OtherTypes
             /\ todo \in Seq({"volume", "apply", "state", "mode", "identify"})
BY PTL DEF TypeOK, BuzzerTypes, OtherTypes, Calls, Duties

(* Which commands are left when the first one is handled.                  *)
LEMMA Rest ==
  ASSUME todo \in BeforeState \cup BehindState, todo # <<>>
  PROVE  /\ Head(todo) \in {"volume", "apply"} =>
              /\ todo \in BeforeState /\ Tail(todo) = <<"state", "mode", "identify">>
         /\ Head(todo) = "volume" =>
              [todo EXCEPT ![1] = "apply"] = <<"apply", "state", "mode", "identify">>
         /\ Head(todo) = "state" =>
              /\ todo \in BeforeState /\ Tail(todo) = <<"mode", "identify">>
         /\ Head(todo) = "mode" => todo \in BehindState /\ Tail(todo) = <<"identify">>
         /\ Head(todo) = "identify" => todo \in BehindState /\ Tail(todo) = <<>>
         /\ Head(todo) \in {"volume", "apply", "state", "mode", "identify"}
<1>1. CASE todo = <<"volume", "state", "mode", "identify">>
  <2>1. Head(todo) = "volume" /\ Tail(todo) = <<"state", "mode", "identify">>
        /\ [todo EXCEPT ![1] = "apply"] = <<"apply", "state", "mode", "identify">>
    BY <1>1
  <2> QED
    BY <1>1, <2>1, Zenon DEF BeforeState
<1>2. CASE todo = <<"apply", "state", "mode", "identify">>
  <2>1. Head(todo) = "apply" /\ Tail(todo) = <<"state", "mode", "identify">>
    BY <1>2
  <2> QED
    BY <1>2, <2>1 DEF BeforeState
<1>3. CASE todo = <<"state", "mode", "identify">>
  <2>1. Head(todo) = "state" /\ Tail(todo) = <<"mode", "identify">>
    BY <1>3
  <2> QED
    BY <1>3, <2>1 DEF BeforeState
<1>4. CASE todo = <<"mode", "identify">>
  <2>1. Head(todo) = "mode" /\ Tail(todo) = <<"identify">>
    BY <1>4
  <2> QED
    BY <1>4, <2>1 DEF BehindState
<1>5. CASE todo = <<"identify">>
  <2>1. Head(todo) = "identify" /\ Tail(todo) = <<>>
    BY <1>5
  <2> QED
    BY <1>5, <2>1 DEF BehindState
<1> QED
  BY <1>1, <1>2, <1>3, <1>4, <1>5 DEF BeforeState, BehindState

(* What is left to handle is a sequence of commands.                       *)
LEMMA RestsAreSequences ==
  ASSUME NEW s \in BeforeState \cup BehindState
  PROVE  s \in Seq({"volume", "apply", "state", "mode", "identify"})
<1> DEFINE C == {"volume", "apply", "state", "mode", "identify"}
<1>1. /\ <<"volume", "state", "mode", "identify">> \in Seq(C)
      /\ <<"apply", "state", "mode", "identify">> \in Seq(C)
      /\ <<"state", "mode", "identify">> \in Seq(C)
  OBVIOUS
<1>2. <<"mode", "identify">> \in Seq(C) /\ <<"identify">> \in Seq(C) /\ <<>> \in Seq(C)
  OBVIOUS
<1> QED
  BY <1>1, <1>2, Zenon DEF BeforeState, BehindState

(* The trigger that switches on or off is still to handle, or it is not.   *)
LEMMA OneOfTheTwo ==
  ASSUME NEW s \in BeforeState
  PROVE  s \notin BehindState
<1>1. ASSUME NEW r \in BehindState PROVE r # <<"volume", "state", "mode", "identify">>
  BY DEF BehindState
<1>2. ASSUME NEW r \in BehindState PROVE r # <<"apply", "state", "mode", "identify">>
  BY DEF BehindState
<1>3. ASSUME NEW r \in BehindState PROVE r # <<"state", "mode", "identify">>
  BY DEF BehindState
<1> QED
  BY <1>1, <1>2, <1>3, Zenon DEF BeforeState

(* At boot nothing sounds, and a master plays its first effect.            *)
LEMMA InitInv == Init => IInv
<1> SUFFICES ASSUME Init PROVE IInv
  OBVIOUS
<1> USE DEF Init
<1>1. todo \in BehindState
  BY DEF BehindState
<1>2. Beeps[Startup] \in Nat \ {0}
  BY CommandsAssumption
<1>3. call \in [Threads -> Calls]
  BY <1>2 DEF Calls, Play, NoCall, Threads, Duties
<1>4. \A t \in Threads : CallOK(t)
  BY <1>2 DEF CallOK, InCall, EndsOff, Play, NoCall
<1>5. TypeOK
  <2>1. todo \in Seq({"volume", "apply", "state", "mode", "identify"})
    BY <1>1, RestsAreSequences
  <2>2. MaxMessages \in Nat /\ IdentifyTicks \in Nat
    BY CommandsAssumption
  <2>3. OtherTypes
    BY <2>2 DEF OtherTypes
  <2>4. {current_duty, newDuty, duty} \subseteq Duties
    BY DEF Duties
  <2>5. BuzzerTypes
    BY <1>3, <2>4 DEF BuzzerTypes
  <2> QED
    BY <2>1, <2>3, <2>5, Types
<1>6. MessageOK
  <2>1. message = [volume |-> 1, state |-> "off", mode |-> NoMode, identify |-> FALSE]
    OBVIOUS
  <2> QED
    BY ONLY <2>1 DEF MessageOK
<1>7. Silences
  BY DEF Silences
<1>8. ListenerIsSilent
  BY DEF ListenerIsSilent, InCall, NoCall
<1> QED
  BY <1>1, <1>4, <1>5, <1>6, <1>7, <1>8 DEF IInv, BuzzerInv

(* A step that leaves the buzzer and its calls alone.                      *)
LEMMA BuzzerKept ==
  ASSUME BuzzerInv, UNCHANGED <<master, is_on, newDuty, duty, call>>,
         SwitchedOff' => SwitchedOff \/ ~master
  PROVE  BuzzerInv'
<1> USE DEF BuzzerInv, ListenerIsSilent, Silences
<1>1. ASSUME NEW t \in Threads PROVE CallOK(t)'
  BY DEF CallOK, InCall, EndsOff
<1>2. Silences'
  BY DEF WillClear, WillSetZero, InCall
<1>3. ListenerIsSilent'
  BY DEF InCall
<1> QED
  BY <1>1, <1>2, <1>3

(* A thread that starts a call: an effect, which ends with off, or the     *)
(* dispatcher, which may leave the buzzer on if the message says so.       *)
LEMMA CallStarted ==
  ASSUME BuzzerInv, call \in [Threads -> Calls], master, UNCHANGED <<master, is_on, newDuty, duty>>,
         NEW t \in Threads, ~InCall(t),
         NEW c \in Calls, Goes(t, c),
         c.step \in {"flag", "load"}, c.left >= 1,
         ((c.left % 2 = 0) <=> c.on) \/ (t = Dispatcher /\ ~SwitchedOff'),
         SwitchedOff' => SwitchedOff \/ (t = Dispatcher /\ ~c.on /\ c.step = "flag")
  PROVE  BuzzerInv'
<1>1. call'[t] = c /\ \A u \in Threads : u # t => call'[u] = call[u]
  BY DEF Goes
<1>2. CallOK(t)'
  BY <1>1 DEF CallOK, EndsOff, InCall
<1>3. ASSUME NEW u \in Threads, u # t PROVE CallOK(u)'
  <2>1. CallOK(u) /\ call'[u] = call[u]
    BY <1>1, <1>3 DEF BuzzerInv
  <2>2. (InCall(u) /\ ~EndsOff(u)) => ~SwitchedOff'
    BY <1>3, <2>1 DEF CallOK
  <2> QED
    BY <2>1, <2>2 DEF CallOK, EndsOff, InCall
<1>4. ASSUME SwitchedOff', SwitchedOff PROVE Silences'
  <2>1. ASSUME NEW u \in Threads, InCall(u)
        PROVE  u # t /\ InCall(u)' /\ (WillClear(u) => WillClear(u)')
                 /\ (WillSetZero(u) => WillSetZero(u)')
    BY <1>1, <2>1 DEF WillClear, WillSetZero, InCall
  <2>2. /\ is_on => \E u \in Threads : WillClear(u)
        /\ newDuty # 0 => \E u \in Threads : WillSetZero(u)
        /\ duty # 0 => \E u \in Threads : InCall(u)
    BY <1>4 DEF BuzzerInv, Silences
  <2>3. \A u \in Threads : (WillClear(u) \/ WillSetZero(u)) => InCall(u)
    BY DEF WillClear, WillSetZero
  <2> QED
    BY <2>1, <2>2, <2>3, Zenon DEF Silences
<1>5. ASSUME SwitchedOff', ~SwitchedOff PROVE Silences'
  <2>1. WillClear(t)' /\ WillSetZero(t)' /\ InCall(t)'
    BY <1>1, <1>5 DEF WillClear, WillSetZero, InCall
  <2> QED
    BY <2>1 DEF Silences
<1>6. Silences'
  BY <1>4, <1>5 DEF Silences
<1>7. ListenerIsSilent'
  BY DEF ListenerIsSilent
<1> QED
  BY <1>2, <1>3, <1>6, <1>7 DEF BuzzerInv

-----------------------------------------------------------------------------
(* The steps of a thread in a call of the buzzer                           *)

(* The invariant is its parts.                                             *)
LEMMA Parts ==
  IInv <=> BuzzerTypes /\ OtherTypes /\ MessageOK /\ todo \in Rests /\ BuzzerInv
<1>1. todo \in Rests => todo \in Seq({"volume", "apply", "state", "mode", "identify"})
  BY RestsAreSequences DEF Rests
<1>2. todo \in Rests => (TypeOK <=> BuzzerTypes /\ OtherTypes)
  BY <1>1, Types
<1> QED
  BY <1>2 DEF IInv, Rests

(* A thread goes on in its call.                                           *)
LEMMA CallGoesOn ==
  ASSUME IInv, NEW t \in Threads, InCall(t), NEW c \in Calls, Goes(t, c),
         UNCHANGED <<master, current_duty, message, todo, led, messages>>,
         is_on' \in BOOLEAN, newDuty' \in Duties, duty' \in Duties,
         CallOK(t)', Silences'
  PROVE  IInv'
<1>1. BuzzerTypes /\ OtherTypes /\ MessageOK /\ todo \in Rests /\ BuzzerInv
  BY Parts
<1>2. BuzzerTypes'
  BY <1>1 DEF BuzzerTypes, Goes
<1>3. OtherTypes' /\ MessageOK' /\ (todo \in Rests)'
  BY <1>1 DEF OtherTypes, MessageOK, led, Rests, BeforeState, BehindState
<1>4. ASSUME NEW u \in Threads, u # t PROVE CallOK(u)'
  <2>1. CallOK(u) /\ call'[u] = call[u] /\ message' = message /\ todo' = todo
    BY <1>1, <1>4 DEF BuzzerInv, BuzzerTypes, Goes
  <2> QED
    BY <2>1 DEF CallOK, EndsOff, InCall, SwitchedOff, BehindState
<1>5. master
  BY <1>1 DEF BuzzerInv, ListenerIsSilent
<1>6. BuzzerInv'
  BY <1>4, <1>5 DEF BuzzerInv, ListenerIsSilent
<1> QED
  BY <1>2, <1>3, <1>6, Parts, PTL

(* What the invariant says of a thread in a call.                          *)
LEMMA Caller ==
  ASSUME IInv, NEW t \in Threads, InCall(t)
  PROVE  /\ call \in [Threads -> Calls] /\ call[t] \in Calls
         /\ call[t].left \in Nat /\ call[t].left >= 1 /\ call[t].on \in BOOLEAN
         /\ CallOK(t) /\ master
         /\ SwitchedOff => (call[t].left % 2 = 0 <=> call[t].on)
         /\ {current_duty, newDuty, duty} \subseteq Duties /\ is_on \in BOOLEAN
<1>1. BuzzerTypes /\ BuzzerInv
  BY Parts
<1>2. call \in [Threads -> Calls] /\ call[t] \in Calls
  BY <1>1 DEF BuzzerTypes
<1>3. CallOK(t) /\ master
  BY <1>1 DEF BuzzerInv, ListenerIsSilent
<1>4. call[t].left \in Nat /\ call[t].on \in BOOLEAN
  BY <1>2 DEF Calls
<1>5. SwitchedOff => (call[t].left % 2 = 0 <=> call[t].on)
  BY <1>3 DEF CallOK, EndsOff
<1>6. call[t].left >= 1
  BY <1>3 DEF CallOK
<1> QED
  BY <1>1, <1>2, <1>3, <1>4, <1>5, <1>6 DEF BuzzerTypes

(* Who will write, other than the thread that makes a step, still will.    *)
LEMMA WritersStay ==
  ASSUME NEW t \in Threads, call \in [Threads -> Calls], NEW c \in Calls, Goes(t, c)
  PROVE  /\ call'[t] = c
         /\ (\E u \in Threads : WillClear(u)) => WillClear(t) \/ \E u \in Threads : WillClear(u)'
         /\ (\E u \in Threads : WillSetZero(u)) =>
              WillSetZero(t) \/ \E u \in Threads : WillSetZero(u)'
<1>1. call'[t] = c /\ \A u \in Threads \ {t} : call'[u] = call[u]
  BY DEF Goes
<1>2. \A u \in Threads \ {t} : (WillClear(u) => WillClear(u)') /\ (WillSetZero(u) => WillSetZero(u)')
  BY <1>1 DEF InCall, WillClear, WillSetZero
<1> QED
  BY <1>1, <1>2

(* What a thread's call becomes at each of its steps.                      *)
WithStep(r, s) == [r EXCEPT !.step = s]
WithDuty(r, v) == [r EXCEPT !.step = "set", !.value = v]

(* A step of a call leaves everything else of it as it is.                 *)
LEMMA NextStep ==
  ASSUME NEW r \in Calls, NEW s \in {"none", "flag", "load", "set", "update"}
  PROVE  /\ WithStep(r, s) \in Calls /\ WithStep(r, s).step = s
         /\ WithStep(r, s).on <=> r.on
         /\ WithStep(r, s).left = r.left
         /\ WithStep(r, s).value = r.value /\ r.value \in Duties
<1> DEFINE d == WithStep(r, s)
<1>1. /\ d \in Calls /\ d.step = s /\ d.on = r.on /\ d.left = r.left
      /\ d.value = r.value /\ r.value \in Duties
  BY DEF Calls, WithStep
<1> HIDE DEF d
<1>2. d.on <=> r.on
  BY ONLY <1>1
<1> USE DEF d
<1> QED
  BY <1>1, <1>2

(* A call that has chosen its duty.                                        *)
LEMMA Loaded ==
  ASSUME NEW r \in Calls, NEW v \in Duties
  PROVE  /\ WithDuty(r, v) \in Calls /\ WithDuty(r, v).step = "set"
         /\ WithDuty(r, v).on <=> r.on
         /\ WithDuty(r, v).left = r.left /\ WithDuty(r, v).value = v
<1> DEFINE e == WithStep(r, "set")
           d == WithDuty(r, v)
<1>1. e \in Calls /\ e.step = "set" /\ (e.on <=> r.on) /\ e.left = r.left
  BY NextStep
<1>2. d = [e EXCEPT !.value = v]
  BY DEF WithStep, WithDuty
<1> HIDE DEF e, d
<1>3. d \in Calls /\ d.step = e.step /\ d.on = e.on /\ d.left = e.left /\ d.value = v
  BY <1>1, <1>2 DEF Calls
<1>4. d.on <=> e.on
  BY ONLY <1>3
<1>5. d \in Calls /\ d.step = "set" /\ (d.on <=> r.on) /\ d.left = r.left /\ d.value = v
  BY <1>1, <1>3, <1>4
<1> QED
  BY <1>5 DEF d

(* A call that ends is followed by the opposite one, or by none.           *)
LEMMA Ended ==
  ASSUME NEW r \in Calls, r.left >= 1, NEW d, d = AfterCall(r)
  PROVE  /\ d \in Calls
         /\ r.left = 1 => d.step = "none"
         /\ r.left # 1 => /\ r.left > 1 /\ d.step = "flag" /\ (d.on <=> ~r.on)
                          /\ d.left = r.left - 1
<1>1. r.left \in Nat /\ r.on \in BOOLEAN
  BY DEF Calls
<1>2. CASE r.left = 1
  BY <1>2 DEF AfterCall, NoCall, Calls, Duties
<1>3. CASE r.left # 1
  <2>1. r.left - 1 \in Nat /\ r.left > 1
    BY <1>1, <1>3
  <2>2. (~r.on) \in BOOLEAN
    OBVIOUS
  <2>3. d = [step |-> "flag", on |-> ~r.on, left |-> r.left - 1, value |-> 0]
    BY <1>3 DEF AfterCall
  <2>4. d \in Calls
    BY <2>1, <2>2, <2>3 DEF Calls, Duties
  <2>5. d.step = "flag" /\ d.on = ~r.on /\ d.left = r.left - 1
    BY <2>3
  <2>6. d.on <=> ~r.on
    BY ONLY <2>5
  <2> QED
    BY <1>3, <2>1, <2>4, <2>5, <2>6
<1> QED
  BY <1>2, <1>3

(* Turning on and off in turn and ending with off: the last call is off.   *)
LEMMA Parity ==
  ASSUME NEW n \in Nat, n > 1, NEW b \in BOOLEAN, NEW d \in BOOLEAN, d <=> ~b
  PROVE  /\ (n % 2 = 0 <=> b) => ((n - 1) % 2 = 0 <=> d)
         /\ ((n % 2 = 0 <=> b) /\ ~b) => n > 2
<1>1. (n - 1) % 2 = 0 <=> ~(n % 2 = 0)
  OBVIOUS
<1>2. n % 2 # 0 => n > 2
  OBVIOUS
<1>3. CASE b
  BY <1>1, <1>3
<1>4. CASE ~b
  BY <1>1, <1>2, <1>4
<1> QED
  BY <1>3, <1>4

(* buzzer_set_state(): is_on = on. A thread that sets the flag has a call  *)
(* to come that clears it.                                                 *)
LEMMA SetFlagInv ==
  ASSUME IInv, NEW t \in Threads, SetFlag(t)
  PROVE  IInv'
<1> DEFINE c == WithStep(call[t], "load")
<1>1. /\ call[t].step = "flag" /\ is_on' = call[t].on /\ Goes(t, c)
      /\ UNCHANGED <<master, current_duty, newDuty, duty, message, todo, led, messages>>
  BY DEF SetFlag, WithStep
<1>2. InCall(t)
  BY <1>1 DEF InCall
<1>3. /\ call \in [Threads -> Calls] /\ call[t] \in Calls /\ CallOK(t)
      /\ call[t].left \in Nat /\ call[t].left >= 1 /\ call[t].on \in BOOLEAN
      /\ SwitchedOff => (call[t].left % 2 = 0 <=> call[t].on)
      /\ {newDuty, duty} \subseteq Duties
  BY <1>2, Caller
<1>4. c \in Calls /\ c.step = "load" /\ (c.on <=> call[t].on) /\ c.left = call[t].left
  BY <1>3, NextStep
<1> HIDE DEF c
<1>5. /\ call'[t] = c
      /\ (\E u \in Threads : WillSetZero(u)) =>
           WillSetZero(t) \/ \E u \in Threads : WillSetZero(u)'
  BY <1>1, <1>3, <1>4, WritersStay
<1>6. CallOK(t)'
  <2>1. SwitchedOff' <=> SwitchedOff
    BY <1>1 DEF SwitchedOff, BehindState
  <2> QED
    BY <1>2, <1>3, <1>4, <1>5, <2>1 DEF CallOK, InCall, EndsOff
<1>7. ASSUME SwitchedOff PROVE Silences'
  <2>1. call[t].on => call[t].left > 1
    BY <1>3, <1>7
  <2>2. is_on' => WillClear(t)'
    BY <1>1, <1>4, <1>5, <2>1 DEF WillClear, InCall
  <2>3. WillSetZero(t) => WillSetZero(t)'
    BY <1>4, <1>5 DEF WillSetZero, InCall
  <2>4. InCall(t)'
    BY <1>4, <1>5 DEF InCall
  <2>5. newDuty # 0 => \E u \in Threads : WillSetZero(u)
    BY <1>7, Parts DEF BuzzerInv, Silences
  <2> QED
    BY <1>1, <1>5, <2>2, <2>3, <2>4, <2>5 DEF Silences
<1>8. Silences'
  BY <1>1, <1>7 DEF Silences, SwitchedOff
<1>9. is_on' \in BOOLEAN /\ newDuty' \in Duties /\ duty' \in Duties
  BY <1>1, <1>3
<1>10. UNCHANGED <<master, current_duty, message, todo, led, messages>>
  BY <1>1
<1> QED
  BY <1>1, <1>2, <1>4, <1>6, <1>8, <1>9, <1>10, CallGoesOn

(* buzzer_set_state(): the duty is chosen.                                 *)
LEMMA LoadDutyInv ==
  ASSUME IInv, NEW t \in Threads, LoadDuty(t)
  PROVE  IInv'
<1> DEFINE v == IF call[t].on THEN current_duty ELSE 0
           c == WithDuty(call[t], v)
<1>1. /\ call[t].step = "load" /\ Goes(t, c)
      /\ UNCHANGED <<master, buzzer, message, todo, led, messages>>
  BY DEF LoadDuty, WithDuty
<1>2. InCall(t)
  BY <1>1 DEF InCall
<1>3. /\ call \in [Threads -> Calls] /\ call[t] \in Calls /\ CallOK(t)
      /\ call[t].left \in Nat /\ call[t].left >= 1 /\ call[t].on \in BOOLEAN
      /\ {current_duty, newDuty, duty} \subseteq Duties /\ is_on \in BOOLEAN
  BY <1>2, Caller
<1>4a. v \in Duties /\ (~call[t].on => v = 0)
  <2>1. 0 \in Duties
    BY DEF Duties
  <2>2. CASE call[t].on
    BY <1>3, <2>2
  <2>3. CASE ~call[t].on
    BY <2>1, <2>3
  <2> QED
    BY <2>2, <2>3
<1> HIDE DEF v
<1>4b. c \in Calls /\ c.step = "set" /\ (c.on <=> call[t].on) /\ c.left = call[t].left /\ c.value = v
  <2>1. call[t] \in Calls
    BY <1>3
  <2>2. v \in Duties
    BY <1>4a
  <2> QED
    BY ONLY <2>1, <2>2, Loaded
<1> HIDE DEF c
<1>4. /\ c \in Calls /\ c.step = "set" /\ (c.on <=> call[t].on) /\ c.left = call[t].left
      /\ ~c.on => c.value = 0
  BY <1>4a, <1>4b
<1>5. /\ call'[t] = c
      /\ (\E u \in Threads : WillClear(u)) => WillClear(t) \/ \E u \in Threads : WillClear(u)'
      /\ (\E u \in Threads : WillSetZero(u)) =>
           WillSetZero(t) \/ \E u \in Threads : WillSetZero(u)'
  BY <1>1, <1>3, <1>4, WritersStay
<1>6. CallOK(t)'
  <2>1. SwitchedOff' <=> SwitchedOff
    BY <1>1 DEF SwitchedOff, BehindState
  <2> QED
    BY <1>2, <1>3, <1>4, <1>5, <2>1 DEF CallOK, InCall, EndsOff
<1>7. ASSUME SwitchedOff PROVE Silences'
  <2>1. UNCHANGED <<is_on, newDuty, duty>>
    BY <1>1 DEF buzzer
  <2>2. WillClear(t) => WillClear(t)'
    BY <1>1, <1>4, <1>5 DEF WillClear, InCall
  <2>3. WillSetZero(t) => WillSetZero(t)'
    BY <1>4, <1>5 DEF WillSetZero, InCall
  <2>4. InCall(t)'
    BY <1>4, <1>5 DEF InCall
  <2>5. /\ is_on => \E u \in Threads : WillClear(u)
        /\ newDuty # 0 => \E u \in Threads : WillSetZero(u)
    BY <1>7, Parts DEF BuzzerInv, Silences
  <2> QED
    BY <2>1, <1>5, <2>2, <2>3, <2>4, <2>5 DEF Silences
<1>8. Silences'
  BY <1>1, <1>7 DEF Silences, SwitchedOff
<1>9. is_on' \in BOOLEAN /\ newDuty' \in Duties /\ duty' \in Duties
  BY <1>1, <1>3 DEF buzzer
<1>10. UNCHANGED <<master, current_duty, message, todo, led, messages>>
  BY <1>1 DEF buzzer
<1> QED
  BY <1>1, <1>2, <1>4, <1>6, <1>8, <1>9, <1>10, CallGoesOn

(* ledc_set_duty(): the new duty is set.                                   *)
LEMMA SetDutyInv ==
  ASSUME IInv, NEW t \in Threads, SetDuty(t)
  PROVE  IInv'
<1> DEFINE c == WithStep(call[t], "update")
<1>1. /\ call[t].step = "set" /\ newDuty' = call[t].value /\ Goes(t, c)
      /\ UNCHANGED <<master, is_on, current_duty, duty, message, todo, led, messages>>
  BY DEF SetDuty, WithStep
<1>2. InCall(t)
  BY <1>1 DEF InCall
<1>3. /\ call \in [Threads -> Calls] /\ call[t] \in Calls /\ CallOK(t)
      /\ call[t].left \in Nat /\ call[t].left >= 1 /\ call[t].on \in BOOLEAN
      /\ SwitchedOff => (call[t].left % 2 = 0 <=> call[t].on)
      /\ {newDuty, duty} \subseteq Duties /\ is_on \in BOOLEAN
  BY <1>2, Caller
<1>4a. /\ c \in Calls /\ c.step = "update" /\ (c.on <=> call[t].on) /\ c.left = call[t].left
       /\ c.value = call[t].value /\ call[t].value \in Duties
  BY <1>3, NextStep
<1> HIDE DEF c
<1>4b. ~call[t].on => call[t].value = 0
  BY <1>1, <1>2, <1>3 DEF CallOK
<1>4. /\ c \in Calls /\ c.step = "update" /\ (c.on <=> call[t].on) /\ c.left = call[t].left
      /\ c.value = call[t].value /\ call[t].value \in Duties
      /\ ~call[t].on => call[t].value = 0
  BY <1>4a, <1>4b
<1>5. /\ call'[t] = c
      /\ (\E u \in Threads : WillClear(u)) => WillClear(t) \/ \E u \in Threads : WillClear(u)'
  BY <1>1, <1>3, <1>4, WritersStay
<1>6. CallOK(t)'
  <2>1. SwitchedOff' <=> SwitchedOff
    BY <1>1 DEF SwitchedOff, BehindState
  <2> QED
    BY <1>2, <1>3, <1>4, <1>5, <2>1 DEF CallOK, InCall, EndsOff
<1>7. ASSUME SwitchedOff PROVE Silences'
  <2>1. call[t].on => call[t].left > 1
    BY <1>3, <1>7
  <2>2. WillClear(t) => WillClear(t)'
    BY <1>1, <1>4, <1>5 DEF WillClear, InCall
  <2>3. newDuty' # 0 => WillSetZero(t)'
    BY <1>1, <1>4, <1>5, <2>1 DEF WillSetZero, InCall
  <2>4. InCall(t)'
    BY <1>4, <1>5 DEF InCall
  <2>5. is_on => \E u \in Threads : WillClear(u)
    BY <1>7, Parts DEF BuzzerInv, Silences
  <2> QED
    BY <1>1, <1>5, <2>2, <2>3, <2>4, <2>5 DEF Silences
<1>8. Silences'
  BY <1>1, <1>7 DEF Silences, SwitchedOff
<1>9. is_on' \in BOOLEAN /\ newDuty' \in Duties /\ duty' \in Duties
  <2>1. is_on' = is_on /\ newDuty' = call[t].value /\ duty' = duty
    BY <1>1
  <2>2. is_on \in BOOLEAN /\ duty \in Duties
    BY <1>3
  <2> QED
    BY <1>4a, <2>1, <2>2
<1>10. UNCHANGED <<master, current_duty, message, todo, led, messages>>
  BY <1>1
<1> QED
  BY <1>1, <1>2, <1>4, <1>6, <1>8, <1>9, <1>10, CallGoesOn

(* ledc_update_duty(), and the next call of the effect.                    *)
LEMMA UpdateDutyInv ==
  ASSUME IInv, NEW t \in Threads, UpdateDuty(t)
  PROVE  IInv'
<1> DEFINE c == AfterCall(call[t])
<1>1. /\ call[t].step = "update" /\ duty' = newDuty /\ Goes(t, c)
      /\ UNCHANGED <<master, is_on, current_duty, newDuty, message, todo, led, messages>>
  BY DEF UpdateDuty
<1>2. InCall(t)
  BY <1>1 DEF InCall
<1>3. /\ call \in [Threads -> Calls] /\ call[t] \in Calls /\ CallOK(t)
      /\ call[t].left \in Nat /\ call[t].left >= 1 /\ call[t].on \in BOOLEAN
      /\ SwitchedOff => (call[t].left % 2 = 0 <=> call[t].on)
      /\ {newDuty, duty} \subseteq Duties /\ is_on \in BOOLEAN
  BY <1>2, Caller
<1>4. c \in Calls /\ c.left \in Nat /\ c.on \in BOOLEAN
  <2>1. c \in Calls
    BY <1>3, Ended
  <2> HIDE DEF c
  <2> QED
    BY <2>1 DEF Calls
<1>5. call[t].left = 1 => c.step = "none"
  BY <1>3, Ended
<1>6. call[t].left # 1 =>
        call[t].left > 1 /\ c.step = "flag" /\ (c.on <=> ~call[t].on) /\ c.left = call[t].left - 1
  BY <1>3, Ended
<1> HIDE DEF c
<1>6a. ASSUME call[t].left > 1
       PROVE  /\ (call[t].left % 2 = 0 <=> call[t].on) => (c.left % 2 = 0 <=> c.on)
              /\ ((call[t].left % 2 = 0 <=> call[t].on) /\ ~call[t].on) => call[t].left > 2
  <2>1. (c.on <=> ~call[t].on) /\ c.left = call[t].left - 1
    BY <1>6, <1>6a
  <2>2. call[t].left \in Nat /\ call[t].on \in BOOLEAN /\ c.on \in BOOLEAN
    BY <1>3, <1>4
  <2> QED
    BY <1>6a, <2>1, <2>2, Parity
<1>7. /\ call'[t] = c
      /\ (\E u \in Threads : WillClear(u)) => WillClear(t) \/ \E u \in Threads : WillClear(u)'
      /\ (\E u \in Threads : WillSetZero(u)) =>
           WillSetZero(t) \/ \E u \in Threads : WillSetZero(u)'
  BY <1>1, <1>3, <1>4, WritersStay
<1>8. SwitchedOff' <=> SwitchedOff
  BY <1>1 DEF SwitchedOff, BehindState
<1>9. CallOK(t)'
  <2>1. CASE call[t].left = 1
    BY <1>5, <1>7, <2>1 DEF CallOK, InCall
  <2>2. CASE call[t].left # 1
    <3>1. EndsOff(t) => EndsOff(t)'
      BY <1>6, <1>7, <1>6a, <2>2 DEF EndsOff
    <3>2. InCall(t)' /\ call'[t].left >= 1 /\ call'[t].step = "flag"
      BY <1>3, <1>6, <1>7, <2>2 DEF InCall
    <3>3. ~EndsOff(t)' => t = Dispatcher /\ ~SwitchedOff'
      BY <1>2, <1>3, <1>8, <3>1 DEF CallOK
    <3> QED
      BY <3>2, <3>3 DEF CallOK
  <2> QED
    BY <2>1, <2>2
<1>10. ASSUME SwitchedOff PROVE Silences'
  <2>0. ASSUME call[t].left > 1 PROVE c.left > 1 \/ ~c.on
    <3>1. ~call[t].on => call[t].left > 2
      BY <1>3, <1>10, <1>6a, <2>0
    <3>2. CASE call[t].on
      BY <1>6, <2>0, <3>2
    <3>3. CASE ~call[t].on
      BY <1>3, <1>6, <2>0, <3>1, <3>3
    <3> QED
      BY <3>2, <3>3
  <2>1. WillClear(t) => WillClear(t)'
    <3>1. WillClear(t) => call[t].left > 1
      BY <1>1 DEF WillClear
    <3> QED
      BY <1>6, <1>7, <2>0, <3>1 DEF WillClear, InCall
  <2>2. WillSetZero(t) => WillSetZero(t)' /\ InCall(t)'
    <3>1. WillSetZero(t) => call[t].left > 1
      BY <1>1 DEF WillSetZero
    <3> QED
      BY <1>6, <1>7, <2>0, <3>1 DEF WillSetZero, InCall
  <2>3. \A u \in Threads : WillSetZero(u)' => InCall(u)'
    BY DEF WillSetZero
  <2>4. /\ is_on => \E u \in Threads : WillClear(u)
        /\ newDuty # 0 => \E u \in Threads : WillSetZero(u)
    BY <1>10, Parts DEF BuzzerInv, Silences
  <2> QED
    BY <1>1, <1>7, <2>1, <2>2, <2>3, <2>4 DEF Silences
<1>11. Silences'
  BY <1>8, <1>10 DEF Silences
<1>12. is_on' \in BOOLEAN /\ newDuty' \in Duties /\ duty' \in Duties
  BY <1>1, <1>3
<1>13. UNCHANGED <<master, current_duty, message, todo, led, messages>>
  BY <1>1
<1> QED
  BY <1>1, <1>2, <1>4, <1>9, <1>11, <1>12, <1>13, CallGoesOn

(* Every step of a thread in a call of the buzzer keeps the invariant.     *)
LEMMA BuzzerStepInv ==
  ASSUME IInv, NEW t \in Threads, BuzzerStep(t)
  PROVE  IInv'
BY SetFlagInv, LoadDutyInv, SetDutyInv, UpdateDutyInv DEF BuzzerStep

-----------------------------------------------------------------------------
(* The dispatcher                                                          *)

(* Handling a command moves on towards the end of the message; only the    *)
(* state trigger leads past itself.                                        *)
LEMMA TailIsRest ==
  ASSUME todo \in Rests, todo # <<>>
  PROVE  /\ Tail(todo) \in Rests
         /\ Tail(todo) \in BehindState => Head(todo) = "state" \/ todo \in BehindState
<1>1. /\ <<"state", "mode", "identify">> \in BeforeState
      /\ <<"mode", "identify">> \in BehindState
      /\ <<"identify">> \in BehindState /\ <<>> \in BehindState
  BY Zenon DEF BeforeState, BehindState
<1>2. /\ Head(todo) \in {"volume", "apply"} => Tail(todo) = <<"state", "mode", "identify">>
      /\ Head(todo) = "state" => Tail(todo) = <<"mode", "identify">>
      /\ Head(todo) = "mode" => todo \in BehindState /\ Tail(todo) = <<"identify">>
      /\ Head(todo) = "identify" => todo \in BehindState /\ Tail(todo) = <<>>
      /\ Head(todo) \in {"volume", "apply", "state", "mode", "identify"}
  BY Rest DEF Rests
<1>3. Head(todo) \in {"volume", "apply"} => Tail(todo) \in BeforeState
  BY <1>1, <1>2
<1>4. Head(todo) \in {"state", "mode", "identify"} => Tail(todo) \in BehindState
  BY <1>1, <1>2
<1>5. Tail(todo) \in BeforeState => Tail(todo) \notin BehindState
  BY OneOfTheTwo
<1> QED
  BY <1>2, <1>3, <1>4, <1>5 DEF Rests

(* A step that leaves the buzzer alone, except for the volume.             *)
LEMMA LeavesBuzzer ==
  ASSUME IInv, UNCHANGED <<master, is_on, newDuty, duty, call>>, current_duty' \in Duties,
         OtherTypes', MessageOK', (todo \in Rests)',
         SwitchedOff' => SwitchedOff \/ ~master
  PROVE  IInv'
<1>1. BuzzerTypes /\ BuzzerInv
  BY Parts
<1>2. BuzzerTypes'
  BY <1>1 DEF BuzzerTypes
<1>3. BuzzerInv'
  BY <1>1, BuzzerKept
<1> QED
  BY <1>2, <1>3, Parts, PTL

(* A command that is handled by a call of the buzzer.                      *)
LEMMA CallsBuzzer ==
  ASSUME IInv, UNCHANGED <<master, buzzer, message, led, messages>>,
         todo # <<>>, todo' = Tail(todo), master,
         NEW t \in Threads, ~InCall(t), NEW c \in Calls, Goes(t, c),
         c.step \in {"flag", "load"}, c.left >= 1,
         ((c.left % 2 = 0) <=> c.on) \/ (t = Dispatcher /\ ~SwitchedOff'),
         SwitchedOff' => SwitchedOff \/ (t = Dispatcher /\ ~c.on /\ c.step = "flag")
  PROVE  IInv'
<1>1. BuzzerTypes /\ OtherTypes /\ MessageOK /\ todo \in Rests /\ BuzzerInv
  BY Parts
<1>2. call \in [Threads -> Calls] /\ UNCHANGED <<master, is_on, newDuty, duty>>
  BY <1>1 DEF BuzzerTypes, buzzer
<1>3. BuzzerInv'
  BY <1>1, <1>2, CallStarted
<1>4. BuzzerTypes'
  BY <1>1 DEF BuzzerTypes, buzzer, Goes
<1>5. OtherTypes' /\ MessageOK'
  BY <1>1 DEF OtherTypes, MessageOK, led
<1>6. (todo \in Rests)'
  <2>1. Tail(todo) \in Rests
    BY <1>1, TailIsRest
  <2> QED
    BY <2>1 DEF Rests, BeforeState, BehindState
<1> QED
  BY <1>3, <1>4, <1>5, <1>6, Parts, PTL

(* A new message is not yet found to switch the buzzer off.                *)
LEMMA ReceiveInv ==
  ASSUME IInv, NEW m \in Messages, Receive(m)
  PROVE  IInv'
<1>1. BuzzerTypes /\ OtherTypes /\ MessageOK
  BY Parts
<1>2. /\ messages < MaxMessages /\ messages' = messages + 1 /\ message' = m
      /\ todo' = CommandOrder /\ UNCHANGED <<master, buzzer, call, led>>
  BY DEF Receive
<1>3. UNCHANGED <<master, is_on, newDuty, duty, call>> /\ current_duty' \in Duties
  BY <1>1, <1>2 DEF buzzer, BuzzerTypes
<1>4. OtherTypes'
  BY <1>1, <1>2, CommandsAssumption DEF OtherTypes, led
<1>5. MessageOK'
  BY <1>2, CommandsAssumption DEF MessageOK
<1>6. CommandOrder \in BeforeState
  BY Zenon DEF CommandOrder, BeforeState
<1>7. CommandOrder \notin BehindState
  BY <1>6, OneOfTheTwo
<1>8. (todo \in Rests)' /\ ~SwitchedOff'
  <2>1. todo' \in BeforeState /\ todo' \notin BehindState
    BY <1>2, <1>6, <1>7
  <2> QED
    BY <2>1 DEF Rests, SwitchedOff, BeforeState, BehindState
<1> QED
  BY <1>3, <1>4, <1>5, <1>8, LeavesBuzzer

(* Only a listener passes a state trigger "off" by.                        *)
LEMMA IgnoreInv ==
  ASSUME IInv, Ignore
  PROVE  IInv'
<1>1. BuzzerTypes /\ OtherTypes /\ MessageOK /\ todo \in Rests
  BY Parts
<1>2. PICK command \in {"volume", "state", "mode", "identify"} :
        todo # <<>> /\ Head(todo) = command /\ Ignored(command)
  BY DEF Ignore, Handles
<1>3. todo' = Tail(todo) /\ UNCHANGED <<master, buzzer, call, message, led, messages>>
  BY DEF Ignore
<1>4. UNCHANGED <<master, is_on, newDuty, duty, call>> /\ current_duty' \in Duties
  BY <1>1, <1>3 DEF buzzer, BuzzerTypes
<1>5. OtherTypes' /\ MessageOK'
  BY <1>1, <1>3 DEF OtherTypes, MessageOK, led
<1>6. /\ Tail(todo) \in Rests
      /\ Tail(todo) \in BehindState => Head(todo) = "state" \/ todo \in BehindState
  BY <1>1, <1>2, TailIsRest
<1>7. (todo \in Rests)'
  BY <1>3, <1>6 DEF Rests, BeforeState, BehindState
<1>8. ASSUME SwitchedOff', ~SwitchedOff PROVE ~master
  <2>1. message.state = "off" /\ Tail(todo) \in BehindState /\ todo \notin BehindState
    BY <1>3, <1>8 DEF SwitchedOff, BehindState
  <2>2. Ignored("state")
    BY <1>2, <1>6, <2>1
  <2> QED
    BY <2>1, <2>2 DEF Ignored, NotBool
<1> QED
  BY <1>4, <1>5, <1>7, <1>8, LeavesBuzzer

(* The volume changes; the duty in use does so later, if at all.           *)
LEMMA SetVolumeInv ==
  ASSUME IInv, SetVolume
  PROVE  IInv'
<1>1. OtherTypes /\ MessageOK /\ todo \in Rests
  BY Parts
<1>2. /\ todo # <<>> /\ Head(todo) = "volume" /\ ~Ignored("volume")
      /\ current_duty' = DutyOf(message.volume) /\ todo' = [todo EXCEPT ![1] = "apply"]
      /\ UNCHANGED <<master, is_on, newDuty, duty, call, message, led, messages>>
  BY DEF SetVolume, Handles
<1>3. current_duty' \in Duties
  <2>1. message.volume \in 0 .. 100
    BY <1>2 DEF Ignored
  <2>2. ASSUME NEW v \in 0 .. 100 PROVE DutyOf(v) \in Duties
    BY DEF DutyOf, Duties
  <2> QED
    BY <1>2, <2>1, <2>2
<1>4. OtherTypes' /\ MessageOK'
  BY <1>1, <1>2 DEF OtherTypes, MessageOK, led
<1>5. [todo EXCEPT ![1] = "apply"] = <<"apply", "state", "mode", "identify">>
  BY <1>1, <1>2, Rest DEF Rests
<1>6. <<"apply", "state", "mode", "identify">> \in BeforeState
  BY Zenon DEF BeforeState
<1>7. todo' \in BeforeState /\ todo' \notin BehindState
  <2>1. todo' \in BeforeState
    BY <1>2, <1>5, <1>6, Zenon
  <2> QED
    BY <2>1, OneOfTheTwo
<1>8. (todo \in Rests)' /\ ~SwitchedOff'
  BY <1>7 DEF Rests, SwitchedOff, BeforeState, BehindState
<1>9. UNCHANGED <<master, is_on, newDuty, duty, call>>
  BY <1>2
<1> QED
  BY <1>3, <1>4, <1>8, <1>9, LeavesBuzzer

(* The duty is applied to a buzzer that is on; "off" is yet to come.       *)
LEMMA ApplyVolumeInv ==
  ASSUME IInv, ApplyVolume
  PROVE  IInv'
<1>1. BuzzerTypes /\ OtherTypes /\ MessageOK /\ todo \in Rests /\ BuzzerInv
  BY Parts
<1>2. /\ todo # <<>> /\ Head(todo) = "apply" /\ ~InCall(Dispatcher)
      /\ todo' = Tail(todo) /\ UNCHANGED <<master, buzzer, message, led, messages>>
  BY DEF ApplyVolume, Handles
<1>3. ~SwitchedOff'
  <2>1. Tail(todo) = <<"state", "mode", "identify">>
    BY <1>1, <1>2, Rest DEF Rests
  <2>2. <<"state", "mode", "identify">> \in BeforeState
    BY Zenon DEF BeforeState
  <2>3. todo' \notin BehindState
    BY <1>2, <2>1, <2>2, OneOfTheTwo
  <2> QED
    BY <2>3 DEF SwitchedOff, BehindState
<1>4. CASE is_on
  <2>1. Goes(Dispatcher, ApplyDuty)
    BY <1>4 DEF ApplyVolume
  <2>2. ApplyDuty \in Calls /\ ApplyDuty.step = "load" /\ ApplyDuty.left = 1
    BY DEF ApplyDuty, Calls, Duties
  <2>3. master
    BY <1>1, <1>4 DEF BuzzerInv, ListenerIsSilent
  <2>4. Dispatcher \in Threads
    BY DEF Threads
  <2> QED
    BY <1>2, <1>3, <2>1, <2>2, <2>3, <2>4, CallsBuzzer
<1>5. CASE ~is_on
  <2>1. UNCHANGED <<master, is_on, newDuty, duty, call>>
    BY <1>2, <1>5 DEF ApplyVolume, buzzer
  <2>2. current_duty' \in Duties
    BY <1>1, <1>2 DEF buzzer, BuzzerTypes
  <2>3. OtherTypes' /\ MessageOK'
    BY <1>1, <1>2 DEF OtherTypes, MessageOK, led
  <2>4. Tail(todo) \in Rests
    BY <1>1, <1>2, TailIsRest
  <2>5. (todo \in Rests)'
    BY <1>2, <2>4 DEF Rests, BeforeState, BehindState
  <2> QED
    BY <1>3, <2>1, <2>2, <2>3, <2>5, LeavesBuzzer
<1> QED
  BY <1>4, <1>5

(* Switching off starts a call that ends with silence.                     *)
LEMMA SwitchBuzzerInv ==
  ASSUME IInv, SwitchBuzzer
  PROVE  IInv'
<1> DEFINE c == SetState(message.state = "on")
<1>1. /\ todo # <<>> /\ Head(todo) = "state" /\ ~InCall(Dispatcher) /\ ~Ignored("state")
      /\ Goes(Dispatcher, c)
      /\ todo' = Tail(todo) /\ UNCHANGED <<master, buzzer, message, led, messages>>
  BY DEF SwitchBuzzer, Handles
<1>2. master
  BY <1>1 DEF Ignored
<1>3. c \in Calls /\ c.step = "flag" /\ c.left = 1
  BY DEF SetState, Calls, Duties
<1>4. c.on = (message.state = "on")
  BY DEF SetState
<1> HIDE DEF c
<1>5. c.on <=> message.state = "on"
  BY ONLY <1>4
<1>6. message' = message
  BY <1>1
<1>7. SwitchedOff' => ~c.on
  BY <1>5, <1>6 DEF SwitchedOff
<1>8. c.left % 2 # 0
  BY <1>3
<1>9. Dispatcher \in Threads
  BY DEF Threads
<1>10. ((c.left % 2 = 0) <=> c.on) \/ ~SwitchedOff'
  BY <1>7, <1>8
<1> QED
  BY <1>1, <1>2, <1>3, <1>7, <1>9, <1>10, CallsBuzzer

(* An effect ends with off, in whichever thread it plays.                  *)
LEMMA PlayEffectInv ==
  ASSUME IInv, PlayEffect
  PROVE  IInv'
<1> DEFINE c == Play(message.mode)
<1>1. BuzzerTypes /\ OtherTypes /\ MessageOK /\ todo \in Rests /\ BuzzerInv
  BY Parts
<1>2. /\ todo # <<>> /\ Head(todo) = "mode" /\ ~InCall(Dispatcher) /\ ~Ignored("mode")
      /\ todo' = Tail(todo) /\ UNCHANGED <<master, buzzer, message, led, messages>>
  BY DEF PlayEffect, Handles
<1>3. master /\ message.mode \in Effects
  BY <1>1, <1>2 DEF Ignored, MessageOK
<1>4. SwitchedOff' => SwitchedOff
  <2>1. todo \in BehindState
    BY <1>1, <1>2, Rest DEF Rests
  <2> QED
    BY <1>2, <2>1 DEF SwitchedOff
<1>5. c \in Calls /\ c.step = "flag" /\ c.left >= 1 /\ ((c.left % 2 = 0) <=> c.on)
  <2>1. Beeps[message.mode] \in Nat \ {0}
    BY <1>3, CommandsAssumption
  <2>2. ASSUME NEW n \in Nat \ {0} PROVE 2 * n \in Nat /\ 2 * n >= 1 /\ (2 * n) % 2 = 0
    OBVIOUS
  <2>3. c = [step |-> "flag", on |-> TRUE, left |-> 2 * Beeps[message.mode], value |-> 0]
    BY DEF Play
  <2> HIDE DEF c
  <2>4. c.step = "flag" /\ c.on = TRUE /\ c.left = 2 * Beeps[message.mode]
    BY <2>3
  <2>5. c.left \in Nat /\ c.left >= 1 /\ c.left % 2 = 0
    BY <2>1, <2>2, <2>4
  <2>6. c \in Calls
    BY <2>1, <2>2, <2>3 DEF Calls, Duties
  <2> QED
    BY <2>4, <2>5, <2>6
<1>6. ASSUME NEW t \in Threads, ~InCall(t), Goes(t, c) PROVE IInv'
  <2> HIDE DEF c
  <2> QED
    BY <1>2, <1>3, <1>4, <1>5, <1>6, CallsBuzzer
<1>7. ASSUME UNCHANGED call PROVE IInv'
  <2>1. UNCHANGED <<master, is_on, newDuty, duty, call>>
    BY <1>2, <1>7 DEF buzzer
  <2>2. current_duty' \in Duties
    BY <1>1, <1>2 DEF buzzer, BuzzerTypes
  <2>3. OtherTypes' /\ MessageOK'
    BY <1>1, <1>2 DEF OtherTypes, MessageOK, led
  <2>4. Tail(todo) \in Rests
    BY <1>1, <1>2, TailIsRest
  <2>5. (todo \in Rests)'
    BY <1>2, <2>4 DEF Rests, BeforeState, BehindState
  <2> QED
    BY <1>4, <2>1, <2>2, <2>3, <2>5, LeavesBuzzer
<1>8. \/ Goes(Dispatcher, c)
      \/ \E t \in Tasks : ~InCall(t) /\ Goes(t, c)
      \/ UNCHANGED call
  BY DEF PlayEffect
<1>9. Dispatcher \in Threads /\ Tasks \subseteq Threads
  BY DEF Threads
<1> HIDE DEF c
<1> QED
  BY <1>2, <1>6, <1>7, <1>8, <1>9

(* An identify touches the LED only.                                       *)
LEMMA IdentifyInv ==
  ASSUME IInv, Identify
  PROVE  IInv'
<1>1. BuzzerTypes /\ OtherTypes /\ MessageOK /\ todo \in Rests
  BY Parts
<1>2. /\ todo # <<>> /\ Head(todo) = "identify" /\ g_identify_ticks' = IdentifyTicks
      /\ todo' = Tail(todo) /\ UNCHANGED <<master, buzzer, call, message, ledRead, messages>>
  BY DEF Identify, Handles
<1>3. UNCHANGED <<master, is_on, newDuty, duty, call>> /\ current_duty' \in Duties
  BY <1>1, <1>2 DEF buzzer, BuzzerTypes
<1>4. OtherTypes'
  BY <1>1, <1>2, CommandsAssumption DEF OtherTypes
<1>5. MessageOK'
  BY <1>1, <1>2 DEF MessageOK
<1>6. Tail(todo) \in Rests
  BY <1>1, <1>2, TailIsRest
<1>7. (todo \in Rests)'
  BY <1>2, <1>6 DEF Rests, BeforeState, BehindState
<1>8. SwitchedOff' => SwitchedOff
  <2>1. todo \in BehindState
    BY <1>1, <1>2, Rest DEF Rests
  <2> QED
    BY <1>2, <2>1 DEF SwitchedOff
<1> QED
  BY <1>3, <1>4, <1>5, <1>7, <1>8, LeavesBuzzer

(* The task of the LED does not touch the buzzer.                          *)
LEMMA LedTaskInv ==
  ASSUME IInv, LedTask
  PROVE  IInv'
<1>1. BuzzerTypes /\ OtherTypes /\ MessageOK /\ todo \in Rests
  BY Parts
<1>2. UNCHANGED <<master, buzzer, call, message, todo, messages>>
  BY DEF LedTask, Blink, WriteTicks
<1>3. g_identify_ticks' \in 0 .. IdentifyTicks /\ ledRead' \in 0 .. IdentifyTicks
  BY <1>1, CommandsAssumption DEF LedTask, Blink, WriteTicks, OtherTypes
<1>4. UNCHANGED <<master, is_on, newDuty, duty, call>> /\ current_duty' \in Duties
  BY <1>1, <1>2 DEF buzzer, BuzzerTypes
<1>5. OtherTypes' /\ MessageOK'
  BY <1>1, <1>2, <1>3 DEF OtherTypes, MessageOK
<1>6. (todo \in Rests)' /\ (SwitchedOff' => SwitchedOff)
  BY <1>1, <1>2 DEF Rests, BeforeState, BehindState, SwitchedOff
<1> QED
  BY <1>4, <1>5, <1>6, LeavesBuzzer

(* A step of something else touches neither.                               *)
LEMMA StutterInv ==
  ASSUME IInv, UNCHANGED vars
  PROVE  IInv'
<1>1. BuzzerTypes /\ OtherTypes /\ MessageOK /\ todo \in Rests
  BY Parts
<1>2. UNCHANGED <<master, is_on, newDuty, duty, call>> /\ current_duty' \in Duties
  BY <1>1 DEF vars, buzzer, BuzzerTypes
<1>3. OtherTypes' /\ MessageOK'
  BY <1>1 DEF vars, led, OtherTypes, MessageOK
<1>4. (todo \in Rests)' /\ (SwitchedOff' => SwitchedOff)
  BY <1>1 DEF vars, Rests, BeforeState, BehindState, SwitchedOff
<1> QED
  BY <1>2, <1>3, <1>4, LeavesBuzzer

-----------------------------------------------------------------------------
(* The invariant holds: each step of Next preserves it.                    *)
THEOREM Invariance == Spec => []IInv
<1>1. Init => IInv
  BY InitInv
<1>2. ASSUME IInv, [Next]_vars PROVE IInv'
  <2>1. CASE \E m \in Messages : Receive(m)
    BY <1>2, <2>1, ReceiveInv
  <2>2. CASE Dispatch
    BY <1>2, <2>2, IgnoreInv, SetVolumeInv, ApplyVolumeInv, SwitchBuzzerInv, PlayEffectInv,
       IdentifyInv DEF Dispatch
  <2>3. CASE \E t \in Threads : BuzzerStep(t)
    BY <1>2, <2>3, BuzzerStepInv
  <2>4. CASE LedTask
    BY <1>2, <2>4, LedTaskInv
  <2>5. CASE UNCHANGED vars
    BY <1>2, <2>5, StutterInv
  <2> QED
    BY <1>2, <2>1, <2>2, <2>3, <2>4, <2>5 DEF Next
<1> QED
  BY <1>1, <1>2, PTL DEF Spec

(* Every variable keeps its type: no duty exceeds half of the timer's      *)
(* range, and no thread has fewer calls left than none.                    *)
THEOREM TypeCorrect == Spec => []TypeOK
<1>1. IInv => TypeOK
  BY DEF IInv
<1> QED
  BY <1>1, Invariance, PTL

(* When every thread is done and the last message switched the buzzer off, *)
(* it is silent, however effects, volume changes and switching were        *)
(* interleaved: nobody is left that the writes of sound could wait for.    *)
THEOREM Silence == Spec => []SilentAtRest
<1>1. IInv => SilentAtRest
  <2> SUFFICES ASSUME IInv, AtRest, message.state = "off" PROVE duty = 0 /\ ~is_on
    BY DEF SilentAtRest
  <2>1. \A t \in Threads : ~InCall(t) /\ ~WillClear(t)
    BY DEF AtRest, WillClear
  <2>2. SwitchedOff
    <3>1. <<>> \in BehindState
      BY Zenon DEF BehindState
    <3> QED
      BY <3>1 DEF AtRest, SwitchedOff
  <2>3. Silences
    BY Parts DEF BuzzerInv
  <2> QED
    BY <2>1, <2>2, <2>3 DEF Silences
<1> QED
  BY <1>1, Invariance, PTL
=============================================================================
