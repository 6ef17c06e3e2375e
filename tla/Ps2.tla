-------------------------------- MODULE Ps2 ---------------------------------
(***************************************************************************)
(* The PS/2 driver: ps2_init (drivers/ps2.c), then kb_enable_scanning      *)
(* (drivers/keyboard.c), as kernel_main calls them, against a controller   *)
(* and two devices.                                                        *)
(*                                                                         *)
(* The driver's code is a sequence of instructions; each is one access to  *)
(* a port with the polling loop in front of it.  A byte that is read is    *)
(* the set of its one bits.  Commands are named by their hexadecimal code. *)
(* The controller and the devices are external, modelled from what the     *)
(* driver expects of them: they may be slow, but an answer is complete     *)
(* when a loop that drains the output buffer looks for the rest of it.     *)
(***************************************************************************)
EXTENDS Integers, Sequences

CONSTANTS Dual,        \* whether the controller has a second port, with a device: choices
          Healthy,     \* the self tests succeed
          MaxTyped,    \* bound on the bytes a device sends unasked
          MaxResend    \* bound on the times the keyboard answers 0xf4 with 0xfe, "resend"

VARIABLES pc,          \* index of the driver's next instruction
          cfg, dual,   \* locals of ps2_init and dev1_enable_irq
          ibuf,        \* the controller's input buffer (bit 1 of STATUS when full)
          obuf,        \* its output buffer (bit 0 of STATUS when full)
          ctl,         \* the controller: configuration, where data goes, answers
          dev,         \* the devices: bytes to send, scanning, bytes sent unasked
          lost         \* (history) a write met a full input buffer

vars == <<pc, cfg, dual, ibuf, obuf, ctl, dev, lost>>
hw == <<ibuf, ctl, dev>>

\* Bytes by their bits.
FA == {1, 3, 4, 5, 6, 7}
AA == {1, 3, 5, 7}
FE == {1, 2, 3, 4, 5, 6, 7}
x55 == {0, 2, 4, 6}
xAB == {0, 1, 3, 5, 7}
x83 == {0, 1, 7}
Key == {2, 3, 4}       \* 0x1c, the key A
\* Bits of the configuration byte.
Irq(d) == d
Off(d) == 4 + d        \* the clock of port d is off
Translate == 6

-----------------------------------------------------------------------------
\* The driver's code. An instruction is an operation and what it writes; those of
\* the second port are passed over when dual_channel is false.
I(op, x) == [op |-> op, x |-> x, second |-> FALSE]

disable_devices == <<I("command", "ad"), I("command", "a7")>>

ReadConfig(op) == <<I("command", "20"), I(op, "")>>
WriteConfig == <<I("command", "60"), I("config", "")>>

\* send waits before the data, but not before the prefix 0xd4.
send(x, port) == IF port = 0 THEN <<I("data", x)>> ELSE <<I("prefix", "d4"), I("data", x)>>

detect_device(port) ==
  send("f5", port) \o <<I("until", "")>> \o send("f2", port) \o <<I("until", ""), I("poll", "")>>

Second(code) == [k \in 1..Len(code) |-> [code[k] EXCEPT !.second = TRUE]]

ps2_init ==
  disable_devices \o <<I("flush", "")>>
  \o ReadConfig("clear") \o WriteConfig
  \o <<I("command", "aa"), I("selftest", "")>> \o WriteConfig
  \o <<I("command", "a8")>> \o ReadConfig("channels")
  \o Second(<<I("command", "a7")>> \o WriteConfig)
  \o <<I("command", "ab"), I("porttest", "")>> \o Second(<<I("command", "a9"), I("porttest", "")>>)
  \o <<I("command", "ae")>> \o Second(<<I("command", "a8")>>)
  \o send("ff", 0) \o <<I("reset", ""), I("poll", ""), I("drain", "")>>
  \o Second(<<I("drain", "")>> \o send("ff", 1) \o <<I("reset", ""), I("poll", ""), I("drain", "")>>)
  \o detect_device(0) \o <<I("drain", "")>>
  \o detect_device(1) \o <<I("drain", "")>>

dev1_enable_irq == ReadConfig("enable") \o WriteConfig

kb_enable_scanning ==
  send("f0", 0) \o <<I("ack", "")>> \o send("0", 0) \o <<I("ack2", ""), I("poll", "")>>
  \o send("f4", 0) \o <<I("resend", "")>> \o dev1_enable_irq

Code == ps2_init \o kb_enable_scanning
Return == Len(ps2_init) + 1          \* where ps2_init returns to
SendF4 == Len(ps2_init) + 6          \* the loop of kb_enable_scanning

-----------------------------------------------------------------------------
Quiet == [q |-> <<>>, scanning |-> TRUE, typed |-> 0, resends |-> 0]

\* The firmware has used the controller and left it running, with a key or without.
Init ==
  /\ pc = 1 /\ cfg = {} /\ dual = FALSE
  /\ ibuf = <<>> /\ obuf = <<>>
  /\ ctl \in [cfg : {{Irq(0), Irq(1), Translate}, {Off(0), Off(1)}}, to : {"0"}, out : {<<>>},
              two : Dual]
  /\ dev = [d \in 0..1 |-> Quiet]
  /\ lost = FALSE

At(op) == pc <= Len(Code) /\ Code[pc].op = op /\ (Code[pc].second => dual)

PassOver ==
  /\ pc <= Len(Code) /\ Code[pc].second /\ ~dual
  /\ pc' = pc + 1 /\ UNCHANGED <<cfg, dual, obuf, hw, lost>>

\* Mutant of MayWrite: the input buffer is not waited for.
MayWriteAlways == TRUE

\* The loop of write, and of send: while (inb(STATUS) & 0x2).
MayWrite == ibuf = <<>>

Put(port, x, b) ==
  /\ ibuf' = <<[port |-> port, x |-> x, b |-> b]>>
  /\ lost' = (lost \/ ibuf # <<>>)
  /\ pc' = pc + 1 /\ UNCHANGED <<cfg, dual, obuf, ctl, dev>>

WriteCommand == At("command") /\ MayWrite /\ Put("command", Code[pc].x, {})
WritePrefix == At("prefix") /\ Put("command", "d4", {})
WriteData == At("data") /\ MayWrite /\ Put("data", Code[pc].x, {})
WriteCfg == At("config") /\ MayWrite /\ Put("data", "", cfg)

\* inb(DATA), without looking whether there is something; and the drain loops.
Flush ==
  /\ At("flush") /\ obuf' = <<>> /\ pc' = pc + 1
  /\ UNCHANGED <<cfg, dual, hw, lost>>

Drain ==
  /\ At("drain")
  /\ \/ obuf # <<>> /\ obuf' = <<>> /\ UNCHANGED pc
     \/ /\ obuf = <<>> /\ pc' = pc + 1 /\ UNCHANGED obuf
        /\ \A d \in 0..1 : dev[d].q = <<>> \/ Off(d) \in ctl.cfg
  /\ UNCHANGED <<cfg, dual, hw, lost>>

\* read and poll wait for a byte and take it. c and two are the new locals, to where
\* the driver goes on.
Take(op, c, two, to) ==
  /\ At(op) /\ obuf # <<>>
  /\ obuf' = <<>> /\ cfg' = c /\ dual' = two /\ pc' = to
  /\ UNCHANGED <<hw, lost>>

Byte == obuf[1]

\* cfg |= 0x1 in dev1_enable_irq.
EnableIrq(b) == b \cup {Irq(0)}

\* Mutant of Unanswered: an acknowledgement is taken for a request to resend.
UnansweredAck(b) == b \in {FE, FA}

\* The condition of the loop that sends 0xf4.
Unanswered(b) == b = FE

\* What each read does with its byte: a failed test returns from ps2_init.
Reads ==
  \/ Take("clear", Byte \ {Irq(0), Off(0), Translate}, dual, pc + 1)
  \/ Take("selftest", cfg, dual, IF Byte = x55 THEN pc + 1 ELSE Return)
  \/ Take("channels", IF Off(1) \in Byte THEN Byte ELSE Byte \ {Irq(1), Off(1)},
          Off(1) \notin Byte, pc + 1)
  \/ Take("porttest", cfg, dual, IF Byte = {} THEN pc + 1 ELSE Return)
  \/ Take("reset", cfg, dual, IF Byte \in {FA, AA} THEN pc + 1 ELSE Return)
  \/ Take("poll", cfg, dual, pc + 1)
  \/ Take("until", cfg, dual, IF Byte = FA THEN pc + 1 ELSE pc)
  \/ Take("ack", cfg, dual, IF Byte = FA THEN pc + 1 ELSE SendF4)
  \/ Take("ack2", cfg, dual, IF Byte = FA THEN pc + 1 ELSE SendF4)
  \/ Take("resend", cfg, dual, IF Unanswered(Byte) THEN SendF4 ELSE pc + 1)
  \/ Take("enable", EnableIrq(Byte), dual, pc + 1)

Driver ==
  \/ PassOver \/ WriteCommand \/ WritePrefix \/ WriteData \/ WriteCfg \/ Flush \/ Drain \/ Reads

-----------------------------------------------------------------------------
\* The controller takes what was written. (external)
Answer(b) == ctl' = [ctl EXCEPT !.out = Append(@, b)]
Config(c) == ctl' = [ctl EXCEPT !.cfg = c]

Command(x) ==
  \/ x = "ad" /\ Config(ctl.cfg \cup {Off(0)})
  \/ x = "a7" /\ Config(ctl.cfg \cup {Off(1)})
  \/ x = "ae" /\ Config(ctl.cfg \ {Off(0)})
  \/ x = "a8" /\ Config(IF ctl.two THEN ctl.cfg \ {Off(1)} ELSE ctl.cfg \cup {Off(1)})
  \/ x = "20" /\ Answer(ctl.cfg)
  \/ x = "60" /\ ctl' = [ctl EXCEPT !.to = "config"]
  \/ x = "d4" /\ ctl' = [ctl EXCEPT !.to = "1"]
  \/ x = "aa" /\ \/ Answer(x55)
                 \/ ctl' = [ctl EXCEPT !.out = Append(@, x55), !.cfg = {Off(0), Off(1)}]
                 \/ ~Healthy /\ Answer(FE)
  \/ x \in {"ab", "a9"} /\ (Answer({}) \/ (~Healthy /\ Answer({0})))

\* What a device answers; a reset forgets what it had to send. It may have the
\* last command sent again. (external)
Answers(d, x) ==
  CASE x = "ff" -> <<FA, AA>> \o (IF d = 1 THEN <<{}>> ELSE <<>>)
    [] x = "f2" -> IF d = 0 THEN <<FA, xAB, x83>> ELSE <<FA, {}>>
    [] x = "0" -> <<FA, {1}>>
    [] OTHER -> <<FA>>

Obey(d, x) ==
  \/ dev' = [dev EXCEPT ![d] = [@ EXCEPT
               !.q = (IF x = "ff" THEN <<>> ELSE @) \o Answers(d, x),
               !.scanning = IF x \in {"ff", "f4"} THEN TRUE ELSE IF x = "f5" THEN FALSE ELSE @]]
  \/ /\ x = "f4" /\ dev[d].resends < MaxResend
     /\ dev' = [dev EXCEPT ![d].q = Append(@, FE), ![d].resends = @ + 1]

Controller ==
  /\ ibuf # <<>> /\ ibuf' = <<>>
  /\ LET w == ibuf[1] IN
     IF w.port = "command" THEN Command(w.x) /\ UNCHANGED dev
     ELSE /\ ctl' = [ctl EXCEPT !.to = "0", !.cfg = IF ctl.to = "config" THEN w.b ELSE @]
          /\ CASE ctl.to = "0" -> Obey(0, w.x)
               [] ctl.to = "1" /\ ctl.two -> Obey(1, w.x)
               [] OTHER -> UNCHANGED dev
  /\ UNCHANGED <<pc, cfg, dual, obuf, lost>>

\* An answer of the controller, or a byte of a device whose clock runs, arrives.
ControllerSends ==
  /\ obuf = <<>> /\ ctl.out # <<>>
  /\ obuf' = <<Head(ctl.out)>> /\ ctl' = [ctl EXCEPT !.out = Tail(@)]
  /\ UNCHANGED <<pc, cfg, dual, ibuf, dev, lost>>

DeviceSends(d) ==
  /\ obuf = <<>> /\ ctl.out = <<>> /\ dev[d].q # <<>> /\ Off(d) \notin ctl.cfg
  /\ obuf' = <<Head(dev[d].q)>> /\ dev' = [dev EXCEPT ![d].q = Tail(@)]
  /\ UNCHANGED <<pc, cfg, dual, ibuf, ctl, lost>>

\* A key is typed, or the mouse moved.
Type(d) ==
  /\ dev[d].scanning /\ dev[d].typed < MaxTyped /\ (d = 1 => ctl.two)
  /\ dev' = [dev EXCEPT ![d].q = Append(@, Key), ![d].typed = @ + 1]
  /\ UNCHANGED <<pc, cfg, dual, ibuf, obuf, ctl, lost>>

\* The interrupt of the first port: handle_keyboard takes the byte with recv.
recv ==
  /\ obuf # <<>> /\ Irq(0) \in ctl.cfg /\ Off(0) \notin ctl.cfg
  /\ obuf' = <<>> /\ UNCHANGED <<pc, cfg, dual, hw, lost>>

Hardware == Controller \/ ControllerSends \/ (\E d \in 0..1 : DeviceSends(d))

Done == pc > Len(Code)
Idle == Done /\ UNCHANGED vars

Next == Driver \/ Hardware \/ (\E d \in 0..1 : Type(d)) \/ recv \/ Idle

\* The processor runs the driver, and hardware answers in the end.
Fairness ==
  /\ WF_vars(Driver) /\ WF_vars(Controller) /\ WF_vars(ControllerSends)
  /\ \A d \in 0..1 : WF_vars(DeviceSends(d))
  /\ WF_vars(recv)

Spec == Init /\ [][Next]_vars /\ Fairness

-----------------------------------------------------------------------------
\* No byte the driver writes is dropped: the input buffer is empty at every write,
\* even at the prefix of the second port that send writes without waiting.
NoWriteLost == ~lost

\* With devices present and answering, initialization ends (no polling loop waits for
\* a byte that has already been taken, or that no command asked for) and leaves the
\* configuration the driver wants: the first port's interrupt on, its clock running, no
\* translation ("enable interrupts for the ps/2 device 1").
KeyboardEnabled ==
  Done /\ ibuf = <<>> /\ Irq(0) \in ctl.cfg /\ Off(0) \notin ctl.cfg /\ Translate \notin ctl.cfg
=============================================================================
