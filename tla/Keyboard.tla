------------------------------ MODULE Keyboard ------------------------------
(***************************************************************************)
(* The scan code decoder of kernel/arch/x86_64/drivers/keyboard.c, the     *)
(* key_down handler of kernel.c that echoes what is typed, and the         *)
(* keyboard that feeds them: a user presses and releases keys, the device  *)
(* queues scan code set 2 bytes, and each byte raises interrupt 0x21.      *)
(***************************************************************************)
EXTENDS Naturals, Sequences, SequencesExt

CONSTANTS
  Codes,            \* scan codes of the keys on the keyboard
  normal_keys,      \* KEY of each byte
  extended_keys,    \* KEY of each byte that follows E0
  ExtendedCodes,    \* codes of the keys the keyboard sends after E0
  Letters,          \* the KEYs A..Z
  LSHIFT, CAPSLOCK,
  MaxWire           \* bound: bytes in flight

F0 == 240
E0 == 224
ScanCodes == Codes \cup ExtendedCodes \cup {F0, E0}
KEYS == {normal_keys[b] : b \in ScanCodes} \cup {extended_keys[b] : b \in ScanCodes}

VARIABLES
  kbd,      \* state, key_states and caps_lock of keyboard.c
  echo,     \* key_down_handler is kernel.c's key_down, not default_handler
  printed,  \* what the last interrupt printed
  wire,     \* bytes sent and not yet received, each with what the user meant
            \* it to print (history)
  down,     \* the keys that are pressed
  caps      \* an odd number of caps lock make codes has been sent (history)

vars == <<kbd, echo, printed, wire, down, caps>>
-----------------------------------------------------------------------------
(***************************************************************************)
(* The driver                                                              *)
(***************************************************************************)
Nothing == <<>>

\* Mutant of Press: caps_lock is set, never cleared.
PressSetsCapsLock(s, k) ==
  [s EXCEPT !.key_states[k] = TRUE,
            !.caps_lock = s.caps_lock \/ (k = CAPSLOCK)]

\* A make code in READY: the key is down, and caps lock toggles.
Press(s, k) ==
  [s EXCEPT !.key_states[k] = TRUE,
            !.caps_lock = (s.caps_lock # (k = CAPSLOCK))]

\* Mutant of Release: BREAK is not left.
ReleaseStays(s, k) == [s EXCEPT !.key_states[k] = FALSE]

\* A break code.
Release(s, k) == [s EXCEPT !.key_states[k] = FALSE, !.state = "READY"]

\* The switch of handle_keyboard: what byte b does to the driver's state s.
Decode(s, b) ==
  CASE s.state = "READY" /\ b = F0 -> [s EXCEPT !.state = "BREAK"]
    [] s.state = "READY" /\ b = E0 -> [s EXCEPT !.state = "EXTENDED"]
    [] s.state = "READY" /\ b \notin {F0, E0} -> Press(s, normal_keys[b])
    [] s.state = "BREAK" -> Release(s, normal_keys[b])
    [] s.state = "EXTENDED" -> [s EXCEPT !.key_states[extended_keys[b]] = TRUE]
    [] s.state = "EXTENDED_BREAK" -> Release(s, extended_keys[b])

\* The keys, at most one, for which byte b in state s calls key_down_handler.
KeyDown(s, b) ==
  CASE s.state = "READY" /\ b \notin {F0, E0} -> {normal_keys[b]}
    [] s.state = "EXTENDED" -> {extended_keys[b]}
    [] OTHER -> {}

\* Mutant of key_down: the case test is not (shift or caps lock) but (caps lock).
KeyDownIgnoresShift(s, k) == IF k \in Letters THEN <<k, s.caps_lock>> ELSE Nothing

\* kernel.c's handler: the letter it prints and whether in upper case.  Return
\* and space print one fixed character each.
key_down(s, k) ==
  IF k \in Letters THEN <<k, s.key_states[LSHIFT] \/ s.caps_lock>> ELSE Nothing

\* Interrupt 0x21: read one byte, decode it, call the handler.
handle_keyboard ==
  /\ wire # <<>>
  /\ LET b == Head(wire).byte
     IN  /\ kbd' = Decode(kbd, b)
         /\ printed' = IF echo /\ KeyDown(kbd, b) # {}
                       THEN key_down(kbd', CHOOSE k \in KeyDown(kbd, b) : TRUE)
                       ELSE Nothing
  /\ wire' = Tail(wire)
  /\ UNCHANGED <<echo, down, caps>>

\* kernel_main installs key_down after interrupts are already on.
InstallHandler ==
  /\ ~echo /\ echo' = TRUE
  /\ UNCHANGED <<kbd, printed, wire, down, caps>>
-----------------------------------------------------------------------------
(***************************************************************************)
(* The keyboard                                                            *)
(***************************************************************************)
\* A key of the keyboard: its code, and whether E0 precedes it.
Keys == [code : Codes, extended : {FALSE}] \cup [code : ExtendedCodes, extended : {TRUE}]
KeyOf(q) == IF q.extended THEN extended_keys[q.code] ELSE normal_keys[q.code]

\* The bytes of key q, the last one annotated with what it is meant to print.
MakeCode(q, print) ==
  (IF q.extended THEN <<[byte |-> E0, print |-> Nothing]>> ELSE <<>>)
    \o <<[byte |-> q.code, print |-> print]>>
BreakCode(q) ==
  (IF q.extended THEN <<[byte |-> E0, print |-> Nothing]>> ELSE <<>>)
    \o <<[byte |-> F0, print |-> Nothing], [byte |-> q.code, print |-> Nothing]>>

ShiftDown == \E q \in down : KeyOf(q) = LSHIFT
Meaning(q) ==
  IF KeyOf(q) \in Letters THEN <<KeyOf(q), ShiftDown \/ caps>> ELSE Nothing

Send(bytes) ==
  /\ Len(wire) + Len(bytes) <= MaxWire
  /\ wire' = wire \o bytes

\* A key goes down or, held, repeats: the make code is sent.
PressKey(q) ==
  /\ Send(MakeCode(q, Meaning(q)))
  /\ down' = down \cup {q}
  /\ caps' = (caps # (KeyOf(q) = CAPSLOCK))
  /\ UNCHANGED <<kbd, echo, printed>>

ReleaseKey(q) ==
  /\ q \in down /\ down' = down \ {q}
  /\ Send(BreakCode(q))
  /\ UNCHANGED <<kbd, echo, printed, caps>>
-----------------------------------------------------------------------------
Init ==
  /\ kbd = [state |-> "READY", key_states |-> [k \in KEYS |-> FALSE],
            caps_lock |-> FALSE]
  /\ echo = FALSE /\ printed = Nothing
  /\ wire = <<>> /\ down = {} /\ caps = FALSE

Next == \/ handle_keyboard \/ InstallHandler
        \/ \E q \in Keys : PressKey(q) \/ ReleaseKey(q)

Spec == Init /\ [][Next]_vars

\* The interrupt is raised for every byte, and interrupts stay enabled.
FairSpec == Spec /\ WF_vars(handle_keyboard)
-----------------------------------------------------------------------------
(***************************************************************************)
(* Properties                                                              *)
(***************************************************************************)
\* No E0 has reached the driver or is on its way.
Plain == /\ kbd.state \in {"READY", "BREAK"}
         /\ \A n \in DOMAIN wire : wire[n].byte # E0

\* The driver's state once it has received every byte on the wire.
Settled == FoldLeft(LAMBDA s, e : Decode(s, e.byte), kbd, wire)
PressedKeys == {KeyOf(q) : q \in down}

\* However the interrupts lag behind the user, the bytes in flight bring the
\* driver to READY with key_states true of exactly the pressed keys and
\* caps_lock toggled once for each caps lock make code.
KeyStatesCatchUp ==
  Plain => Settled = [state |-> "READY", caps_lock |-> caps,
                      key_states |-> [k \in KEYS |-> k \in PressedKeys]]

\* key_down prints a letter in the case the user typed it in: that of shift and
\* caps lock when its key went down, not when its interrupt is handled.
EchoIsWhatWasTyped ==
  [][wire # <<>> /\ wire' = Tail(wire) /\ echo /\ Plain =>
       printed' = Head(wire).print]_vars

\* A key that stays down is eventually down in key_states and stays so, and a
\* key that stays up is eventually up there.
KeyStatesSettle ==
  \A q \in [code : Codes, extended : {FALSE}] :
    /\ <>[](Plain /\ q \in down) => <>[](kbd.key_states[KeyOf(q)])
    /\ <>[](Plain /\ q \notin down) => <>[](~kbd.key_states[KeyOf(q)])

\* The tables' comment: E0 introduces the code of an extended key, and E0 F0
\* its release.  With no byte in flight key_states is true of the pressed keys.
ExtendedKeysAreTracked ==
  wire = <<>> => \A q \in Keys : kbd.key_states[KeyOf(q)] <=> KeyOf(q) \in PressedKeys
=============================================================================
