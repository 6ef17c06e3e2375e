--------------------------- MODULE InterruptFrame ---------------------------
(***************************************************************************)
(* The way of an interrupt through interrupts.S: the processor's pushes,   *)
(* the stub of its vector, isr_common, exception_handler's view of the     *)
(* stack through registers_t (isr.h), and the way back to the interrupted  *)
(* code.  A register holds a symbolic value: its own name when it is that  *)
(* of the interrupted code.  The stack grows at the end of the sequence.   *)
(***************************************************************************)
EXTENDS Integers, Sequences, SequencesExt

CONSTANT Vectors       \* the vectors that are raised

VARIABLES vector,      \* the vector raised
          pc, k,       \* part of the code, and the index of its next instruction
          regs,        \* the general registers
          stack        \* words pushed since the interrupt

vars == <<vector, pc, k, regs, stack>>

\* isr_common, before and after the call.
Pushed == <<"rax", "rbx", "rcx", "rdx", "rsi", "rdi", "rbp", "r8", "r9", "r10", "r11", "r12",
            "r13", "r14", "r15">>
Popped == <<"r15", "r14", "r13", "r12", "r11", "r10", "r9", "r8", "rbp", "rdi", "rsi", "rdx",
            "rcx", "rbx", "rax">>

\* The fields of registers_t, from the lowest address.
registers_t == <<"r15", "r14", "r13", "r12", "r11", "r10", "r9", "r8", "rbp", "rdi", "rsi",
                 "rdx", "rcx", "rbx", "rax", "vector", "error_code", "rip", "cs", "rflags",
                 "rsp", "ss">>

Registers == ToSet(Pushed)

\* What the processor pushes, on a stack aligned to 16 bytes. (external)
WithErrorCode == {8, 10, 11, 12, 13, 14, 17, 21, 29, 30}
Hardware == <<"ss", "rsp", "rflags", "cs", "rip">>

Init ==
  /\ vector \in Vectors /\ pc = "stub" /\ k = 1
  /\ regs = [r \in Registers |-> r]
  /\ stack = Hardware \o (IF vector \in WithErrorCode THEN <<"error_code">> ELSE <<>>)

\* The vectors whose stub is an isr_err_stub.
ErrorStubs == {8, 10, 11, 12, 13, 14, 17, 30}

\* push $0 in an isr_no_err_stub, push of the vector in both.
Stub ==
  /\ pc = "stub" /\ pc' = "push"
  /\ stack' = stack \o (IF vector \in ErrorStubs THEN <<>> ELSE <<"0">>) \o <<"vector">>
  /\ UNCHANGED <<vector, k, regs>>

Push ==
  /\ pc = "push" /\ stack' = Append(stack, regs[Pushed[k]])
  /\ IF k = Len(Pushed) THEN pc' = "call" /\ k' = 1 ELSE k' = k + 1 /\ UNCHANGED pc
  /\ UNCHANGED <<vector, regs>>

\* The C code may use the registers it need not keep. rdi is the argument.
Scratch == {"rax", "rcx", "rdx", "rsi", "rdi", "r8", "r9", "r10", "r11"}

exception_handler ==
  /\ pc = "call" /\ pc' = "pop"
  /\ regs' = [r \in Registers |-> IF r \in Scratch THEN "scratch" ELSE regs[r]]
  /\ UNCHANGED <<vector, k, stack>>

\* Mutant of PoppedAt: rax and rbx change places.
PoppedAtSwapped(i) == Popped[IF i >= 14 THEN 29 - i ELSE i]

PoppedAt(i) == Popped[i]

Pop ==
  /\ pc = "pop"
  /\ regs' = [regs EXCEPT ![PoppedAt(k)] = Last(stack)] /\ stack' = Front(stack)
  /\ IF k = Len(Popped) THEN pc' = "iretq" /\ k' = 1 ELSE k' = k + 1 /\ UNCHANGED pc
  /\ UNCHANGED vector

\* add $16, %rsp
Skip(s) == SubSeq(s, 1, Len(s) - 2)

\* iretq takes five words.
iretq ==
  /\ pc = "iretq" /\ pc' = "done" /\ stack' = Skip(stack)
  /\ UNCHANGED <<vector, k, regs>>

Returned == pc = "done" /\ UNCHANGED vars

Next == Stub \/ Push \/ exception_handler \/ Pop \/ iretq \/ Returned

Spec == Init /\ [][Next]_vars

-----------------------------------------------------------------------------
\* Field f of the registers_t that rsp points to.
Field(f) == stack[Len(stack) + 1 - (CHOOSE i \in 1..Len(registers_t) : registers_t[i] = f)]

\* exception_handler finds in each field of registers_t what its name says, for every
\* vector, whether the processor or the stub pushes the error code.
HandlerSeesFrame ==
  pc = "call" =>
    \A f \in ToSet(registers_t) :
      Field(f) = IF f = "error_code" /\ vector \notin WithErrorCode THEN "0" ELSE f

\* iretq finds what the processor pushed on top of the stack, and the interrupted code
\* has all its registers back.
ContextRestored == pc = "done" => stack = Hardware /\ regs = [r \in Registers |-> r]

\* The frame is right in both directions, for every vector.
FrameKept == HandlerSeesFrame /\ ContextRestored
=============================================================================
