------------------------------ MODULE Syscalls ------------------------------
(***************************************************************************)
(* The wrappers of src/exercises/02_no_std_dev/04_syscall_wrapper: a       *)
(* register file, what asm! tells the compiler it reads and writes, and    *)
(* the kernel, which follows the ABI that the crate describes.             *)
(***************************************************************************)
EXTENDS Naturals, Sequences, Functions

CONSTANTS
    Words,   \* the values of arguments and results
    Live,    \* what the caller keeps in the registers it uses
    Junk     \* what the instruction leaves in those it clobbers

VARIABLES
    arch,      \* the target the crate is built for
    pc,
    regs,      \* the register file
    loaded,    \* its content when the instruction was reached
    request,   \* the wrapper that is called, and its arguments
    served,    \* the call the kernel served, and its result
    ret        \* what the wrapper returned

vars == <<arch, pc, regs, loaded, request, served, ret>>

-----------------------------------------------------------------------------
\* x86_64_abi(), aarch64_abi(), riscv64_abi().
AsmGeneric == [write |-> 64, read |-> 63, close |-> 57, exit |-> 93]

Abi == [
    x86_64 |-> [id |-> "rax", ret |-> "rax",
                args |-> <<"rdi", "rsi", "rdx", "r10", "r8", "r9">>,
                clobbered |-> {"rcx", "r11"},
                number |-> [write |-> 1, read |-> 0, close |-> 3, exit |-> 60]],
    aarch64 |-> [id |-> "x8", ret |-> "x0",
                 args |-> <<"x0", "x1", "x2", "x3", "x4", "x5">>,
                 clobbered |-> {}, number |-> AsmGeneric],
    riscv64 |-> [id |-> "a7", ret |-> "a0",
                 args |-> <<"a0", "a1", "a2", "a3", "a4", "a5">>,
                 clobbered |-> {}, number |-> AsmGeneric]]

OperandsNoClobbers == [  \* mutant: out("rcx") and out("r11") left out
    x86_64 |-> [in |-> <<"rax", "rdi", "rsi", "rdx">>, out |-> "rax", discarded |-> {}],
    aarch64 |-> [in |-> <<"x8", "x0", "x1", "x2">>, out |-> "x0", discarded |-> {}]]

\* The operands of syscall3's asm!: where it loads the call, and the
\* registers it declares written.  There is no syscall3 for riscv64.
Operands == [
    x86_64 |-> [in |-> <<"rax", "rdi", "rsi", "rdx">>, out |-> "rax", discarded |-> {"rcx", "r11"}],
    aarch64 |-> [in |-> <<"x8", "x0", "x1", "x2">>, out |-> "x0", discarded |-> {}]]

\* NATIVE_SYS_WRITE, _READ, _CLOSE and _EXIT.
Native == [
    x86_64 |-> [write |-> 1, read |-> 0, close |-> 3, exit |-> 60],
    aarch64 |-> [write |-> 64, read |-> 63, close |-> 57, exit |-> 93]]

Linux == {"x86_64", "aarch64"}
Registers(a) == {Abi[a].id} \cup Range(Abi[a].args) \cup Abi[a].clobbered

-----------------------------------------------------------------------------
Init ==
    /\ arch \in Linux \cup {"not linux"}
    /\ pc = "idle"
    /\ regs = IF arch \in Linux THEN [q \in Registers(arch) |-> Live] ELSE <<>>
    /\ loaded = regs
    /\ request = <<>> /\ served = <<>> /\ ret = Junk

\* sys_write(fd, buf), sys_read(fd, buf), sys_close(fd) and sys_exit(code).
Requests ==
    {<<name, fd, buf, n>> : name \in {"write", "read"}, fd, buf, n \in Words}
    \cup {<<name, w, 0, 0>> : name \in {"close", "exit"}, w \in Words}

\* syscall3(NATIVE_.., ..): the operands are loaded; what the caller keeps in
\* their registers and in those declared written is moved away before ...
Load(r) ==
    LET in == Operands[arch].in
        operand == <<Native[arch][r[1]], r[2], r[3], r[4]>>
    IN
    /\ pc = "idle"
    /\ request' = r
    /\ regs' = [q \in DOMAIN regs |->
                   IF q \in Range(in) THEN operand[CHOOSE k \in 1..4 : in[k] = q] ELSE regs[q]]
    /\ loaded' = regs'
    /\ pc' = "trap"
    /\ UNCHANGED <<arch, served, ret>>

\* ... the instruction traps: the kernel takes the number and the arguments
\* from where the ABI puts them, and answers, or ends the caller ...
Kernel(result) ==
    LET abi == Abi[arch]
        name == CHOOSE n \in DOMAIN abi.number : abi.number[n] = regs[abi.id]
    IN
    /\ pc = "trap"
    /\ served' = <<name, regs[abi.args[1]], regs[abi.args[2]], regs[abi.args[3]], result>>
    /\ regs' = [q \in DOMAIN regs |->
                   IF q = abi.ret THEN result ELSE IF q \in abi.clobbered THEN Junk ELSE regs[q]]
    /\ pc' = IF name = "exit" THEN "gone" ELSE "return"
    /\ UNCHANGED <<arch, loaded, request, ret>>

\* ... and the wrapper returns; the caller's registers are restored.
Return ==
    /\ pc = "return"
    /\ ret' = regs[Operands[arch].out]
    /\ pc' = "returned"
    /\ UNCHANGED <<arch, regs, loaded, request, served>>

CallAgain ==
    /\ pc = "returned"
    /\ pc' = "idle" /\ request' = <<>> /\ served' = <<>> /\ ret' = Junk
    /\ regs' = [q \in DOMAIN regs |-> Live]
    /\ loaded' = regs'
    /\ UNCHANGED arch

\* The stub of other systems.
Panic ==
    /\ pc = "idle" /\ arch \notin Linux
    /\ pc' = "panic"
    /\ UNCHANGED <<arch, regs, loaded, request, served, ret>>

Next ==
    \/ arch \in Linux /\ \E r \in Requests : Load(r)
    \/ \E result \in Words : Kernel(result)
    \/ Return \/ CallAgain \/ Panic

-----------------------------------------------------------------------------
\* CallServed: what asm! declares and what the ABI says agree.  The kernel
\* serves the call that was made, with its arguments; the wrapper returns the
\* result; and a register that asm! only reads, or does not name, still holds
\* what it held before the instruction, as the compiler assumes.
Declared == {Operands[arch].out} \cup Operands[arch].discarded

CallServed ==
    pc \in {"return", "returned", "gone"} =>
        /\ SubSeq(served, 1, 4) = request
        /\ pc = "gone" <=> request[1] = "exit"
        /\ \A q \in DOMAIN regs \ Declared : pc # "gone" => regs[q] = loaded[q]
        /\ pc = "returned" => ret = served[5]
=============================================================================
