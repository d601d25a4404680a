------------------------------ MODULE Seccomp ------------------------------
(***************************************************************************)
(* install_seccomp of runtime/sandbox/landlock-run.c: the classic BPF      *)
(* program it assembles by hand, and the kernel running it on one system   *)
(* call.  Jumps are relative to the next instruction, as in BPF.           *)
(*                                                                         *)
(* System calls and clone flags are names, a flag word is a set, and a     *)
(* masked flag word is compared with the empty set.  The instructions under *)
(* #ifdef are all there, as on the x86_64 the file requires.               *)
(***************************************************************************)
EXTENDS Naturals, Sequences

CONSTANTS UnnamedCalls,  \* the system calls the file does not name
          OtherFlags     \* the flags of clone that make no namespace

VARIABLES
    call,      \* the system call: architecture, number, flags in its first argument
    loopback,  \* allow_loopback
    pc, acc,   \* the BPF machine; acc is the field last loaded
    flags,     \* the flag word in the accumulator when acc is "flags"
    verdict
filterVars == <<call, loopback, pc, acc, flags, verdict>>

Load(field) == [op |-> "load", k |-> field, jt |-> 0, jf |-> 0]
Jeq(k, jt, jf) == [op |-> "jeq", k |-> k, jt |-> jt, jf |-> jf]
Mask == [op |-> "and", k |-> "", jt |-> 0, jf |-> 0]
JZero(jt, jf) == [op |-> "jzero", k |-> "", jt |-> jt, jf |-> jf]
Ret(k) == [op |-> "ret", k |-> k, jt |-> 0, jf |-> 0]

\* 0x7e020080: every flag that makes a namespace.
NamespaceFlags ==
    {"NEWNS", "NEWCGROUP", "NEWUTS", "NEWIPC", "NEWUSER", "NEWPID", "NEWNET", "NEWTIME"}

Sockets ==
    <<"socket", "socketpair", "connect", "bind", "listen", "accept", "accept4",
      "sendto", "sendmsg", "sendmmsg", "recvmsg", "recvmmsg">>
Mounting ==
    <<"mount", "umount2", "pivot_root", "move_mount", "open_tree", "fsopen", "fsconfig",
      "fsmount", "mount_setattr", "setns", "unshare">>
Attributes ==
    <<"chmod", "fchmod", "fchmodat", "fchmodat2", "chown", "fchown", "lchown", "fchownat",
      "utime", "utimes", "futimesat", "utimensat", "setxattr", "lsetxattr", "fsetxattr",
      "removexattr", "lremovexattr", "fremovexattr", "mknod", "mknodat">>
Kernel ==
    <<"io_uring_setup", "bpf", "perf_event_open", "userfaultfd", "open_by_handle_at",
      "ptrace", "process_vm_readv", "process_vm_writev", "pidfd_getfd", "keyctl", "add_key",
      "request_key">>

\* A test of the number and a return, for each of the names.
Answers(names, k) ==
    [i \in 1..2 * Len(names) |-> IF i % 2 = 1 THEN Jeq(names[(i + 1) \div 2], 0, 1) ELSE Ret(k)]

Architecture == <<Load("arch"), Jeq("x86_64", 1, 0), Ret("KILL"), Load("nr")>>

\* Mutant: the jump over the test of the flags is one short.
CloneShort ==
    <<Jeq("clone", 0, 3), Load("flags"), Mask, JZero(1, 0), Ret("EPERM"), Load("nr")>>

\* Processes and threads, and no new namespaces.
Clone ==
    <<Jeq("clone", 0, 4), Load("flags"), Mask, JZero(1, 0), Ret("EPERM"), Load("nr")>>

Filter(allowed) ==
    Architecture \o Clone \o Answers(<<"clone3">>, "ENOSYS")
        \o Answers(Sockets, IF allowed THEN "ALLOW" ELSE "EPERM")
        \o Answers(Mounting, "EPERM") \o Answers(Attributes, "EPERM") \o Answers(Kernel, "EPERM")
        \o <<Ret("ALLOW")>>

Filters == [allowed \in BOOLEAN |-> Filter(allowed)]

-----------------------------------------------------------------------------
(* The machine.                                                            *)

Names(s) == {s[i] : i \in 1..Len(s)}
NamedCalls ==
    {"clone", "clone3"}
    \cup Names(Sockets) \cup Names(Mounting) \cup Names(Attributes) \cup Names(Kernel)
Numbers == UnnamedCalls \cup NamedCalls

ASSUME SeccompOK ==
    /\ UnnamedCalls \cap NamedCalls = {}
    /\ OtherFlags \cap NamespaceFlags = {}

FilterInit ==
    /\ call \in [arch : {"x86_64", "other"}, nr : Numbers, flags : {{}}]
              \cup [arch : {"x86_64"}, nr : {"clone"}, flags : SUBSET (NamespaceFlags \cup OtherFlags)]
    /\ loopback \in BOOLEAN
    /\ pc = 1 /\ acc = "" /\ flags = {} /\ verdict = ""

Instr == Filters[loopback][pc]

LoadField ==
    /\ verdict = "" /\ Instr.op = "load"
    /\ acc' = CASE Instr.k = "arch" -> call.arch [] Instr.k = "nr" -> call.nr [] OTHER -> "flags"
    /\ flags' = IF Instr.k = "flags" THEN call.flags ELSE {}
    /\ pc' = pc + 1 /\ UNCHANGED <<call, loopback, verdict>>

ApplyMask ==
    /\ verdict = "" /\ Instr.op = "and"
    /\ flags' = flags \cap NamespaceFlags
    /\ pc' = pc + 1 /\ UNCHANGED <<call, loopback, acc, verdict>>

Jump ==
    /\ verdict = ""
    /\ \/ Instr.op = "jeq" /\ pc' = pc + 1 + (IF acc = Instr.k THEN Instr.jt ELSE Instr.jf)
       \/ Instr.op = "jzero" /\ pc' = pc + 1 + (IF flags = {} THEN Instr.jt ELSE Instr.jf)
    /\ UNCHANGED <<call, loopback, acc, flags, verdict>>

Answer ==
    /\ verdict = "" /\ Instr.op = "ret" /\ verdict' = Instr.k
    /\ UNCHANGED <<call, loopback, pc, acc, flags>>

FilterNext == LoadField \/ ApplyMask \/ Jump \/ Answer

FilterSpec == FilterInit /\ [][FilterNext]_filterVars

-----------------------------------------------------------------------------
(* Properties.                                                             *)

\* What a tool's or the grader's system call should be answered, by name: the intent
\* the comments and docs/THREAT-MODEL.md:16-17 state.
Policy ==
    IF call.arch # "x86_64" THEN "KILL"
    ELSE IF call.nr = "clone3" THEN "ENOSYS"
    ELSE IF \/ call.nr = "clone" /\ call.flags \cap NamespaceFlags # {}
            \/ call.nr \in Names(Sockets) /\ ~loopback
            \/ call.nr \in Names(Mounting) \cup Names(Attributes) \cup Names(Kernel)
    THEN "EPERM"
    ELSE "ALLOW"

\* The hand-assembled jumps reach the answer the policy wants, for every system call
\* the file names and for others.
FollowsPolicy == verdict # "" => verdict = Policy
=============================================================================
