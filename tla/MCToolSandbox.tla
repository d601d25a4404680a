--------------------------- MODULE MCToolSandbox ---------------------------
(***************************************************************************)
(* ToolSandbox for TLC: tool calls are interchangeable, and of a call that *)
(* is over no step reads again which stages it passed and why it was       *)
(* refused, and no property but for a refusal by the kernel.               *)
(***************************************************************************)
EXTENDS ToolSandbox, TLC

Symmetric == Permutations(Calls)
Essential ==
    <<host, trace, at, processes, bare, linked,
      [c \in Calls |-> IF at[c] = "over" THEN {} ELSE passed[c]],
      [c \in Calls |-> refusal[c] = "kernel"]>>
=============================================================================
