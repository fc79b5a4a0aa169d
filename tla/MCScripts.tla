----------------------------- MODULE MCScripts -----------------------------
(* The scripts that ScriptEngine runs under TLC. *)
EXTENDS ScriptEngine

CONSTANTS k1, k2, k3

Script(code, height, template, signers, pub, keys, m, lock) ==
    [code |-> code, height |-> height, template |-> template, signers |-> signers,
     pub |-> pub, keys |-> keys, m |-> m, lock |-> lock, left |-> <<>>]

\* The templates: every signer, key and owner; every sequence of signers and every number
\* of them; heights about the lock.
MCP2pkh ==
    {Script(P2pkhUnlock(s, k) \o P2pkhLock(o), 0, "p2pkh", <<s>>, k, <<o>>, 0, 0) : s, k, o \in ScriptKeys}
MCMultisig ==
    {Script(MultisigUnlock(ss) \o MultisigLock(m, <<k1, k2, k3>>), 0, "multisig", ss, k1, <<k1, k2, k3>>, m, 0) :
        ss \in BoundedSeq(ScriptKeys, 3), m \in 1..3}
MCTimelock ==
    {Script(P2pkhUnlock(s, k) \o TimelockLock(lock, k1), h, "timelock", <<s>>, k, <<k1>>, 0, lock) :
        s, k \in {k1, k2}, lock \in {0, 3}, h \in 2..4}

\* A branch pushes a number, or holds a conditional of its own: in a branch that is run, in
\* one that is skipped from OP_ELSE on, or in one that is skipped from OP_IF on.
Conditions == {Empty, Small(0), Small(1)}
Push(n) == Leaf(Small(n))
Nested == {Push(2)} \cup {IfElse(c, Push(3), Push(4)) : c \in Conditions}
Outer == {IfElse(c, yes, no) : c \in Conditions, yes, no \in Nested}
MCConditionals == {Push(n) : n \in 2..4} \cup Nested \cup Outer
MCIf == {[Script(t.code, 0, "if", <<>>, k1, <<>>, 0, 0) EXCEPT !.left = t.left] : t \in Outer}

\* Any three operations, what numbers and keys are not used for by the builders, and scripts
\* at the limits of the numbers, of the stack and of the operations.
Bare(code) == Script(code, 0, "other", <<>>, k1, <<>>, 0, 0)
MCOps == {Op(n) : n \in {"DUP", "DROP", "HASH256", "EQUAL", "NOT", "IF", "ELSE", "ENDIF", "ADD", "SUB", "RETURN"}}
         \cup {NumberOp(1), PushOp(Empty)}
MCAny ==
    {Bare(c) : c \in BoundedSeq(MCOps, 3) \cup {DataCarrier}
                \cup {<<a, b, Op(n)>> : a, b \in {PushOp(Word(MaxWord)), PushOp(Word(-1)), PushOp(Sig(k1)), PushOp(Small(0))},
                                       n \in {"ADD", "SUB", "CHECKSIG", "CHECKMULTISIG", "CLAIMTIMEVERIFY"}}}
    \cup {Bare([i \in 1..n |-> NumberOp(1)]) : n \in 1..(MaxOps + 2)}
    \cup {Bare([i \in 1..n |-> IF i % 2 = 1 THEN NumberOp(1) ELSE Op("DROP")]) : n \in 1..(MaxOps + 2)}

MCPrograms == MCP2pkh \cup MCMultisig \cup MCTimelock \cup MCIf \cup MCAny
=============================================================================
