---------------------------- MODULE ScriptEngine ----------------------------
(***************************************************************************)
(* ScriptEngine and ScriptBuilder (border/blockchain/script.py): a stack   *)
(* machine that runs an unlocking script followed by a locking script.     *)
(* One step is one turn of the loop in run.  Byte strings are values of    *)
(* the kinds that the opcodes tell apart: the empty string, a small number *)
(* of one byte, a number of four bytes, a signature, a public key or a     *)
(* hash.  A signature verifies under the key that made it.                 *)
(***************************************************************************)
EXTENDS Integers, FiniteSets, SequencesExt

CONSTANTS
    ScriptKeys,      \* wallets
    Programs,        \* the scripts that are run: code, height, template and its arguments
    Conditionals,    \* conditionals and their branches: code, and the values it leaves
    MaxStack,        \* MAX_STACK_DEPTH
    MaxOps,          \* MAX_SCRIPT_OPS
    MaxWord,         \* the largest number of four bytes with a sign
    NoScriptKey

VARIABLES program, pc, stack, ops, verdict

scriptVars == <<program, pc, stack, ops, verdict>>

(* ------------------------------ values and code -------------------------- *)

Value(kind, key, num) == [kind |-> kind, key |-> key, num |-> num]
ScriptValues == [kind : {"empty", "small", "word", "sig", "pub", "hash"},
                 key : ScriptKeys \cup {NoScriptKey}, num : Int]
Empty == Value("empty", NoScriptKey, 0)
Small(n) == Value("small", NoScriptKey, n)
Word(n) == Value("word", NoScriptKey, n)
Sig(k) == Value("sig", k, 0)
Pub(k) == Value("pub", k, 0)

\* Only the empty string and a single zero byte are false; a word of zeros is not.
Truthy(v) == v.kind # "empty" /\ v # Small(0)

\* What int.from_bytes makes a number of four bytes of; the other strings are too long.
IsNumber(v) == v.kind \in {"empty", "small", "word"}

\* Two rounds of SHA-256 on a public key; other hashes are not compared.
Hash256(v) == Value("hash", v.key, v.num)

Op(name) == [op |-> name, arg |-> Empty]
PushOp(v) == [op |-> "PUSH", arg |-> v]

\* OP_1 to OP_16 push a small number.
NumberOp(n) == PushOp(Small(n))

\* ScriptBuilder.p2pkh_lock and p2pkh_unlock
P2pkhLock(k) == <<Op("DUP"), Op("HASH256"), PushOp(Hash256(Pub(k))), Op("EQUALVERIFY"), Op("CHECKSIG")>>
P2pkhUnlock(signer, k) == <<PushOp(Sig(signer)), PushOp(Pub(k))>>

\* ScriptBuilder.multisig_lock and multisig_unlock
MultisigLock(m, keys) ==
    <<NumberOp(m)>> \o [i \in DOMAIN keys |-> PushOp(Pub(keys[i]))] \o <<NumberOp(Len(keys)), Op("CHECKMULTISIG")>>
MultisigUnlock(signers) == <<PushOp(Empty)>> \o [i \in DOMAIN signers |-> PushOp(Sig(signers[i]))]

\* ScriptBuilder.timelock_lock
TimelockLock(height, k) == <<PushOp(Word(height)), Op("CLAIMTIMEVERIFY"), Op("DROP")>> \o P2pkhLock(k)

\* ScriptBuilder.data_carrier
DataCarrier == <<Op("RETURN"), PushOp(Word(7))>>

\* A branch that pushes a value, and a conditional with two branches, each with the values
\* that it leaves.  The skipping from a false condition ends at the first OP_ELSE or OP_ENDIF
\* that brings the depth to 0: over a single push it ends at the OP_ELSE of the conditional.
\* Over a conditional it ends at that one's OP_ENDIF, and the OP_ELSE that comes next skips
\* the other branch as well, so that neither is run.
Leaf(v) == [code |-> <<PushOp(v)>>, left |-> <<v>>]
IsLeaf(t) == t.left # <<>> /\ t = Leaf(t.left[1])
IfElse(c, yes, no) ==
    [code |-> <<PushOp(c), Op("IF")>> \o yes.code \o <<Op("ELSE")>> \o no.code \o <<Op("ENDIF")>>,
     left |-> IF Truthy(c) THEN yes.left ELSE IF IsLeaf(yes) THEN no.left ELSE <<>>]

\* A branch that OP_IF skips is a push or a conditional of two pushes: over a deeper one the
\* skipping may end within it.
OfTwoLeaves(t) == t = IfElse(t.code[1].arg, Leaf(t.code[3].arg), Leaf(t.code[5].arg))
Branches(t, c, yes, no) == t = IfElse(c, yes, no) /\ (Truthy(c) \/ IsLeaf(yes) \/ OfTwoLeaves(yes))

\* The programs of a template are what the builders made, with numbers they take, and fit
\* the engine; a program of template "if" is a conditional.
ASSUME ScriptAssumption ==
    /\ {MaxStack, MaxOps, MaxWord} \subseteq Nat /\ NoScriptKey \notin ScriptKeys
    /\ \A p \in Programs :
          /\ p.code \in Seq([op : STRING, arg : ScriptValues]) /\ p.height \in Nat
          /\ p.template \in {"p2pkh", "multisig", "timelock"} =>
                /\ Len(p.code) <= MaxStack + 1 /\ Len(p.code) <= MaxOps + 1
                /\ p.signers \in Seq(ScriptKeys) /\ p.keys \in Seq(ScriptKeys) /\ p.pub \in ScriptKeys
          /\ p.template = "p2pkh" =>
                /\ Len(p.signers) = 1 /\ Len(p.keys) = 1
                /\ p.code = P2pkhUnlock(p.signers[1], p.pub) \o P2pkhLock(p.keys[1])
          /\ p.template = "timelock" =>
                /\ Len(p.signers) = 1 /\ Len(p.keys) = 1 /\ p.lock \in 0..MaxWord
                /\ p.code = P2pkhUnlock(p.signers[1], p.pub) \o TimelockLock(p.lock, p.keys[1])
          /\ p.template = "multisig" =>
                /\ p.m \in 1..Len(p.keys) /\ Len(p.keys) <= 15
                /\ p.code = MultisigUnlock(p.signers) \o MultisigLock(p.m, p.keys)
          /\ p.template = "if" =>
                /\ Len(p.code) <= MaxOps + 1 /\ MaxStack >= 1
                /\ \E t \in Conditionals : p.code = t.code /\ p.left = t.left
    /\ \A t \in Conditionals :
          /\ t.code \in Seq([op : STRING, arg : ScriptValues]) /\ Len(t.code) > 0
          /\ IsLeaf(t) \/ \E yes, no \in Conditionals : Branches(t, t.code[1].arg, yes, no)

(* --------------------------------- the machine --------------------------- *)

ScriptInit ==
    /\ program \in Programs
    /\ pc = 1 /\ stack = <<>> /\ ops = 0 /\ verdict = "running"

Current == program.code[pc]
Top(i) == stack[Len(stack) - i]
Below(n) == SubSeq(stack, 1, Len(stack) - n)

\* The step ends the run: a check failed, or _pop or _top found too little.
Refuse == verdict' = "refused" /\ ops' = ops + 1 /\ UNCHANGED <<program, pc, stack>>

\* The step leaves stack s; _push refuses to go beyond the limit.
Go(s) ==
    IF Len(s) > MaxStack THEN Refuse
    ELSE stack' = s /\ pc' = pc + 1 /\ ops' = ops + 1 /\ UNCHANGED <<program, verdict>>

\* An opcode that takes n values off the stack, and leaves s.
Take(n, s) == IF Len(stack) < n THEN Refuse ELSE Go(s)

\* An opcode that takes n values off the stack and goes on only if ok holds.
Verify(n, ok, s) == IF Len(stack) < n THEN Refuse ELSE IF ok THEN Go(s) ELSE Refuse

Bool(b) == IF b THEN Small(1) ELSE Empty

\* The result of a calculation has four bytes and a sign, or to_bytes refuses it.
Calculate(n, numbers) == Verify(2, numbers /\ n <= MaxWord /\ n >= -MaxWord - 1, Append(Below(2), Word(n)))

Simple ==
    \/ Current.op = "PUSH" /\ Go(Append(stack, Current.arg))
    \/ Current.op = "DUP" /\ Take(1, Append(stack, Top(0)))
    \/ Current.op = "DROP" /\ Take(1, Below(1))
    \/ Current.op = "HASH256" /\ Take(1, Append(Below(1), Hash256(Top(0))))
    \/ Current.op = "EQUAL" /\ Take(2, Append(Below(2), Bool(Top(0) = Top(1))))
    \/ Current.op = "EQUALVERIFY" /\ Verify(2, Top(0) = Top(1), Below(2))
    \/ Current.op = "NOT" /\ Take(1, Append(Below(1), Bool(~Truthy(Top(0)))))
    \/ Current.op = "ADD" /\ Calculate(Top(1).num + Top(0).num, IsNumber(Top(1)) /\ IsNumber(Top(0)))
    \/ Current.op = "SUB" /\ IF Len(stack) >= 2 /\ Top(1) = Top(0) THEN Calculate(0, TRUE)
                             ELSE Calculate(Top(1).num - Top(0).num, IsNumber(Top(1)) /\ IsNumber(Top(0)))
    \/ Current.op = "RETURN" /\ Refuse
    \/ Current.op = "ENDIF" /\ Go(stack)

\* BorderWallet.verify
SignatureOk(sig, pub) == sig.kind = "sig" /\ pub.kind = "pub" /\ sig.key = pub.key

\* _checksig
CheckSig == Current.op = "CHECKSIG" /\ Verify(2, SignatureOk(Top(1), Top(0)), Append(Below(2), Small(1)))

\* Mutant: a key that has matched is tried again for the next signature.
MatchedAgain(sigs, pubs) ==
    Cardinality({i \in DOMAIN sigs : \E j \in DOMAIN pubs : SignatureOk(sigs[i], pubs[j])})

\* How many signatures find a key, when every key is tried once and in order: found[j] of
\* them do among the first j keys.
Matched(sigs, pubs) ==
    LET found[j \in 0..Len(pubs)] ==
            IF j = 0 THEN 0
            ELSE LET k == found[j - 1]
                 IN  IF k < Len(sigs) /\ SignatureOk(sigs[k + 1], pubs[j]) THEN k + 1 ELSE k
    IN  found[Len(pubs)]

\* The first byte of a string; that of a signature, a key or a hash may be any.
FirstByte(v) == IF IsNumber(v) THEN {v.num % 256} ELSE 0..255

\* A key that is no text is refused by decode.
MayNotDecode(pubs) == \E i \in DOMAIN pubs : pubs[i].kind \in {"small", "word", "hash"}

\* _checkmultisig: n, n keys, m, m signatures and, if there is one, the dummy.
CheckMultisig ==
    /\ Current.op = "CHECKMULTISIG"
    /\ \/ Len(stack) < 1 /\ Refuse
       \/ /\ Len(stack) >= 1
          /\ \E n \in FirstByte(Top(0)) :
                \/ Len(stack) < n + 2 /\ Refuse
                \/ /\ Len(stack) >= n + 2
                   /\ \E m \in FirstByte(Top(n + 1)) :
                         LET taken == 2 + n + m
                             pubs == [i \in 1..n |-> Top(i)]
                             sigs == [i \in 1..m |-> Top(n + 1 + i)]
                             rest == Below(IF Len(stack) > taken THEN taken + 1 ELSE taken)
                         IN  \/ (Len(stack) < taken \/ MayNotDecode(pubs)) /\ Refuse
                             \/ Len(stack) >= taken /\ Matched(sigs, pubs) < m /\ Refuse
                             \/ Len(stack) >= taken /\ Matched(sigs, pubs) >= m /\ Go(Append(rest, Small(1)))

\* OP_CLAIMTIMEVERIFY compares the height of the chain, as a number without a sign: no chain
\* is as high as a negative one, or as a longer string, says.
Unlocked(v) == IsNumber(v) /\ v.num >= 0 /\ program.height >= v.num
ClaimTimeVerify == Current.op = "CLAIMTIMEVERIFY" /\ Verify(1, Unlocked(Top(0)), stack)

\* Where the scan that starts at i stops: behind the opcode that brings the depth
\* to 0, or behind the script.  closing are the opcodes that lower the depth.
ScanEnd(i, closing) ==
    LET end == Len(program.code) + 1
        depth[j \in 0..end] ==
            IF j <= i THEN 1
            ELSE LET op == program.code[j - 1].op
                 IN  depth[j - 1] + (IF op = "IF" THEN 1 ELSE IF op \in closing THEN -1 ELSE 0)
    IN  Min({j \in i..end : depth[j] = 0} \cup {end})

\* A false condition: OP_ELSE and OP_ENDIF both lower the depth.
SkipFromIf == ScanEnd(pc + 1, {"ELSE", "ENDIF"})

\* The end of the branch that was run: skip to OP_ENDIF.
SkipFromElse == ScanEnd(pc + 1, {"ENDIF"})

JumpTo(i, s) == pc' = i /\ stack' = s /\ ops' = ops + 1 /\ UNCHANGED <<program, verdict>>

Conditional ==
    \/ /\ Current.op = "IF"
       /\ IF stack = <<>> THEN Refuse
          ELSE IF Truthy(Top(0)) THEN Go(Below(1)) ELSE JumpTo(SkipFromIf, Below(1))
    \/ Current.op = "ELSE" /\ JumpTo(SkipFromElse, stack)

\* One turn of the loop
ScriptStep ==
    /\ verdict = "running" /\ pc <= Len(program.code)
    /\ \/ ops > MaxOps /\ verdict' = "refused" /\ UNCHANGED <<program, pc, stack, ops>>
       \/ ops <= MaxOps /\ (Simple \/ CheckSig \/ CheckMultisig \/ ClaimTimeVerify \/ Conditional)

\* The end of the script: the top of the stack decides.
ScriptEnd ==
    /\ verdict = "running" /\ pc > Len(program.code)
    /\ verdict' = IF stack # <<>> /\ Truthy(Top(0)) THEN "accepted" ELSE "refused"
    /\ UNCHANGED <<program, pc, stack, ops>>

ScriptNext == ScriptStep \/ ScriptEnd

ScriptSpec == ScriptInit /\ [][ScriptNext]_scriptVars

(* ------------------------------- properties ------------------------------ *)

\* The stack never outgrows MAX_STACK_DEPTH, and no script takes more steps than
\* it has opcodes, nor more than MAX_SCRIPT_OPS allows: the scans that skip a
\* branch go forward only (script.py:234-237, 307-331, 357-360).
ScriptTypeOK ==
    /\ Len(stack) <= MaxStack
    /\ ops <= Len(program.code) /\ ops <= MaxOps + 1
    /\ pc \in 1..Len(program.code) + 1

\* A script that pays to a key hash is unlocked exactly by a signature of that
\* key together with that key (script.py:113-137, 372-382).
P2pkhHolds ==
    program.template = "p2pkh" /\ verdict # "running" =>
        ((verdict = "accepted") <=> (program.signers = <<program.keys[1]>> /\ program.pub = program.keys[1]))

\* An m-of-n script is unlocked exactly when its last m signatures are by m
\* different keys in the order of the keys; one key that signs twice does not
\* count twice (script.py:139-160, 384-416).
MultisigHolds ==
    program.template = "multisig" /\ verdict # "running" =>
        LET m == program.m
            extra == Len(program.signers) - m
        IN  ((verdict = "accepted") <=>
                (/\ extra >= 0
                 /\ \E f \in [1..m -> DOMAIN program.keys] :
                     /\ \A i, j \in 1..m : i < j => f[i] < f[j]
                     /\ \A i \in 1..m : program.keys[f[i]] = program.signers[extra + i]))

\* A time-locked script is unlocked only from its height on, and from then on by
\* its key alone (script.py:162-177, 298-302).
TimelockHolds ==
    program.template = "timelock" /\ verdict # "running" =>
        ((verdict = "accepted") <=> (/\ program.height >= program.lock
                                   /\ program.signers = <<program.keys[1]>> /\ program.pub = program.keys[1]))

\* Of a conditional at most one branch is run: the one its condition selects, and so on in
\* that branch, except that a false condition before a branch that is a conditional itself
\* runs neither.  What the branch that is run leaves is all that is left (script.py:307-334).
BranchSelected ==
    program.template = "if" /\ verdict # "running" => stack = program.left

\* Every script of the builders is unlocked exactly by what it was built for, within the
\* limits of the engine, and a conditional runs the branch that BranchSelected names.
ScriptsHold == ScriptTypeOK /\ P2pkhHolds /\ MultisigHolds /\ TimelockHolds /\ BranchSelected
=============================================================================
