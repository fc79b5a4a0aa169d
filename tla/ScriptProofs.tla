---------------------------- MODULE ScriptProofs ----------------------------
(***************************************************************************)
(* Theorems about the script engine, for any wallets, limits and numbers:  *)
(* every program stays within the limits, and what the builders make for   *)
(* one key, for a key from a height on, and for m of n keys is unlocked    *)
(* exactly by what it was made for.  The programs are followed operation   *)
(* by operation: KeyPlace and Arguments say what is on the stack before    *)
(* each.  The loop of _checkmultisig is a greedy choice of keys;           *)
(* GreedyFinds shows that no other choice finds more.  For a conditional,  *)
(* however deep the branches that are run are nested, BranchPlace says     *)
(* which branch is still to come, or which ways out are left.              *)
(***************************************************************************)
EXTENDS ScriptEngine, SumTheorems, SequenceTheorems

-----------------------------------------------------------------------------
(* The limits *)

\* The machine is typed and within its limits; a run that goes on has taken at most one
\* step for each operation before it.
ScriptInv ==
    /\ program \in Programs
    /\ stack \in Seq(ScriptValues) /\ Len(stack) <= MaxStack
    /\ pc \in 1..Len(program.code) + 1
    /\ ops \in Nat /\ ops <= Len(program.code) /\ ops <= MaxOps + 1
    /\ verdict = "running" => ops <= pc - 1

\* The loop goes on: what each turn of it starts from.
Turn == ScriptInv /\ verdict = "running" /\ pc <= Len(program.code) /\ ops <= MaxOps

LEMMA CodeFacts ==
  ASSUME ScriptInv
  PROVE  /\ Len(program.code) \in Nat /\ MaxStack \in Nat /\ MaxOps \in Nat
         /\ program.code \in Seq([op : STRING, arg : ScriptValues])
         /\ \A i \in 1..Len(program.code) : program.code[i].arg \in ScriptValues
<1>1. program \in Programs
  BY DEF ScriptInv
<1>2. program.code \in Seq([op : STRING, arg : ScriptValues]) /\ MaxStack \in Nat /\ MaxOps \in Nat
  BY <1>1, ScriptAssumption
<1> DEFINE S == [op : STRING, arg : ScriptValues]
<1>3. \A x \in S : x.arg \in ScriptValues
  OBVIOUS
<1>4. program.code \in Seq(S)
  BY <1>2
<1> HIDE DEF S
<1>5. Len(program.code) \in Nat /\ \A i \in 1..Len(program.code) : program.code[i] \in S
  BY <1>4
<1> QED
  BY <1>2, <1>3, <1>5

LEMMA Refused == ASSUME Turn, Refuse PROVE ScriptInv'
<1>1. /\ program' = program /\ pc' = pc /\ stack' = stack /\ ops' = ops + 1 /\ verdict' = "refused"
      /\ Len(program.code) \in Nat /\ MaxOps \in Nat
  BY CodeFacts DEF Refuse, Turn
<1>2. ops \in Nat /\ pc \in Nat /\ ops <= pc - 1 /\ pc <= Len(program.code) /\ ops <= MaxOps
  BY <1>1 DEF Turn, ScriptInv
<1>3. ops + 1 \in Nat /\ ops + 1 <= Len(program.code) /\ ops + 1 <= MaxOps + 1
  BY <1>1, <1>2
<1> QED
  BY <1>1, <1>3 DEF Turn, ScriptInv

LEMMA Jumped ==
  ASSUME Turn, NEW i, i \in pc + 1 .. Len(program.code) + 1,
         NEW s, s \in Seq(ScriptValues), Len(s) <= MaxStack, JumpTo(i, s)
  PROVE  ScriptInv'
<1>1. /\ program' = program /\ pc' = i /\ stack' = s /\ ops' = ops + 1 /\ verdict' = verdict
      /\ Len(program.code) \in Nat /\ MaxOps \in Nat
  BY CodeFacts DEF JumpTo, Turn
<1>2. /\ ops \in Nat /\ pc \in Nat \ {0} /\ ops <= pc - 1 /\ pc <= Len(program.code) /\ ops <= MaxOps
  BY <1>1 DEF Turn, ScriptInv
<1>3. /\ i \in 1..Len(program.code) + 1 /\ ops + 1 \in Nat /\ ops + 1 <= Len(program.code)
      /\ ops + 1 <= MaxOps + 1 /\ ops + 1 <= i - 1
  BY <1>1, <1>2
<1> QED
  BY <1>1, <1>3 DEF Turn, ScriptInv

LEMMA Went == ASSUME Turn, NEW s, s \in Seq(ScriptValues), Go(s) PROVE ScriptInv'
<1>1. CASE Len(s) > MaxStack
  BY <1>1, Refused DEF Go
<1>2. CASE ~ (Len(s) > MaxStack)
  <2>1. JumpTo(pc + 1, s)
    BY <1>2 DEF Go, JumpTo
  <2>2. Len(s) <= MaxStack
    BY <1>2, CodeFacts DEF Turn
  <2>3. pc + 1 \in pc + 1 .. Len(program.code) + 1
    BY CodeFacts DEF Turn, ScriptInv
  <2> QED
    BY <2>1, <2>2, <2>3, Jumped
<1> QED
  BY <1>1, <1>2

LEMMA StackFacts ==
  ASSUME ScriptInv
  PROVE  /\ Len(stack) \in Nat
         /\ \A i \in Nat : i < Len(stack) => Top(i) \in ScriptValues
         /\ \A n \in Nat : n <= Len(stack) => Below(n) \in Seq(ScriptValues) /\ Len(Below(n)) = Len(stack) - n
<1>1. stack \in Seq(ScriptValues) /\ Len(stack) \in Nat
  BY DEF ScriptInv
<1>2. ASSUME NEW i \in Nat, i < Len(stack) PROVE Top(i) \in ScriptValues
  <2>1. Len(stack) - i \in 1..Len(stack)
    BY <1>1, <1>2
  <2> QED
    BY <1>1, <2>1 DEF Top
<1>3. ASSUME NEW n \in Nat, n <= Len(stack)
      PROVE  Below(n) \in Seq(ScriptValues) /\ Len(Below(n)) = Len(stack) - n
  <2>1. Len(stack) - n \in Nat /\ Len(stack) - n <= Len(stack)
    BY <1>1, <1>3
  <2> QED
    BY <1>1, <2>1 DEF Below
<1> QED
  BY <1>1, <1>2, <1>3

LEMMA MadeValues ==
  /\ \A n \in Int : Word(n) \in ScriptValues /\ Small(n) \in ScriptValues
  /\ \A b : Bool(b) \in ScriptValues
  /\ \A v \in ScriptValues : Hash256(v) \in ScriptValues
<1>1. \A n \in Int : Word(n) \in ScriptValues /\ Small(n) \in ScriptValues
  BY DEF Word, Small, Value, ScriptValues
<1>2. Empty \in ScriptValues
  BY DEF Empty, Value, ScriptValues
<1>3. \A v \in ScriptValues : Hash256(v) \in ScriptValues
  BY DEF Hash256, Value, ScriptValues
<1> QED
  BY <1>1, <1>2, <1>3 DEF Bool

LEMMA Verified ==
  ASSUME Turn, NEW n \in Nat, NEW ok, NEW s, Verify(n, ok, s),
         n <= Len(stack) /\ ok => s \in Seq(ScriptValues)
  PROVE  ScriptInv'
<1>1. CASE Len(stack) < n
  BY <1>1, Refused DEF Verify
<1>2. CASE ~ (Len(stack) < n)
  <2>1. Len(stack) \in Nat
    BY StackFacts DEF Turn
  <2>2. n <= Len(stack)
    BY <1>2, <2>1
  <2>3. CASE ok
    <3>1. Go(s)
      BY <1>2, <2>3 DEF Verify
    <3> QED
      BY <2>2, <2>3, <3>1, Went
  <2>4. CASE ~ ok
    BY <1>2, <2>4, Refused DEF Verify
  <2> QED
    BY <2>3, <2>4
<1> QED
  BY <1>1, <1>2

LEMMA Taken ==
  ASSUME Turn, NEW n \in Nat, NEW s, Take(n, s), n <= Len(stack) => s \in Seq(ScriptValues)
  PROVE  ScriptInv'
<1>1. Verify(n, TRUE, s)
  BY DEF Take, Verify
<1> QED
  BY <1>1, Verified

LEMMA Pushed ==
  ASSUME NEW s \in Seq(ScriptValues), NEW v \in ScriptValues PROVE Append(s, v) \in Seq(ScriptValues)
  OBVIOUS

LEMMA Calculated == ASSUME Turn, NEW n, NEW ok, ok => n \in Int, Calculate(n, ok) PROVE ScriptInv'
<1> DEFINE s == Append(Below(2), Word(n))
           fits == ok /\ n <= MaxWord /\ n >= -MaxWord - 1
<1>1. Verify(2, fits, s)
  BY DEF Calculate
<1>2. ASSUME 2 <= Len(stack), fits PROVE s \in Seq(ScriptValues)
  BY <1>2, StackFacts, MadeValues, Pushed DEF Turn
<1> HIDE DEF s, fits
<1> QED
  BY <1>1, <1>2, Verified

LEMMA SimpleInv == ASSUME Turn, Simple PROVE ScriptInv'
<1>0. /\ ScriptInv /\ stack \in Seq(ScriptValues) /\ Len(stack) \in Nat /\ Current.arg \in ScriptValues
      /\ 1 <= Len(stack) => Top(0) \in ScriptValues /\ Below(1) \in Seq(ScriptValues)
      /\ 2 <= Len(stack) => Top(1) \in ScriptValues /\ Below(2) \in Seq(ScriptValues) /\ Top(0) \in ScriptValues
  <2>1. ScriptInv /\ pc \in 1..Len(program.code)
    BY CodeFacts DEF Turn, ScriptInv
  <2> QED
    BY <2>1, StackFacts, CodeFacts DEF ScriptInv, Current
<1>1. CASE Current.op = "PUSH" /\ Go(Append(stack, Current.arg))
  BY <1>0, <1>1, Went, Pushed
<1>2. CASE Current.op = "DUP" /\ Take(1, Append(stack, Top(0)))
  BY <1>0, <1>2, Taken, Pushed
<1>3. CASE Current.op = "DROP" /\ Take(1, Below(1))
  BY <1>0, <1>3, Taken
<1>4. CASE Current.op = "HASH256" /\ Take(1, Append(Below(1), Hash256(Top(0))))
  BY <1>0, <1>4, Taken, Pushed, MadeValues
<1>5. CASE Current.op = "EQUAL" /\ Take(2, Append(Below(2), Bool(Top(0) = Top(1))))
  BY <1>0, <1>5, Taken, Pushed, MadeValues
<1>6. CASE Current.op = "EQUALVERIFY" /\ Verify(2, Top(0) = Top(1), Below(2))
  BY <1>0, <1>6, Verified
<1>7. CASE Current.op = "NOT" /\ Take(1, Append(Below(1), Bool(~Truthy(Top(0)))))
  BY <1>0, <1>7, Taken, Pushed, MadeValues
<1>8. CASE Calculate(Top(1).num + Top(0).num, IsNumber(Top(1)) /\ IsNumber(Top(0)))
  <2>1. CASE 2 <= Len(stack)
    <3>1. Top(1).num + Top(0).num \in Int
      BY <1>0, <2>1 DEF ScriptValues
    <3> QED
      BY <1>8, <3>1, Calculated
  <2>2. CASE ~ (2 <= Len(stack))
    <3>1. Len(stack) < 2
      BY <1>0, <2>2
    <3> QED
      BY <1>8, <3>1, Refused DEF Calculate, Verify
  <2> QED
    BY <2>1, <2>2
<1>9. CASE Calculate(0, TRUE)
  <2>1. TRUE => 0 \in Int
    OBVIOUS
  <2> QED
    BY <1>9, <2>1, Calculated
<1>10. CASE Calculate(Top(1).num - Top(0).num, IsNumber(Top(1)) /\ IsNumber(Top(0)))
  <2>1. CASE 2 <= Len(stack)
    <3>1. Top(1).num - Top(0).num \in Int
      BY <1>0, <2>1 DEF ScriptValues
    <3> QED
      BY <1>10, <3>1, Calculated
  <2>2. CASE ~ (2 <= Len(stack))
    <3>1. Len(stack) < 2
      BY <1>0, <2>2
    <3> QED
      BY <1>10, <3>1, Refused DEF Calculate, Verify
  <2> QED
    BY <2>1, <2>2
<1>11. CASE Current.op = "RETURN" /\ Refuse
  BY <1>11, Refused
<1>12. CASE Current.op = "ENDIF" /\ Go(stack)
  BY <1>0, <1>12, Went
<1> QED
  BY <1>1, <1>2, <1>3, <1>4, <1>5, <1>6, <1>7, <1>8, <1>9, <1>10, <1>11, <1>12 DEF Simple

LEMMA CheckMultisigInv == ASSUME Turn, CheckMultisig PROVE ScriptInv'
<1>1. CASE Refuse
  BY <1>1, Refused
<1>2. ASSUME Len(stack) >= 1, NEW n \in FirstByte(Top(0)), Len(stack) >= n + 2, NEW m \in FirstByte(Top(n + 1)),
             NEW k, k = 2 + n + m, Len(stack) >= k, Go(Append(Below(IF Len(stack) > k THEN k + 1 ELSE k), Small(1)))
      PROVE  ScriptInv'
  <2>1. \A v \in ScriptValues : FirstByte(v) \subseteq Nat
    BY DEF ScriptValues, FirstByte, IsNumber
  <2>2. Len(stack) \in Nat /\ Top(0) \in ScriptValues
    BY <1>2, StackFacts DEF Turn
  <2>3. n \in Nat
    BY <2>1, <2>2
  <2>4. Top(n + 1) \in ScriptValues
    BY <1>2, <2>2, <2>3, StackFacts DEF Turn
  <2>5. m \in Nat
    BY <2>1, <2>4
  <2> DEFINE l == IF Len(stack) > k THEN k + 1 ELSE k
  <2>6. l \in Nat /\ l <= Len(stack)
    BY <1>2, <2>2, <2>3, <2>5
  <2> HIDE DEF l
  <2>7. Append(Below(l), Small(1)) \in Seq(ScriptValues)
    BY <2>6, StackFacts, MadeValues, Pushed DEF Turn
  <2> QED
    BY <1>2, <2>7, Went DEF l
<1> QED
  BY <1>1, <1>2 DEF CheckMultisig

\* A scan ends where it began, behind the script, or in between.
LEMMA ScanForward ==
  ASSUME ScriptInv, NEW i \in Nat, i <= Len(program.code) + 1, NEW closing
  PROVE  ScanEnd(i, closing) \in i .. Len(program.code) + 1
<1> DEFINE end == Len(program.code) + 1
           depth == CHOOSE f : f = [j \in 0..end |->
                        IF j <= i THEN 1
                        ELSE f[j - 1] + (IF program.code[j - 1].op = "IF" THEN 1
                                         ELSE IF program.code[j - 1].op \in closing THEN -1 ELSE 0)]
           S == {j \in i..end : depth[j] = 0} \cup {end}
<1>1. end \in Nat
  BY CodeFacts
<1>2. ScanEnd(i, closing) = Min(S)
  BY DEF ScanEnd
<1> HIDE DEF end, depth
<1>3. S \subseteq Nat /\ S # {} /\ S \subseteq i..end
  BY <1>1 DEF end
<1> HIDE DEF S
<1>4. \E x \in S : \A y \in S : x <= y
  BY <1>3, Least
<1>5. Min(S) \in S
  BY <1>4 DEF Min
<1> QED
  BY <1>2, <1>3, <1>5 DEF end

LEMMA ConditionalInv == ASSUME Turn, Conditional PROVE ScriptInv'
<1>0. /\ pc \in Nat /\ pc + 1 <= Len(program.code) + 1 /\ stack \in Seq(ScriptValues) /\ Len(stack) <= MaxStack
      /\ Len(stack) \in Nat /\ MaxStack \in Nat /\ ScriptInv
  BY CodeFacts DEF Turn, ScriptInv
<1>1. \A c : ScanEnd(pc + 1, c) \in pc + 1 .. Len(program.code) + 1
  BY <1>0, ScanForward
<1>2. CASE Current.op = "ELSE" /\ JumpTo(SkipFromElse, stack)
  BY <1>0, <1>1, <1>2, Jumped DEF SkipFromElse
<1>3. CASE Current.op = "IF" /\ stack = <<>>
  BY <1>3, Refused DEF Conditional
<1>4. CASE Current.op = "IF" /\ stack # <<>>
  <2>1. Len(stack) >= 1
    BY <1>0, <1>4
  <2>2. Below(1) \in Seq(ScriptValues) /\ Len(Below(1)) <= MaxStack
    BY <1>0, <2>1, StackFacts
  <2>3. CASE Truthy(Top(0))
    BY <1>4, <2>2, <2>3, Went DEF Conditional
  <2>4. CASE ~ Truthy(Top(0))
    <3>1. JumpTo(SkipFromIf, Below(1))
      BY <1>4, <2>4 DEF Conditional
    <3> QED
      BY <1>1, <2>2, <3>1, Jumped DEF SkipFromIf
  <2> QED
    BY <2>3, <2>4
<1> QED
  BY <1>2, <1>3, <1>4 DEF Conditional

LEMMA ScriptKept == ScriptInv /\ [ScriptNext]_scriptVars => ScriptInv'
<1> SUFFICES ASSUME ScriptInv, [ScriptNext]_scriptVars PROVE ScriptInv'
  OBVIOUS
<1>1. ASSUME verdict = "running", pc <= Len(program.code), ops > MaxOps, verdict' = "refused",
             UNCHANGED <<program, pc, stack, ops>>
      PROVE  ScriptInv'
  BY <1>1 DEF ScriptInv
<1>2. ASSUME verdict = "running", pc <= Len(program.code), ops <= MaxOps,
             Simple \/ CheckSig \/ CheckMultisig \/ ClaimTimeVerify \/ Conditional
      PROVE  ScriptInv'
  <2>1. Turn
    BY <1>2 DEF Turn
  <2>2. CASE CheckSig
    <3>1. 2 <= Len(stack) => Append(Below(2), Small(1)) \in Seq(ScriptValues)
      BY StackFacts, MadeValues, Pushed
    <3> QED
      BY <2>1, <2>2, <3>1, Verified DEF CheckSig
  <2>3. CASE ClaimTimeVerify
    <3>1. stack \in Seq(ScriptValues)
      BY DEF ScriptInv
    <3> QED
      BY <2>1, <2>3, <3>1, Verified DEF ClaimTimeVerify
  <2> QED
    BY <1>2, <2>1, <2>2, <2>3, SimpleInv, CheckMultisigInv, ConditionalInv
<1>3. CASE ScriptEnd
  <2>1. program' = program /\ pc' = pc /\ stack' = stack /\ ops' = ops /\ verdict' # "running"
    BY <1>3 DEF ScriptEnd
  <2> QED
    BY <2>1 DEF ScriptInv
<1>4. CASE UNCHANGED scriptVars
  BY <1>4 DEF scriptVars, ScriptInv
<1> QED
  BY <1>1, <1>2, <1>3, <1>4 DEF ScriptNext, ScriptStep

LEMMA ScriptStart == ScriptInit => ScriptInv
<1> SUFFICES ASSUME ScriptInit PROVE ScriptInv
  OBVIOUS
<1>1. program \in Programs /\ MaxStack \in Nat /\ MaxOps \in Nat /\ stack = <<>> /\ ops = 0 /\ pc = 1
  BY ScriptAssumption DEF ScriptInit
<1>2. program.code \in Seq([op : STRING, arg : ScriptValues])
  BY <1>1, ScriptAssumption
<1>3. Len(program.code) \in Nat
  BY <1>2
<1> QED
  BY <1>1, <1>3 DEF ScriptInv

LEMMA ScriptAlways == ScriptSpec => []ScriptInv
  BY ScriptStart, ScriptKept, PTL DEF ScriptSpec

-----------------------------------------------------------------------------
(* The scripts of a single key *)

\* What the operations of the builders do.
LEMMA Operates ==
  ASSUME Turn, ScriptStep
  PROVE  /\ Current.op = "PUSH" => Go(Append(stack, Current.arg))
         /\ Current.op = "DUP" => Take(1, Append(stack, Top(0)))
         /\ Current.op = "DROP" => Take(1, Below(1))
         /\ Current.op = "HASH256" => Take(1, Append(Below(1), Hash256(Top(0))))
         /\ Current.op = "EQUALVERIFY" => Verify(2, Top(0) = Top(1), Below(2))
         /\ Current.op = "CHECKSIG" => Verify(2, SignatureOk(Top(1), Top(0)), Append(Below(2), Small(1)))
         /\ Current.op = "CLAIMTIMEVERIFY" => Verify(1, Unlocked(Top(0)), stack)
         /\ Current.op = "CHECKMULTISIG" => CheckMultisig
<1>1. ops \in Nat /\ MaxOps \in Nat /\ ops <= MaxOps
  BY CodeFacts DEF Turn, ScriptInv
<1>2. Simple \/ CheckSig \/ CheckMultisig \/ ClaimTimeVerify \/ Conditional
  BY <1>1 DEF ScriptStep
<1> QED
  BY <1>2 DEF Simple, CheckSig, CheckMultisig, ClaimTimeVerify, Conditional

LEMMA Lands ==
  ASSUME NEW s, Len(s) \in Nat, MaxStack \in Nat, Len(s) <= MaxStack, Go(s)
  PROVE  program' = program /\ stack' = s /\ pc' = pc + 1 /\ verdict' = verdict
  BY DEF Go

LEMMA Same1 ==
  ASSUME NEW S, NEW a \in S, NEW s \in Seq(S), Len(s) = 1, s[1] = a
  PROVE  s = <<a>>
<1> DEFINE t == <<a>>
<1>1. t \in Seq(S) /\ Len(t) = 1 /\ t[1] = a
  OBVIOUS
<1> HIDE DEF t
<1>2. \A i \in 1..Len(s) : s[i] = t[i]
  <2>1. 1..Len(s) = {1}
    OBVIOUS
  <2> QED
    BY <1>1, <2>1
<1>3. s = t
  BY <1>1, <1>2, SeqEqual
<1> QED
  BY <1>3 DEF t

LEMMA Same2 ==
  ASSUME NEW S, NEW a \in S, NEW b \in S, NEW s \in Seq(S), Len(s) = 2, s[1] = a /\ s[2] = b
  PROVE  s = <<a, b>>
<1> DEFINE t == <<a, b>>
<1>1. t \in Seq(S) /\ Len(t) = 2 /\ t[1] = a /\ t[2] = b
  OBVIOUS
<1> HIDE DEF t
<1>2. \A i \in 1..Len(s) : s[i] = t[i]
  <2>1. 1..Len(s) = {1, 2}
    OBVIOUS
  <2> QED
    BY <1>1, <2>1
<1>3. s = t
  BY <1>1, <1>2, SeqEqual
<1> QED
  BY <1>3 DEF t

LEMMA Same3 ==
  ASSUME NEW S, NEW a \in S, NEW b \in S, NEW c \in S, NEW s \in Seq(S), Len(s) = 3, s[1] = a /\ s[2] = b /\ s[3] = c
  PROVE  s = <<a, b, c>>
<1> DEFINE t == <<a, b, c>>
<1>1. t \in Seq(S) /\ Len(t) = 3 /\ t[1] = a /\ t[2] = b /\ t[3] = c
  OBVIOUS
<1> HIDE DEF t
<1>2. \A i \in 1..Len(s) : s[i] = t[i]
  <2>1. 1..Len(s) = {1, 2, 3}
    OBVIOUS
  <2> QED
    BY <1>1, <2>1
<1>3. s = t
  BY <1>1, <1>2, SeqEqual
<1> QED
  BY <1>3 DEF t

LEMMA Same4 ==
  ASSUME NEW S, NEW a \in S, NEW b \in S, NEW c \in S, NEW d \in S, NEW s \in Seq(S), Len(s) = 4, s[1] = a /\ s[2] = b /\ s[3] = c /\ s[4] = d
  PROVE  s = <<a, b, c, d>>
<1> DEFINE t == <<a, b, c, d>>
<1>1. t \in Seq(S) /\ Len(t) = 4 /\ t[1] = a /\ t[2] = b /\ t[3] = c /\ t[4] = d
  OBVIOUS
<1> HIDE DEF t
<1>2. \A i \in 1..Len(s) : s[i] = t[i]
  <2>1. 1..Len(s) = {1, 2, 3, 4}
    OBVIOUS
  <2> QED
    BY <1>1, <2>1
<1>3. s = t
  BY <1>1, <1>2, SeqEqual
<1> QED
  BY <1>3 DEF t

LEMMA Stacked ==
  ASSUME NEW a, NEW b, NEW c, NEW d
  PROVE  /\ Append(<<>>, a) = <<a>> /\ Append(<<a>>, b) = <<a, b>> /\ Append(<<a, b>>, c) = <<a, b, c>>
         /\ Append(<<a, b, c>>, d) = <<a, b, c, d>>
         /\ SubSeq(<<a, b>>, 1, 0) = <<>> /\ SubSeq(<<a, b, c>>, 1, 2) = <<a, b>>
         /\ SubSeq(<<a, b, c, d>>, 1, 2) = <<a, b>>
         /\ Len(<<>>) = 0 /\ Len(<<a>>) = 1 /\ Len(<<a, b>>) = 2 /\ Len(<<a, b, c>>) = 3 /\ Len(<<a, b, c, d>>) = 4
<1> DEFINE S == {a, b, c, d}
<1>1. /\ <<>> \in Seq(S) /\ <<a>> \in Seq(S) /\ <<a, b>> \in Seq(S) /\ <<a, b, c>> \in Seq(S)
      /\ <<a, b, c, d>> \in Seq(S) /\ a \in S /\ b \in S /\ c \in S /\ d \in S
  OBVIOUS
<1>2. Len(<<>>) = 0 /\ Len(<<a>>) = 1 /\ Len(<<a, b>>) = 2 /\ Len(<<a, b, c>>) = 3 /\ Len(<<a, b, c, d>>) = 4
  OBVIOUS
<1> HIDE DEF S
<1>3. Append(<<>>, a) = <<a>>
  <2> DEFINE s == Append(<<>>, a)
  <2>1. s \in Seq(S) /\ Len(s) = 1 /\ s[1] = a
    BY <1>1, <1>2
  <2> HIDE DEF s
  <2>2. s = <<a>>
    BY <1>1, <2>1, Same1
  <2> QED
    BY <2>2 DEF s
<1>4. Append(<<a>>, b) = <<a, b>>
  <2> DEFINE s == Append(<<a>>, b)
  <2>1. s \in Seq(S) /\ Len(s) = 2 /\ s[1] = a /\ s[2] = b
    BY <1>1, <1>2
  <2> HIDE DEF s
  <2>2. s = <<a, b>>
    BY <1>1, <2>1, Same2
  <2> QED
    BY <2>2 DEF s
<1>5. Append(<<a, b>>, c) = <<a, b, c>>
  <2> DEFINE s == Append(<<a, b>>, c)
  <2>1. s \in Seq(S) /\ Len(s) = 3 /\ s[1] = a /\ s[2] = b /\ s[3] = c
    BY <1>1, <1>2
  <2> HIDE DEF s
  <2>2. s = <<a, b, c>>
    BY <1>1, <2>1, Same3
  <2> QED
    BY <2>2 DEF s
<1>6. Append(<<a, b, c>>, d) = <<a, b, c, d>>
  <2> DEFINE s == Append(<<a, b, c>>, d)
  <2>1. s \in Seq(S) /\ Len(s) = 4 /\ s[1] = a /\ s[2] = b /\ s[3] = c /\ s[4] = d
    BY <1>1, <1>2
  <2> HIDE DEF s
  <2>2. s = <<a, b, c, d>>
    BY <1>1, <2>1, Same4
  <2> QED
    BY <2>2 DEF s
<1>7. SubSeq(<<a, b, c>>, 1, 2) = <<a, b>>
  <2> DEFINE s == SubSeq(<<a, b, c>>, 1, 2)
  <2>1. s \in Seq(S) /\ Len(s) = 2 /\ s[1] = a /\ s[2] = b
    BY <1>1, <1>2
  <2> HIDE DEF s
  <2>2. s = <<a, b>>
    BY <1>1, <2>1, Same2
  <2> QED
    BY <2>2 DEF s
<1>8. SubSeq(<<a, b, c, d>>, 1, 2) = <<a, b>>
  <2> DEFINE s == SubSeq(<<a, b, c, d>>, 1, 2)
  <2>1. s \in Seq(S) /\ Len(s) = 2 /\ s[1] = a /\ s[2] = b
    BY <1>1, <1>2
  <2> HIDE DEF s
  <2>2. s = <<a, b>>
    BY <1>1, <2>1, Same2
  <2> QED
    BY <2>2 DEF s
<1>9. SubSeq(<<a, b>>, 1, 0) = <<>>
  OBVIOUS
<1> QED
  BY <1>2, <1>3, <1>4, <1>5, <1>6, <1>7, <1>8, <1>9

\* What the operations see of a stack of two, three or four values.
LEMMA Seen2 ==
  ASSUME NEW a, NEW b, stack = <<a, b>>
  PROVE  Len(stack) = 2 /\ Top(0) = b /\ Top(1) = a /\ Below(2) = <<>>
<1>1. Len(stack) = 2 /\ stack[2] = b /\ stack[1] = a
  OBVIOUS
<1>2. SubSeq(stack, 1, 0) = <<>>
  BY Stacked
<1> QED
  BY <1>1, <1>2 DEF Top, Below

LEMMA Seen3 ==
  ASSUME NEW a, NEW b, NEW c, stack = <<a, b, c>>
  PROVE  Len(stack) = 3 /\ Top(0) = c /\ Below(1) = <<a, b>>
<1>1. Len(stack) = 3 /\ stack[3] = c
  OBVIOUS
<1>2. SubSeq(stack, 1, 2) = <<a, b>>
  BY Stacked
<1> QED
  BY <1>1, <1>2 DEF Top, Below

LEMMA Seen4 ==
  ASSUME NEW a, NEW b, NEW c, NEW d, stack = <<a, b, c, d>>
  PROVE  Len(stack) = 4 /\ Top(0) = d /\ Top(1) = c /\ Below(2) = <<a, b>>
<1>1. Len(stack) = 4 /\ stack[4] = d /\ stack[3] = c
  OBVIOUS
<1>2. SubSeq(stack, 1, 2) = <<a, b>>
  BY Stacked
<1> QED
  BY <1>1, <1>2 DEF Top, Below

Signer == program.signers[1]
Owner == program.keys[1]
LockAt == IF program.template = "p2pkh" THEN 2 ELSE 5
InTime == program.template = "timelock" => program.height >= program.lock
Fitting == InTime /\ Signer = Owner /\ program.pub = Owner
SingleKey == program.template \in {"p2pkh", "timelock"}

\* The programs of the builders of a single key, operation by operation.
LEMMA SingleCode ==
  ASSUME ScriptInv, SingleKey
  PROVE  /\ Len(program.code) = LockAt + 5 /\ Len(program.code) <= MaxStack + 1 /\ Len(program.code) <= MaxOps + 1
         /\ program.code[1] = PushOp(Sig(Signer)) /\ program.code[2] = PushOp(Pub(program.pub))
         /\ program.template = "timelock" =>
               /\ program.code[3] = PushOp(Word(program.lock)) /\ program.lock \in Nat /\ program.height \in Nat
               /\ program.code[4] = Op("CLAIMTIMEVERIFY") /\ program.code[5] = Op("DROP")
         /\ program.code[LockAt + 1] = Op("DUP") /\ program.code[LockAt + 2] = Op("HASH256")
         /\ program.code[LockAt + 3] = PushOp(Hash256(Pub(Owner)))
         /\ program.code[LockAt + 4] = Op("EQUALVERIFY") /\ program.code[LockAt + 5] = Op("CHECKSIG")
<1> DEFINE a == PushOp(Sig(Signer))
           b == PushOp(Pub(program.pub))
           c == PushOp(Hash256(Pub(Owner)))
           d == PushOp(Word(program.lock))
           ctv == Op("CLAIMTIMEVERIFY")
           drop == Op("DROP")
           dup == Op("DUP")
           hash == Op("HASH256")
           eqv == Op("EQUALVERIFY")
           sig == Op("CHECKSIG")
<1>0. program \in Programs
  BY DEF ScriptInv
<1>1. Len(program.code) <= MaxStack + 1 /\ Len(program.code) <= MaxOps + 1
  BY <1>0, ScriptAssumption DEF SingleKey
<1>2. CASE program.template = "p2pkh"
  <2>1. program.code = <<a, b>> \o <<dup, hash, c, eqv, sig>>
    BY <1>0, <1>2, ScriptAssumption DEF P2pkhUnlock, P2pkhLock, Signer, Owner
  <2>2. LockAt = 2 /\ program.template # "timelock"
    BY <1>2 DEF LockAt
  <2> HIDE DEF a, b, c, d, ctv, drop, dup, hash, eqv, sig
  <2>3. /\ Len(program.code) = 7 /\ program.code[1] = a /\ program.code[2] = b /\ program.code[3] = dup
        /\ program.code[4] = hash /\ program.code[5] = c /\ program.code[6] = eqv /\ program.code[7] = sig
    BY <2>1
  <2> QED
    BY <1>1, <2>2, <2>3 DEF a, b, c, dup, hash, eqv, sig
<1>3. CASE program.template = "timelock"
  <2>0. program.lock \in 0..MaxWord /\ MaxWord \in Nat /\ program.height \in Nat
    BY <1>0, <1>3, ScriptAssumption
  <2>1. program.code = <<a, b>> \o (<<d, ctv, drop>> \o <<dup, hash, c, eqv, sig>>)
    BY <1>0, <1>3, ScriptAssumption DEF P2pkhUnlock, P2pkhLock, TimelockLock, Signer, Owner
  <2>2. LockAt = 5 /\ program.lock \in Nat
    BY <1>3, <2>0 DEF LockAt
  <2> HIDE DEF a, b, c, d, ctv, drop, dup, hash, eqv, sig
  <2>3. /\ Len(program.code) = 10 /\ program.code[1] = a /\ program.code[2] = b /\ program.code[3] = d
        /\ program.code[4] = ctv /\ program.code[5] = drop /\ program.code[6] = dup
        /\ program.code[7] = hash /\ program.code[8] = c /\ program.code[9] = eqv /\ program.code[10] = sig
    BY <2>1
  <2> QED
    BY <1>1, <2>0, <2>2, <2>3 DEF a, b, c, d, ctv, drop, dup, hash, eqv, sig
<1> QED
  BY <1>2, <1>3 DEF SingleKey

LEMMA KeysTell ==
  /\ \A k, l : (Hash256(Pub(k)) = Hash256(Pub(l))) <=> k = l
  /\ \A k, l : SignatureOk(Sig(k), Pub(l)) <=> k = l
  /\ Truthy(Small(1))
  /\ \A n : n \in Nat => (Unlocked(Word(n)) <=> program.height >= n)
  BY DEF Hash256, Pub, Value, SignatureOk, Sig, Truthy, Small, Unlocked, Word, IsNumber

\* Where the run of a program with a single key may be: the next operation i, and stack st.
KeyPlace(i, st) ==
    LET s == Sig(Signer)
        p == Pub(program.pub)
        h == Hash256(p)
        w == Word(program.lock)
        At(j, t) == i = j /\ st = t
    IN  \/ At(1, <<>>) \/ At(2, <<s>>)
        \/ program.template = "timelock" /\ (At(3, <<s, p>>) \/ At(4, <<s, p, w>>))
        \/ program.template = "timelock" /\ InTime /\ At(5, <<s, p, w>>)
        \/ InTime /\ (\/ At(LockAt + 1, <<s, p>>) \/ At(LockAt + 2, <<s, p, p>>) \/ At(LockAt + 3, <<s, p, h>>)
                      \/ At(LockAt + 4, <<s, p, h, Hash256(Pub(Owner))>>))
        \/ InTime /\ program.pub = Owner /\ At(LockAt + 5, <<s, p>>)
        \/ Fitting /\ At(LockAt + 6, <<Small(1)>>)

KeyInv ==
    /\ verdict = "running" => KeyPlace(pc, stack)
    /\ verdict # "running" => (verdict = "accepted" <=> Fitting)

\* The step goes on with stack s, or ends the run.
Moves(s) == program' = program /\ stack' = s /\ pc' = pc + 1 /\ verdict' = "running"
Ends(v) == program' = program /\ verdict' = v

LEMMA Checked ==
  ASSUME Turn, NEW n \in Nat, n <= Len(stack), NEW ok, NEW s, Len(s) \in Nat, Len(s) <= MaxStack, Verify(n, ok, s)
  PROVE  (ok => Moves(s)) /\ (~ ok => Ends("refused"))
<1>1. Len(stack) \in Nat /\ MaxStack \in Nat /\ verdict = "running"
  BY CodeFacts, StackFacts DEF Turn
<1>2. ~ (Len(stack) < n)
  BY <1>1
<1>3. CASE ok
  <2>1. Go(s)
    BY <1>2, <1>3 DEF Verify
  <2> QED
    BY <1>1, <1>3, <2>1, Lands DEF Moves
<1>4. CASE ~ ok
  BY <1>2, <1>4 DEF Verify, Refuse, Ends
<1> QED
  BY <1>3, <1>4

LEMMA Took ==
  ASSUME Turn, NEW n \in Nat, n <= Len(stack), NEW s, Len(s) \in Nat, Len(s) <= MaxStack, Take(n, s)
  PROVE  Moves(s)
<1>1. Verify(n, TRUE, s)
  BY DEF Take, Verify
<1> QED
  BY <1>1, Checked

LEMMA Put1 ==
  ASSUME Turn, NEW s, Len(s) \in Nat, Len(s) <= MaxStack, Go(s) PROVE Moves(s)
<1>1. MaxStack \in Nat /\ verdict = "running"
  BY CodeFacts DEF Turn
<1> QED
  BY <1>1, Lands DEF Moves

LEMMA KeyArrives ==
  ASSUME program' = program
  PROVE  /\ verdict' = "running" /\ KeyPlace(pc', stack') => KeyInv'
         /\ verdict' = "accepted" /\ Fitting => KeyInv'
         /\ verdict' = "refused" /\ ~ Fitting => KeyInv'
<1>1. /\ Signer' = Signer /\ Owner' = Owner /\ LockAt' = LockAt /\ InTime' = InTime /\ Fitting' = Fitting
  BY DEF Signer, Owner, LockAt, InTime, Fitting
<1>2. KeyPlace(pc', stack') => KeyPlace(pc, stack)'
  BY <1>1 DEF KeyPlace
<1> QED
  BY <1>1, <1>2 DEF KeyInv

LEMMA KeyStep ==
  ASSUME ScriptInv, SingleKey, KeyInv, ScriptNext
  PROVE  KeyInv'
<1> DEFINE s == Sig(Signer)
           p == Pub(program.pub)
           h == Hash256(p)
           o == Hash256(Pub(Owner))
           w == Word(program.lock)
           one == Small(1)
           sign == SignatureOk(s, p)
           sg == <<s>>
           sp == <<s, p>>
           spw == <<s, p, w>>
           spp == <<s, p, p>>
           sph == <<s, p, h>>
           spho == <<s, p, h, o>>
           done == <<one>>
<1>1. verdict = "running" /\ KeyPlace(pc, stack)
  BY DEF ScriptNext, ScriptStep, ScriptEnd, KeyInv
<1>2. program' = program
  BY DEF ScriptNext, ScriptStep, ScriptEnd, Simple, CheckSig, CheckMultisig, ClaimTimeVerify, Conditional,
         Calculate, Take, Verify, Go, Refuse, JumpTo
<1>3. /\ LockAt \in {2, 5} /\ (program.template = "timelock" => LockAt = 5) /\ (program.template # "timelock" => LockAt = 2)
      /\ Len(program.code) = LockAt + 5 /\ MaxStack \in Nat /\ MaxStack >= 6 /\ MaxOps \in Nat
      /\ LockAt + 5 <= MaxOps + 1 /\ ops \in Nat /\ ops <= pc - 1 /\ pc \in Nat
  <2>1. LockAt \in {2, 5} /\ (program.template = "timelock" => LockAt = 5) /\ (program.template # "timelock" => LockAt = 2)
    BY DEF LockAt, SingleKey
  <2>2. Len(program.code) = LockAt + 5 /\ Len(program.code) <= MaxStack + 1 /\ Len(program.code) <= MaxOps + 1
    BY SingleCode
  <2>3. MaxStack \in Nat /\ MaxOps \in Nat /\ Len(program.code) \in Nat
    BY CodeFacts
  <2>4. pc \in 1..Len(program.code) + 1 /\ ops \in Nat /\ ops <= pc - 1
    BY <1>1 DEF ScriptInv
  <2>5. pc \in Nat
    BY <2>3, <2>4
  <2> HIDE DEF s, p, h, o, w, one, sign, sg, sp, spw, spp, sph, spho, done
  <2> QED
    BY ONLY <2>1, <2>2, <2>3, <2>4, <2>5
<1>4. ASSUME pc <= LockAt + 5 PROVE Turn /\ ScriptStep
  <2>1. pc <= Len(program.code) /\ ops <= MaxOps
    BY <1>3, <1>4
  <2>2. ~ (pc > Len(program.code))
    BY <1>3, <2>1
  <2> QED
    BY <1>1, <2>1, <2>2 DEF Turn, ScriptNext, ScriptEnd
<1>5. \A n, j, st : pc = n /\ n + 1 = j /\ Moves(st) => pc' = j /\ stack' = st /\ verdict' = "running"
  BY DEF Moves
<1>6. /\ o = h <=> program.pub = Owner
      /\ sign <=> Signer = program.pub
      /\ sign = SignatureOk(s, p) /\ h = Hash256(p) /\ one = Small(1) /\ Truthy(one)
      /\ program.template = "timelock" => (Unlocked(w) <=> InTime)
  <2>1. program.template = "timelock" => program.lock \in Nat
    BY SingleCode
  <2> QED
    BY <2>1, KeysTell DEF InTime
<1>7. /\ program.code[1] = PushOp(s) /\ program.code[2] = PushOp(p)
      /\ program.template = "timelock" =>
            program.code[3] = PushOp(w) /\ program.code[4] = Op("CLAIMTIMEVERIFY") /\ program.code[5] = Op("DROP")
      /\ program.code[LockAt + 1] = Op("DUP") /\ program.code[LockAt + 2] = Op("HASH256")
      /\ program.code[LockAt + 3] = PushOp(o)
      /\ program.code[LockAt + 4] = Op("EQUALVERIFY") /\ program.code[LockAt + 5] = Op("CHECKSIG")
  BY SingleCode
<1>8. \A i, st : KeyPlace(i, st) <=>
        \/ i = 1 /\ st = <<>>
        \/ i = 2 /\ st = sg
        \/ program.template = "timelock" /\ i = 3 /\ st = sp
        \/ program.template = "timelock" /\ i = 4 /\ st = spw
        \/ program.template = "timelock" /\ InTime /\ i = 5 /\ st = spw
        \/ InTime /\ i = LockAt + 1 /\ st = sp
        \/ InTime /\ i = LockAt + 2 /\ st = spp
        \/ InTime /\ i = LockAt + 3 /\ st = sph
        \/ InTime /\ i = LockAt + 4 /\ st = spho
        \/ InTime /\ program.pub = Owner /\ i = LockAt + 5 /\ st = sp
        \/ Fitting /\ i = LockAt + 6 /\ st = done
  BY DEF KeyPlace
<1>9. /\ Len(sg) = 1 /\ Len(sp) = 2 /\ Len(spw) = 3 /\ Len(spp) = 3
      /\ Len(sph) = 3 /\ Len(spho) = 4 /\ Len(done) = 1
      /\ Append(<<>>, s) = sg /\ Append(sg, p) = sp /\ Append(sp, w) = spw
      /\ Append(sp, p) = spp /\ Append(sp, h) = sph
      /\ Append(sph, o) = spho /\ Append(<<>>, one) = done
  BY Stacked
<1>10. /\ \A v : PushOp(v).op = "PUSH" /\ PushOp(v).arg = v
       /\ \A n : Op(n).op = n
  BY DEF PushOp, Op
<1>11. /\ stack = sg => Len(stack) = 1
       /\ stack = sp => Len(stack) = 2 /\ Top(0) = p /\ Top(1) = s /\ Below(2) = <<>>
       /\ stack = spw => Len(stack) = 3 /\ Top(0) = w /\ Below(1) = sp
       /\ stack = spp => Len(stack) = 3 /\ Top(0) = p /\ Below(1) = sp
       /\ stack = spho => Len(stack) = 4 /\ Top(0) = o /\ Top(1) = h /\ Below(2) = sp
  BY Stacked, Seen2, Seen3, Seen4
<1> HIDE DEF s, p, h, o, w, one, sign, sg, sp, spw, spp, sph, spho, done
<1>12. CASE pc = 1 /\ stack = <<>>
  <2>1. Turn /\ ScriptStep /\ Current = PushOp(s)
    BY <1>3, <1>4, <1>12, <1>7 DEF Current
  <2>2. Go(Append(stack, s))
    BY <2>1, <1>10, Operates
  <2>3. Append(stack, s) = sg /\ Len(sg) = 1
    BY <1>12, <1>9
  <2>4. Len(Append(stack, s)) \in Nat /\ Len(Append(stack, s)) <= MaxStack
    <3>1. Len(sg) \in Nat /\ Len(sg) <= MaxStack
      BY <1>3, <2>3
    <3> QED
      BY <2>3, <3>1, Zenon
  <2>5. Moves(Append(stack, s))
    BY <2>1, <2>2, <2>4, Put1
  <2>6. verdict' = "running" /\ KeyPlace(pc', stack')
    BY <1>12, <2>3, <2>5, <1>8 DEF Moves
  <2> QED
    BY <1>2, <2>6, KeyArrives
<1>13. CASE pc = 2 /\ stack = sg
  <2>1. Turn /\ ScriptStep /\ Current = PushOp(p)
    BY <1>3, <1>4, <1>13, <1>7 DEF Current
  <2>2. Go(Append(stack, p))
    BY <2>1, <1>10, Operates
  <2>3. Append(stack, p) = sp /\ Len(sp) = 2
    BY <1>13, <1>9
  <2>4. Len(Append(stack, p)) \in Nat /\ Len(Append(stack, p)) <= MaxStack
    <3>1. Len(sp) \in Nat /\ Len(sp) <= MaxStack
      BY <1>3, <2>3
    <3> QED
      BY <2>3, <3>1, Zenon
  <2>5. Moves(Append(stack, p))
    BY <2>1, <2>2, <2>4, Put1
  <2>6. verdict' = "running" /\ pc' = 3 /\ stack' = sp
    BY <1>13, <2>3, <2>5 DEF Moves
  <2>7. KeyPlace(3, sp)
    BY <1>3, <1>8 DEF InTime
  <2> QED
    BY <1>2, <2>6, <2>7, KeyArrives
<1>14. CASE program.template = "timelock" /\ pc = 3 /\ stack = sp
  <2>1. Turn /\ ScriptStep /\ Current = PushOp(w)
    BY <1>3, <1>4, <1>14, <1>7 DEF Current
  <2>2. Go(Append(stack, w))
    BY <2>1, <1>10, Operates
  <2>3. Append(stack, w) = spw /\ Len(spw) = 3
    BY <1>14, <1>9
  <2>4. Len(Append(stack, w)) \in Nat /\ Len(Append(stack, w)) <= MaxStack
    <3>1. Len(spw) \in Nat /\ Len(spw) <= MaxStack
      BY <1>3, <2>3
    <3> QED
      BY <2>3, <3>1, Zenon
  <2>5. Moves(Append(stack, w))
    BY <2>1, <2>2, <2>4, Put1
  <2>6. verdict' = "running" /\ pc' = 4 /\ stack' = spw
    BY <1>14, <2>3, <2>5 DEF Moves
  <2>7. KeyPlace(4, spw)
    BY <1>14, <1>8
  <2> QED
    BY <1>2, <2>6, <2>7, KeyArrives
<1>15. CASE program.template = "timelock" /\ pc = 4 /\ stack = spw
  <2>1. Turn /\ ScriptStep /\ Current = Op("CLAIMTIMEVERIFY") 
    BY <1>3, <1>4, <1>15, <1>7 DEF Current
  <2>2. Verify(1, Unlocked(Top(0)), stack)
    BY <2>1, <1>10, Operates
  <2>3. Len(stack) = 3 /\ Top(0) = w
    BY <1>15, <1>9, <1>11
  <2>4. Unlocked(w) <=> InTime
    BY <1>6, <1>15
  <2>5. Len(stack) \in Nat /\ 1 <= Len(stack) /\ Len(stack) <= MaxStack
    BY <1>3, <2>3
  <2>6. (Unlocked(Top(0)) => Moves(stack)) /\ (~ Unlocked(Top(0)) => Ends("refused"))
    BY <2>1, <2>2, <2>5, Checked
  <2>7. CASE InTime
    <3>1. verdict' = "running" /\ pc' = 5 /\ stack' = spw
      BY <1>15, <2>3, <2>4, <2>6, <2>7 DEF Moves
    <3>2. KeyPlace(5, spw)
      BY <1>15, <2>7, <1>8
    <3> QED
      BY <1>2, <3>1, <3>2, KeyArrives
  <2>8. CASE ~ InTime
    BY <1>2, <2>3, <2>4, <2>6, <2>8, KeyArrives DEF Ends, Fitting
  <2> QED
    BY <2>7, <2>8
<1>16. CASE program.template = "timelock" /\ InTime /\ pc = 5 /\ stack = spw
  <2>1. Turn /\ ScriptStep /\ Current = Op("DROP")
    BY <1>3, <1>4, <1>16, <1>7 DEF Current
  <2>2. Take(1, Below(1))
    BY <2>1, <1>10, Operates
  <2>3. Len(stack) = 3 /\ Below(1) = sp /\ Len(sp) = 2
    BY <1>16, <1>9, <1>11
  <2>4. Len(Below(1)) \in Nat /\ Len(Below(1)) <= MaxStack
    <3>1. Len(sp) \in Nat /\ Len(sp) <= MaxStack
      BY <1>3, <2>3
    <3> QED
      BY <2>3, <3>1, Zenon
  <2>5. 1 <= Len(stack)
    BY <2>3
  <2>6. Moves(Below(1))
    BY <2>1, <2>2, <2>4, <2>5, Took
  <2>7. verdict' = "running" /\ pc' = LockAt + 1 /\ stack' = sp
    BY <1>3, <1>16, <2>3, <2>6 DEF Moves
  <2>8. KeyPlace(LockAt + 1, sp)
    BY <1>16, <1>8
  <2> QED
    BY <1>2, <2>7, <2>8, KeyArrives
<1>17. CASE InTime /\ pc = LockAt + 1 /\ stack = sp
  <2>1. Turn /\ ScriptStep /\ Current = Op("DUP")
    BY <1>3, <1>4, <1>17, <1>7 DEF Current
  <2>2. Take(1, Append(stack, Top(0)))
    BY <2>1, <1>10, Operates
  <2>3. Len(stack) = 2 /\ Top(0) = p /\ Append(stack, Top(0)) = spp /\ Len(spp) = 3
    BY <1>17, <1>9, <1>11
  <2>4. Len(Append(stack, Top(0))) \in Nat /\ Len(Append(stack, Top(0))) <= MaxStack
    <3>1. Len(spp) \in Nat /\ Len(spp) <= MaxStack
      BY <1>3, <2>3
    <3> QED
      BY <2>3, <3>1, Zenon
  <2>5. 1 <= Len(stack)
    BY <2>3
  <2>6. Moves(Append(stack, Top(0)))
    BY <2>1, <2>2, <2>4, <2>5, Took
  <2>7. verdict' = "running" /\ pc' = LockAt + 2 /\ stack' = spp
    BY <1>3, <1>17, <2>3, <2>6 DEF Moves
  <2>8. KeyPlace(LockAt + 2, spp)
    BY <1>17, <1>8
  <2> QED
    BY <1>2, <2>7, <2>8, KeyArrives
<1>18. CASE InTime /\ pc = LockAt + 2 /\ stack = spp
  <2>1. Turn /\ ScriptStep /\ Current = Op("HASH256")
    BY <1>3, <1>4, <1>18, <1>7 DEF Current
  <2>2. Take(1, Append(Below(1), Hash256(Top(0))))
    BY <2>1, <1>10, Operates
  <2>3. Len(stack) = 3 /\ Top(0) = p /\ Below(1) = sp
    BY <1>18, <1>9, <1>11
  <2>4. Append(Below(1), Hash256(Top(0))) = sph /\ Len(sph) = 3
    BY <1>6, <2>3, <1>9, Zenon
  <2>5. Len(Append(Below(1), Hash256(Top(0)))) \in Nat /\ Len(Append(Below(1), Hash256(Top(0)))) <= MaxStack
    <3>1. Len(sph) \in Nat /\ Len(sph) <= MaxStack
      BY <1>3, <2>4
    <3> QED
      BY <2>4, <3>1, Zenon
  <2>6. 1 <= Len(stack)
    BY <2>3
  <2>7. Moves(Append(Below(1), Hash256(Top(0))))
    BY <2>1, <2>2, <2>5, <2>6, Took
  <2>8. verdict' = "running" /\ pc' = LockAt + 3 /\ stack' = sph
    BY <1>3, <1>18, <2>4, <2>7 DEF Moves
  <2>9. KeyPlace(LockAt + 3, sph)
    BY <1>18, <1>8
  <2> QED
    BY <1>2, <2>8, <2>9, KeyArrives
<1>19. CASE InTime /\ pc = LockAt + 3 /\ stack = sph
  <2>1. Turn /\ ScriptStep /\ Current = PushOp(o)
    BY <1>3, <1>4, <1>19, <1>7 DEF Current
  <2>2. Go(Append(stack, o))
    BY <2>1, <1>10, Operates
  <2>3. Append(stack, o) = spho /\ Len(spho) = 4
    BY <1>19, <1>9
  <2>4. Len(Append(stack, o)) \in Nat /\ Len(Append(stack, o)) <= MaxStack
    <3>1. Len(spho) \in Nat /\ Len(spho) <= MaxStack
      BY <1>3, <2>3
    <3> QED
      BY <2>3, <3>1, Zenon
  <2>5. Moves(Append(stack, o))
    BY <2>1, <2>2, <2>4, Put1
  <2>6. verdict' = "running" /\ pc' = LockAt + 4 /\ stack' = spho
    BY <1>3, <1>19, <2>3, <2>5 DEF Moves
  <2>7. KeyPlace(LockAt + 4, spho)
    BY <1>19, <1>8
  <2> QED
    BY <1>2, <2>6, <2>7, KeyArrives
<1>20. CASE InTime /\ pc = LockAt + 4 /\ stack = spho
  <2>1. Turn /\ ScriptStep /\ Current = Op("EQUALVERIFY")
    BY <1>3, <1>4, <1>20, <1>7 DEF Current
  <2>2. Verify(2, Top(0) = Top(1), Below(2))
    BY <2>1, <1>10, Operates
  <2>3. Len(stack) = 4 /\ Top(0) = o /\ Top(1) = h /\ Below(2) = sp /\ Len(sp) = 2
    BY <1>20, <1>9, <1>11
  <2>4. Len(Below(2)) \in Nat /\ Len(Below(2)) <= MaxStack
    <3>1. Len(sp) \in Nat /\ Len(sp) <= MaxStack
      BY <1>3, <2>3
    <3> QED
      BY <2>3, <3>1, Zenon
  <2>5. 2 <= Len(stack)
    BY <2>3
  <2>6. (Top(0) = Top(1) => Moves(Below(2))) /\ (~ (Top(0) = Top(1)) => Ends("refused"))
    BY <2>1, <2>2, <2>4, <2>5, Checked
  <2>7. CASE program.pub = Owner
    <3>1. verdict' = "running" /\ pc' = LockAt + 5 /\ stack' = sp
      BY <1>3, <1>6, <1>20, <2>3, <2>6, <2>7 DEF Moves
    <3>2. KeyPlace(LockAt + 5, sp)
      BY <1>20, <2>7, <1>8
    <3> QED
      BY <1>2, <3>1, <3>2, KeyArrives
  <2>8. CASE program.pub # Owner
    BY <1>2, <1>6, <2>3, <2>6, <2>8, KeyArrives DEF Ends, Fitting
  <2> QED
    BY <2>7, <2>8
<1>21. CASE InTime /\ program.pub = Owner /\ pc = LockAt + 5 /\ stack = sp
  <2>1. Turn /\ ScriptStep /\ Current = Op("CHECKSIG")
    BY <1>3, <1>4, <1>21, <1>7 DEF Current
  <2> DEFINE ok == SignatureOk(Top(1), Top(0))
             rest == Append(Below(2), one)
  <2>2. Verify(2, ok, rest)
    BY <2>1, <1>10, Operates DEF one
  <2>3. Len(stack) = 2 /\ Top(0) = p /\ Top(1) = s /\ Below(2) = <<>>
    BY <1>21, <1>9, <1>11
  <2>4. rest = done /\ Len(done) = 1
    BY <2>3, <1>9
  <2>5. Len(rest) \in Nat /\ Len(rest) <= MaxStack
    <3>1. Len(done) \in Nat /\ Len(done) <= MaxStack
      BY <1>3, <2>4
    <3> QED
      BY <2>4, <3>1, Zenon
  <2>6. 2 <= Len(stack)
    BY <2>3
  <2> HIDE DEF ok, rest
  <2>7. (ok => Moves(rest)) /\ (~ ok => Ends("refused"))
    BY <2>1, <2>2, <2>5, <2>6, Checked
  <2>8. CASE Signer = Owner
    <3>1. verdict' = "running" /\ pc' = LockAt + 6 /\ stack' = done
      BY <1>3, <1>6, <1>21, <2>3, <2>4, <2>7, <2>8 DEF Moves, ok
    <3>2. KeyPlace(LockAt + 6, done)
      BY <1>21, <2>8, <1>8 DEF Fitting
    <3> QED
      BY <1>2, <3>1, <3>2, KeyArrives
  <2>9. CASE Signer # Owner
    BY <1>2, <1>6, <1>21, <2>3, <2>7, <2>9, KeyArrives DEF Ends, Fitting, ok
  <2> QED
    BY <2>8, <2>9
<1>22. CASE Fitting /\ pc = LockAt + 6 /\ stack = done
  <2>1. pc > Len(program.code) /\ ~ (pc <= Len(program.code))
    BY <1>3, <1>22
  <2>2. Len(stack) = 1 /\ stack[1] = one /\ Truthy(one)
    BY <1>6, <1>22, <1>9 DEF done
  <2>3. Top(0) = one /\ stack # <<>>
    BY <2>2 DEF Top
  <2>4. verdict' = "accepted"
    BY <2>1, <2>2, <2>3 DEF ScriptNext, ScriptStep, ScriptEnd
  <2> QED
    BY <1>2, <1>22, <2>4, KeyArrives
<1> QED
  BY <1>1, <1>12, <1>13, <1>14, <1>15, <1>16, <1>17, <1>18, <1>19, <1>20, <1>21, <1>22, <1>8

\* What the runs of a program with a single key come to.
LEMMA KeyAlways == ScriptSpec => [](ScriptInv /\ (SingleKey => KeyInv))
<1>1. ASSUME ScriptInit PROVE ScriptInv /\ (SingleKey => KeyInv)
  <2>1. ScriptInv
    BY <1>1, ScriptStart
  <2>2. verdict = "running" /\ KeyPlace(pc, stack)
    BY <1>1 DEF ScriptInit, KeyPlace
  <2> QED
    BY <2>1, <2>2 DEF KeyInv
<1>2. ASSUME ScriptInv, SingleKey => KeyInv, [ScriptNext]_scriptVars PROVE (ScriptInv /\ (SingleKey => KeyInv))'
  <2>1. ScriptInv'
    BY <1>2, ScriptKept
  <2>2. program' = program
    BY <1>2 DEF scriptVars, ScriptNext, ScriptStep, ScriptEnd, Simple, CheckSig, CheckMultisig, ClaimTimeVerify,
         Conditional, Calculate, Take, Verify, Go, Refuse, JumpTo
  <2>3. ASSUME SingleKey' PROVE KeyInv'
    <3>1. SingleKey
      BY <2>2, <2>3 DEF SingleKey
    <3>2. CASE ScriptNext
      BY <1>2, <3>1, <3>2, KeyStep
    <3>3. CASE UNCHANGED scriptVars
      BY <1>2, <3>1, <3>3 DEF scriptVars, KeyInv, KeyPlace, Fitting, InTime, Signer, Owner, LockAt
    <3> QED
      BY <1>2, <3>2, <3>3
  <2> QED
    BY <2>1, <2>3
<1> QED
  BY <1>1, <1>2, PTL DEF ScriptSpec

\* A script that pays to a key, at once or from a height on, is unlocked exactly by that
\* key's own signature together with the key, and then not below its height, for any wallets,
\* heights and limits the scripts fit in (script.py:113-137, 162-177, 298-302, 372-382).
THEOREM SingleKeysUnlockExactly == ScriptSpec => [](P2pkhHolds /\ TimelockHolds)
<1>1. ASSUME ScriptInv, SingleKey => KeyInv PROVE P2pkhHolds /\ TimelockHolds
  <2>1. ASSUME SingleKey, verdict # "running"
        PROVE  (verdict = "accepted") <=>
                  (InTime /\ program.signers = <<program.keys[1]>> /\ program.pub = program.keys[1])
    <3>1. program \in Programs
      BY <1>1 DEF ScriptInv
    <3>2. program.signers \in Seq(ScriptKeys) /\ Len(program.signers) = 1
      BY <2>1, <3>1, ScriptAssumption DEF SingleKey
    <3>3. program.signers = <<Signer>>
      <4>1. Signer \in ScriptKeys
        BY <3>2 DEF Signer
      <4> QED
        BY <3>2, <4>1, Same1 DEF Signer
    <3>4. program.signers = <<Owner>> <=> Signer = Owner
      BY <3>3
    <3> QED
      BY <1>1, <2>1, <3>4 DEF KeyInv, Fitting, Owner
  <2> QED
    BY <2>1 DEF P2pkhHolds, TimelockHolds, SingleKey, InTime
<1> QED
  BY <1>1, KeyAlways, PTL

\* No script, of a builder or not, outgrows the stack, takes more steps than it has
\* operations, or goes back (script.py:234-237, 307-331, 357-360).
THEOREM ScriptsStayInLimits == ScriptSpec => []ScriptTypeOK
<1>1. ScriptInv => ScriptTypeOK
  BY DEF ScriptInv, ScriptTypeOK
<1> QED
  BY <1>1, ScriptAlways, PTL

-----------------------------------------------------------------------------
(* The scripts of several keys *)

\* Signatures 1 to t find different ones of the first j keys, in order; R tells which match.
Finds(R, g, t, j) ==
    /\ g \in [1..t -> 1..j]
    /\ \A a, b \in 1..t : a < b => g[a] < g[b]
    /\ \A a \in 1..t : <<a, g[a]>> \in R

\* Trying every key once and in order finds as many of the signatures as any choice of keys.
LEMMA GreedyFinds ==
  ASSUME NEW m \in Nat, NEW n \in Nat, NEW R, NEW f, f \in [0..n -> Nat], f[0] = 0,
         \A j \in 1..n : f[j] = IF f[j - 1] < m /\ <<f[j - 1] + 1, j>> \in R THEN f[j - 1] + 1 ELSE f[j - 1]
  PROVE  (f[n] >= m) <=> \E g : Finds(R, g, m, n)
<1> DEFINE Sound == {j \in Nat : j <= n => f[j] <= m /\ \E g : Finds(R, g, f[j], j)}
           Best == {j \in Nat : j <= n => \A t \in 0..m : (\E g : Finds(R, g, t, j)) => t <= f[j]}
<1>1. \A j \in 0..n : f[j] \in Nat
  OBVIOUS
<1>2. ASSUME NEW j \in Nat, j + 1 <= n
      PROVE  /\ f[j] \in Nat /\ f[j + 1] \in Nat
             /\ f[j + 1] = IF f[j] < m /\ <<f[j] + 1, j + 1>> \in R THEN f[j] + 1 ELSE f[j]
  <2>1. j \in 0..n /\ j + 1 \in 1..n /\ j + 1 \in 0..n /\ (j + 1) - 1 = j
    BY <1>2
  <2> QED
    BY <1>1, <2>1
<1>3. 0 \in Sound
  <2> DEFINE g == [a \in 1..0 |-> 0]
  <2>1. Finds(R, g, 0, 0)
    BY DEF Finds
  <2> HIDE DEF g
  <2> QED
    BY <2>1
<1>4. ASSUME NEW j \in Nat, j \in Sound PROVE j + 1 \in Sound
  <2> SUFFICES ASSUME j + 1 <= n PROVE f[j + 1] <= m /\ \E g : Finds(R, g, f[j + 1], j + 1)
    OBVIOUS
  <2>1. f[j] <= m /\ \E g : Finds(R, g, f[j], j)
    BY <1>4
  <2>2. PICK g : Finds(R, g, f[j], j)
    BY <2>1
  <2> DEFINE t == f[j]
  <2>3. t \in Nat /\ t <= m
    BY <1>2, <2>1
  <2>4. CASE f[j + 1] = t
    <3>1. Finds(R, g, t, j + 1)
      <4>1. 1..j \subseteq 1..(j + 1)
        OBVIOUS
      <4>2. g \in [1..t -> 1..(j + 1)]
        BY <2>2, <4>1 DEF Finds
      <4> QED
        BY <2>2, <4>2 DEF Finds
    <3> QED
      BY <2>3, <2>4, <3>1
  <2>5. CASE t < m /\ <<t + 1, j + 1>> \in R /\ f[j + 1] = t + 1
    <3> DEFINE h == [a \in 1..(t + 1) |-> IF a = t + 1 THEN j + 1 ELSE g[a]]
    <3> HIDE DEF t
    <3>1. \A a \in 1..t : g[a] \in 1..j
      BY <2>2 DEF Finds, t
    <3>2. ASSUME NEW a \in 1..(t + 1), a # t + 1 PROVE a \in 1..t /\ h[a] = g[a]
      BY <2>3, <3>2
    <3>3. t + 1 \in 1..(t + 1) /\ h[t + 1] = j + 1
      BY <2>3
    <3>4. h \in [1..(t + 1) -> 1..(j + 1)]
      <4>1. \A a \in 1..(t + 1) : h[a] \in 1..(j + 1)
        BY <3>1, <3>2, <3>3
      <4> QED
        BY <4>1
    <3> HIDE DEF h
    <3>5. ASSUME NEW a \in 1..(t + 1), NEW b \in 1..(t + 1), a < b PROVE h[a] < h[b]
      <4>1. a # t + 1
        BY <2>3, <3>5
      <4>2. a \in 1..t /\ h[a] = g[a] /\ g[a] \in 1..j
        BY <3>1, <3>2, <4>1
      <4>3. CASE b = t + 1
        BY <3>3, <4>2, <4>3
      <4>4. CASE b # t + 1
        <5>1. b \in 1..t /\ h[b] = g[b]
          BY <3>2, <4>4
        <5> QED
          BY <2>2, <3>5, <4>2, <5>1 DEF Finds, t
      <4> QED
        BY <4>3, <4>4
    <3>6. ASSUME NEW a \in 1..(t + 1) PROVE <<a, h[a]>> \in R
      <4>1. CASE a = t + 1
        BY <2>5, <3>3, <4>1
      <4>2. CASE a # t + 1
        BY <2>2, <3>2, <4>2 DEF Finds, t
      <4> QED
        BY <4>1, <4>2
    <3>7. Finds(R, h, t + 1, j + 1)
      BY <3>4, <3>5, <3>6 DEF Finds
    <3> QED
      BY <2>3, <2>5, <3>7
  <2> QED
    BY <1>2, <2>4, <2>5
<1>5. 0 \in Best
  <2>1. ASSUME NEW t \in 0..m, NEW g, Finds(R, g, t, 0) PROVE t <= 0
    <3>0. t \in Nat
      OBVIOUS
    <3>1. t \in Nat /\ g \in [1..t -> 1..0]
      BY <2>1, <3>0 DEF Finds
    <3>2. ASSUME t > 0 PROVE FALSE
      <4>1. 1 \in 1..t
        BY <3>1, <3>2
      <4>2. g[1] \in 1..0
        BY <3>1, <4>1
      <4> QED
        BY <4>2
    <3> QED
      BY <3>1, <3>2
  <2> QED
    BY <2>1
<1>6. ASSUME NEW j \in Nat, j \in Best PROVE j + 1 \in Best
  <2> SUFFICES ASSUME j + 1 <= n, NEW t \in 0..m, NEW g, Finds(R, g, t, j + 1) PROVE t <= f[j + 1]
    OBVIOUS
  <2>0. t \in Nat /\ t <= m
    OBVIOUS
  <2>1. \A u \in 0..m : (\E h : Finds(R, h, u, j)) => u <= f[j]
    BY <1>6
  <2>2. f[j] <= f[j + 1]
    <3>1. f[j] \in Nat /\ (f[j + 1] = f[j] + 1 \/ f[j + 1] = f[j])
      BY <1>2
    <3> QED
      BY <3>1
  <2>3. CASE t = 0
    BY <1>2, <2>3
  <2>4. CASE t # 0 /\ g[t] # j + 1
    <3>1. t \in 1..t
      BY <2>0, <2>4
    <3>2. ASSUME NEW a \in 1..t PROVE g[a] \in 1..j
      <4>1. g[a] \in 1..(j + 1) /\ g[t] \in 1..(j + 1)
        BY <3>1 DEF Finds
      <4>2. a = t \/ g[a] < g[t]
        BY <2>0, <3>1 DEF Finds
      <4> QED
        BY <2>4, <4>1, <4>2
    <3>3. g \in [1..t -> 1..j]
      BY <3>2 DEF Finds
    <3>4. Finds(R, g, t, j)
      BY <3>3 DEF Finds
    <3>5. t <= f[j]
      BY <2>1, <3>4
    <3> QED
      BY <1>2, <2>0, <2>2, <3>5
  <2>5. CASE t # 0 /\ g[t] = j + 1
    <3> DEFINE h == [a \in 1..(t - 1) |-> g[a]]
    <3>1. t - 1 \in 0..m /\ t \in 1..t /\ 1..(t - 1) \subseteq 1..t
      BY <2>0, <2>5
    <3>2. ASSUME NEW a \in 1..(t - 1) PROVE g[a] \in 1..j
      <4>1. a \in 1..t /\ a < t
        BY <2>0, <3>1
      <4>2. g[a] \in 1..(j + 1) /\ g[a] < g[t]
        BY <3>1, <4>1 DEF Finds
      <4> QED
        BY <2>5, <4>2
    <3>3. Finds(R, h, t - 1, j)
      BY <3>1, <3>2 DEF Finds
    <3> HIDE DEF h
    <3>4. t - 1 <= f[j]
      BY <2>1, <3>1, <3>3
    <3>5. <<t, j + 1>> \in R
      BY <2>5, <3>1 DEF Finds
    <3>6. CASE f[j] = t - 1
      <4>1. f[j] < m /\ f[j] + 1 = t
        BY <2>0, <3>6
      <4> QED
        BY <1>2, <3>5, <4>1
    <3>7. CASE f[j] # t - 1
      BY <1>2, <2>0, <2>2, <3>4, <3>7
    <3> QED
      BY <3>6, <3>7
  <2> QED
    BY <2>3, <2>4, <2>5
<1>7. n \in Sound
  <2> HIDE DEF Sound
  <2>1. Nat \subseteq Sound
    BY <1>3, <1>4, NatSetInduction
  <2> QED
    BY <2>1
<1>8. n \in Best
  <2> HIDE DEF Best
  <2>1. Nat \subseteq Best
    BY <1>5, <1>6, NatSetInduction
  <2> QED
    BY <2>1
<1>9. f[n] \in Nat /\ f[n] <= m /\ \E g : Finds(R, g, f[n], n)
  BY <1>1, <1>7
<1>10. ASSUME f[n] >= m PROVE \E g : Finds(R, g, m, n)
  <2>1. f[n] = m
    BY <1>9, <1>10
  <2> QED
    BY <1>9, <2>1
<1>11. ASSUME \E g : Finds(R, g, m, n) PROVE f[n] >= m
  <2>1. m \in 0..m
    OBVIOUS
  <2>2. m <= f[n]
    BY <1>8, <1>11, <2>1
  <2> QED
    BY <1>9, <2>2
<1> QED
  BY <1>10, <1>11

\* What Matched counts.
LEMMA MatchedFinds ==
  ASSUME NEW m \in Nat, NEW n \in Nat, NEW sigs, NEW pubs, Len(sigs) = m, Len(pubs) = n,
         NEW R, \A i \in 1..m, j \in 1..n : <<i, j>> \in R <=> SignatureOk(sigs[i], pubs[j])
  PROVE  Matched(sigs, pubs) \in Nat /\ ((Matched(sigs, pubs) >= m) <=> \E g : Finds(R, g, m, n))
<1> DEFINE Tries(f) == [j \in 0..Len(pubs) |->
                IF j = 0 THEN 0
                ELSE LET k == f[j - 1]
                     IN  IF k < Len(sigs) /\ SignatureOk(sigs[k + 1], pubs[j]) THEN k + 1 ELSE k]
           found == CHOOSE f : f = Tries(f)
<1>1. Matched(sigs, pubs) = found[n]
  BY DEF Matched
<1>2. \E f \in [0..n -> 0..m] : f = Tries(f)
  <2> DEFINE S == 0..m
             steps == [j \in 1..n |-> [k \in S |->
                          IF k < m /\ SignatureOk(sigs[k + 1], pubs[j]) THEN k + 1 ELSE k]]
             z == 0
  <2>1. z \in S /\ n \in Nat /\ steps \in [1..n -> [S -> S]]
    <3>1. ASSUME NEW k \in S, k < m PROVE k + 1 \in S
      BY <3>1
    <3> QED
      BY <3>1
  <2> HIDE DEF steps, S, z, Tries, found
  <2>2. \E f \in [0..n -> S] : Takes(f, z, steps, n)
    BY ONLY <2>1, Iterates
  <2>3. PICK f \in [0..n -> S] : \A i \in 0..n : f[i] = IF i = 0 THEN z ELSE steps[i][f[i - 1]]
    BY ONLY <2>2 DEF Takes
  <2>4. ASSUME NEW i \in 0..n, i # 0
        PROVE  steps[i][f[i - 1]] = IF f[i - 1] < m /\ SignatureOk(sigs[f[i - 1] + 1], pubs[i]) THEN f[i - 1] + 1 ELSE f[i - 1]
    <3>1. i \in 1..n /\ i - 1 \in 0..n
      BY <2>4
    <3>2. f[i - 1] \in S
      BY <3>1
    <3> QED
      BY <3>1, <3>2 DEF steps
  <2>5. f = Tries(f)
    <3> HIDE DEF Tries
    <3>1. \A i \in 0..n : f[i] = IF i = 0 THEN 0 ELSE
              IF f[i - 1] < m /\ SignatureOk(sigs[f[i - 1] + 1], pubs[i]) THEN f[i - 1] + 1 ELSE f[i - 1]
      BY <2>3, <2>4 DEF z, S
    <3> QED
      BY <3>1 DEF Tries
  <2> QED
    BY <2>5 DEF S
<1>3. \E f : f = Tries(f)
  BY <1>2
<1>4. found = Tries(found)
  BY <1>3
<1> HIDE DEF found
<1>5. \A j \in 0..n : found[j] = IF j = 0 THEN 0 ELSE
              IF found[j - 1] < m /\ SignatureOk(sigs[found[j - 1] + 1], pubs[j]) THEN found[j - 1] + 1 ELSE found[j - 1]
  BY <1>4
<1> DEFINE G == {j \in Nat : j <= n => found[j] \in Nat}
<1>6. 0 \in G
  BY <1>5
<1>7. ASSUME NEW j \in Nat, j \in G PROVE j + 1 \in G
  <2> SUFFICES ASSUME j + 1 <= n PROVE found[j + 1] \in Nat
    OBVIOUS
  <2>1. j + 1 \in 0..n /\ j + 1 # 0 /\ (j + 1) - 1 = j /\ found[j] \in Nat
    BY <1>7
  <2> QED
    BY <1>5, <2>1
<1>8. \A j \in 0..n : found[j] \in Nat
  <2> HIDE DEF G
  <2>1. Nat \subseteq G
    BY <1>6, <1>7, NatSetInduction
  <2> QED
    BY <2>1 DEF G
<1>9. ASSUME NEW j \in 1..n
      PROVE  found[j] = IF found[j - 1] < m /\ <<found[j - 1] + 1, j>> \in R THEN found[j - 1] + 1 ELSE found[j - 1]
  <2>1. j \in 0..n /\ j # 0 /\ j - 1 \in 0..n
    OBVIOUS
  <2>2. found[j - 1] \in Nat
    BY <1>8, <2>1
  <2>3. found[j - 1] < m => (<<found[j - 1] + 1, j>> \in R <=> SignatureOk(sigs[found[j - 1] + 1], pubs[j]))
    <3>1. found[j - 1] < m => found[j - 1] + 1 \in 1..m
      BY <2>2
    <3> QED
      BY <3>1
  <2> QED
    BY <1>5, <2>1, <2>3
<1> DEFINE f == [j \in 0..n |-> found[j]]
<1>10. f \in [0..n -> Nat] /\ f[0] = 0 /\ f[n] = found[n]
  BY <1>5, <1>8
<1>11. \A j \in 1..n : f[j] = IF f[j - 1] < m /\ <<f[j - 1] + 1, j>> \in R THEN f[j - 1] + 1 ELSE f[j - 1]
  <2>1. ASSUME NEW j \in 1..n PROVE f[j] = found[j] /\ f[j - 1] = found[j - 1]
    <3>1. j \in 0..n /\ j - 1 \in 0..n
      OBVIOUS
    <3> QED
      BY <3>1
  <2> HIDE DEF f
  <2> QED
    BY <1>9, <2>1
<1> HIDE DEF f
<1>12. (f[n] >= m) <=> \E g : Finds(R, g, m, n)
  BY <1>10, <1>11, GreedyFinds
<1> QED
  BY <1>1, <1>8, <1>10, <1>12

-----------------------------------------------------------------------------

Several == program.template = "multisig"
Signed == Len(program.signers)
Owned == Len(program.keys)

\* The programs of the builders of several keys, operation by operation.
LEMMA SeveralCode ==
  ASSUME ScriptInv, Several
  PROVE  /\ Signed \in Nat /\ Owned \in 1..15 /\ program.m \in 1..Owned
         /\ Len(program.code) = Signed + Owned + 4
         /\ Len(program.code) <= MaxStack + 1 /\ Len(program.code) <= MaxOps + 1
         /\ \A i \in 1..(Len(program.code) - 1) : program.code[i] = PushOp(program.code[i].arg)
         /\ program.code[1] = PushOp(Empty)
         /\ \A i \in 1..Signed : program.code[i + 1] = PushOp(Sig(program.signers[i]))
         /\ program.code[Signed + 2] = PushOp(Small(program.m))
         /\ \A j \in 1..Owned : program.code[Signed + 2 + j] = PushOp(Pub(program.keys[j]))
         /\ program.code[Signed + Owned + 3] = PushOp(Small(Owned))
         /\ program.code[Signed + Owned + 4] = Op("CHECKMULTISIG")
<1> DEFINE S == Signed
           K == Owned
           empty == PushOp(Empty)
           sig == [i \in 1..S |-> PushOp(Sig(program.signers[i]))]
           pub == [j \in 1..K |-> PushOp(Pub(program.keys[j]))]
           few == PushOp(Small(program.m))
           all == PushOp(Small(K))
           check == Op("CHECKMULTISIG")
<1>0. program \in Programs
  BY DEF ScriptInv
<1>1. /\ Len(program.code) <= MaxStack + 1 /\ Len(program.code) <= MaxOps + 1
      /\ program.signers \in Seq(ScriptKeys) /\ program.keys \in Seq(ScriptKeys)
      /\ program.m \in 1..Len(program.keys) /\ Len(program.keys) <= 15
      /\ program.code = MultisigUnlock(program.signers) \o MultisigLock(program.m, program.keys)
  BY <1>0, ScriptAssumption DEF Several
<1>2. /\ S \in Nat /\ K \in 1..15 /\ program.m \in 1..K
      /\ DOMAIN program.signers = 1..S /\ DOMAIN program.keys = 1..K
  <2>1. /\ Len(program.signers) \in Nat /\ DOMAIN program.signers = 1..Len(program.signers)
        /\ Len(program.keys) \in Nat /\ DOMAIN program.keys = 1..Len(program.keys)
    BY <1>1
  <2>2. ASSUME NEW n \in Nat, NEW m \in 1..n, n <= 15 PROVE n \in 1..15
    BY <2>2
  <2>3. Len(program.keys) \in 1..15
    BY <1>1, <2>1, <2>2, Zenon
  <2> QED
    BY <1>1, <2>1, <2>3 DEF Signed, Owned
<1>3. program.code = (<<empty>> \o sig) \o ((<<few>> \o pub) \o <<all, check>>)
  BY <1>1, <1>2 DEF MultisigUnlock, MultisigLock, NumberOp, Owned
<1> DEFINE O == {empty, few, all, check} \cup {sig[i] : i \in 1..S} \cup {pub[j] : j \in 1..K}
<1>4. /\ sig \in Seq(O) /\ Len(sig) = S /\ pub \in Seq(O) /\ Len(pub) = K
      /\ <<empty>> \in Seq(O) /\ <<few>> \in Seq(O) /\ <<all, check>> \in Seq(O)
  <2>1. sig \in [1..S -> O] /\ pub \in [1..K -> O] /\ K \in Nat
    BY <1>2
  <2>2. empty \in O /\ few \in O /\ all \in O /\ check \in O
    OBVIOUS
  <2> HIDE DEF O, sig, pub, empty, few, all, check
  <2> QED
    BY <1>2, <2>1, <2>2
<1>5. /\ \A i \in 1..S : sig[i] = PushOp(Sig(program.signers[i]))
      /\ \A j \in 1..K : pub[j] = PushOp(Pub(program.keys[j]))
  OBVIOUS
<1> HIDE DEF O, S, K, sig, pub, empty, few, all, check
<1> DEFINE unlock == <<empty>> \o sig
           middle == <<few>> \o pub
           lock == middle \o <<all, check>>
<1>6. /\ unlock \in Seq(O) /\ Len(unlock) = S + 1 /\ unlock[1] = empty
      /\ \A i \in 1..S : unlock[i + 1] = sig[i]
  <2>1. \A i \in 1..S : ~ (i + 1 <= 1) /\ i + 1 \in 1..(S + 1) /\ (i + 1) - 1 = i
    BY <1>2
  <2> QED
    BY <1>2, <1>4, <2>1
<1>7. /\ middle \in Seq(O) /\ Len(middle) = K + 1 /\ middle[1] = few
      /\ \A j \in 1..K : middle[j + 1] = pub[j]
  <2>1. \A i \in 1..K : ~ (i + 1 <= 1) /\ i + 1 \in 1..(K + 1) /\ (i + 1) - 1 = i
    BY <1>2
  <2> QED
    BY <1>2, <1>4, <2>1
<1> HIDE DEF unlock, middle
<1>8. /\ lock \in Seq(O) /\ Len(lock) = K + 3 /\ lock[K + 2] = all /\ lock[K + 3] = check
      /\ \A j \in 1..(K + 1) : lock[j] = middle[j]
  <2>1. <<all, check>>[1] = all /\ <<all, check>>[2] = check /\ Len(<<all, check>>) = 2
    OBVIOUS
  <2> QED
    BY <1>2, <1>4, <1>7, <2>1
<1> HIDE DEF lock
<1>9. program.code = unlock \o lock
  BY <1>3 DEF unlock, lock, middle
<1>10. /\ Len(program.code) = S + K + 4
       /\ \A i \in 1..(S + 1) : program.code[i] = unlock[i]
       /\ \A j \in 1..(K + 3) : program.code[S + 1 + j] = lock[j]
  BY <1>2, <1>6, <1>8, <1>9
<1>11. /\ program.code[1] = empty
       /\ \A i \in 1..S : program.code[i + 1] = sig[i]
  <2>1. 1 \in 1..(S + 1) /\ \A i \in 1..S : i + 1 \in 1..(S + 1)
    BY <1>2
  <2> QED
    BY <1>6, <1>10, <2>1
<1>12. /\ program.code[S + 2] = few
       /\ program.code[S + K + 3] = all /\ program.code[S + K + 4] = check
  <2>1. 1 \in 1..(K + 1) /\ 1 \in 1..(K + 3) /\ K + 2 \in 1..(K + 3) /\ K + 3 \in 1..(K + 3)
    BY <1>2
  <2>2. S + 1 + 1 = S + 2 /\ S + 1 + (K + 2) = S + K + 3 /\ S + 1 + (K + 3) = S + K + 4
    BY <1>2
  <2> QED
    BY <1>7, <1>8, <1>10, <2>1, <2>2
<1>13. ASSUME NEW j \in 1..K PROVE program.code[S + 2 + j] = pub[j]
  <2>1. j + 1 \in 1..(K + 1) /\ j + 1 \in 1..(K + 3) /\ S + 1 + (j + 1) = S + 2 + j
    BY <1>2
  <2> QED
    BY <1>7, <1>8, <1>10, <2>1
<1>14. ASSUME NEW i \in 1..(Len(program.code) - 1) PROVE program.code[i] = PushOp(program.code[i].arg)
  <2>1. i = 1 \/ i - 1 \in 1..S \/ i = S + 2 \/ i - (S + 2) \in 1..K \/ i = S + K + 3
    BY <1>2, <1>10
  <2>2. \E v : program.code[i] = PushOp(v)
    <3>1. CASE i = 1
      BY <1>11, <3>1 DEF empty
    <3>2. CASE i - 1 \in 1..S
      <4>1. program.code[(i - 1) + 1] = sig[i - 1] /\ (i - 1) + 1 = i
        BY <1>11, <3>2
      <4> QED
        BY <1>5, <3>2, <4>1
    <3>3. CASE i = S + 2
      BY <1>12, <3>3 DEF few
    <3>4. CASE i - (S + 2) \in 1..K
      <4>1. program.code[S + 2 + (i - (S + 2))] = pub[i - (S + 2)] /\ S + 2 + (i - (S + 2)) = i
        BY <1>2, <1>13, <3>4
      <4> QED
        BY <1>5, <3>4, <4>1
    <3>5. CASE i = S + K + 3
      BY <1>12, <3>5 DEF all
    <3> QED
      BY <2>1, <3>1, <3>2, <3>3, <3>4, <3>5
  <2> QED
    BY <2>2 DEF PushOp
<1> QED
  BY <1>1, <1>2, <1>5, <1>10, <1>11, <1>12, <1>13, <1>14 DEF S, K, empty, few, all, check

\* The last m of the S signers a are different ones of the K keys b, in their order.
LastInOrder(a, S, m, b, K) ==
    \E f \in [1..m -> 1..K] : /\ \A i, j \in 1..m : i < j => f[i] < f[j]
                             /\ \A i \in 1..m : b[f[i]] = a[S - m + i]

\* Signatures and keys leave the stack in reverse, so the keys are found in order either way.
LEMMA Reversed ==
  ASSUME NEW m \in Nat, NEW K \in Nat, NEW S \in Nat, m <= S, NEW a, NEW b, NEW R,
         \A i \in 1..m, j \in 1..K : <<i, j>> \in R <=> a[S + 1 - i] = b[K + 1 - j]
  PROVE  (\E g : Finds(R, g, m, K)) <=> LastInOrder(a, S, m, b, K)
<1>1. ASSUME NEW g, Finds(R, g, m, K)
      PROVE  \E f \in [1..m -> 1..K] : /\ \A i, j \in 1..m : i < j => f[i] < f[j]
                                       /\ \A i \in 1..m : b[f[i]] = a[S - m + i]
  <2> DEFINE f == [i \in 1..m |-> K + 1 - g[m + 1 - i]]
  <2>1. ASSUME NEW i \in 1..m
        PROVE  /\ m + 1 - i \in 1..m /\ g[m + 1 - i] \in 1..K /\ f[i] = K + 1 - g[m + 1 - i] /\ f[i] \in 1..K
               /\ b[f[i]] = a[S - m + i]
    <3>1. m + 1 - i \in 1..m
      OBVIOUS
    <3>2. g[m + 1 - i] \in 1..K /\ <<m + 1 - i, g[m + 1 - i]>> \in R
      BY <1>1, <3>1 DEF Finds
    <3>3. f[i] = K + 1 - g[m + 1 - i] /\ f[i] \in 1..K
      BY <3>2
    <3>4. a[S + 1 - (m + 1 - i)] = b[K + 1 - g[m + 1 - i]]
      BY <3>1, <3>2
    <3>5. S + 1 - (m + 1 - i) = S - m + i
      OBVIOUS
    <3> HIDE DEF f
    <3> QED
      BY <3>1, <3>2, <3>3, <3>4, <3>5
  <2>2. f \in [1..m -> 1..K]
    BY <2>1
  <2> HIDE DEF f
  <2>3. ASSUME NEW i \in 1..m, NEW j \in 1..m, i < j PROVE f[i] < f[j]
    <3>1. m + 1 - j < m + 1 - i
      BY <2>3
    <3>2. g[m + 1 - j] < g[m + 1 - i]
      BY <1>1, <2>1, <3>1 DEF Finds
    <3> QED
      BY <2>1, <3>2
  <2> QED
    BY <2>1, <2>2, <2>3
<1>2. ASSUME NEW f \in [1..m -> 1..K], \A i, j \in 1..m : i < j => f[i] < f[j],
             \A i \in 1..m : b[f[i]] = a[S - m + i]
      PROVE  \E g : Finds(R, g, m, K)
  <2> DEFINE g == [i \in 1..m |-> K + 1 - f[m + 1 - i]]
  <2>1. ASSUME NEW i \in 1..m
        PROVE  /\ m + 1 - i \in 1..m /\ f[m + 1 - i] \in 1..K /\ g[i] = K + 1 - f[m + 1 - i] /\ g[i] \in 1..K
               /\ <<i, g[i]>> \in R
    <3>1. m + 1 - i \in 1..m
      OBVIOUS
    <3>2. f[m + 1 - i] \in 1..K /\ b[f[m + 1 - i]] = a[S - m + (m + 1 - i)]
      BY <1>2, <3>1
    <3>3. g[i] = K + 1 - f[m + 1 - i] /\ g[i] \in 1..K /\ K + 1 - g[i] = f[m + 1 - i]
      BY <3>2
    <3>4. S - m + (m + 1 - i) = S + 1 - i
      OBVIOUS
    <3> HIDE DEF g
    <3> QED
      BY <3>1, <3>2, <3>3, <3>4
  <2>2. g \in [1..m -> 1..K]
    BY <2>1
  <2> HIDE DEF g
  <2>3. ASSUME NEW i \in 1..m, NEW j \in 1..m, i < j PROVE g[i] < g[j]
    <3>1. m + 1 - j < m + 1 - i
      BY <2>3
    <3>2. f[m + 1 - j] < f[m + 1 - i]
      BY <1>2, <2>1, <3>1
    <3>3. /\ g[i] = K + 1 - f[m + 1 - i] /\ f[m + 1 - i] \in 1..K
          /\ g[j] = K + 1 - f[m + 1 - j] /\ f[m + 1 - j] \in 1..K
      BY <2>1
    <3> QED
      BY <3>2, <3>3
  <2> QED
    BY <2>1, <2>2, <2>3 DEF Finds
<1> QED
  BY <1>1, <1>2 DEF LastInOrder

\* The last m signatures are by different keys, in the order of the keys.
Satisfied == program.m <= Signed /\ LastInOrder(program.signers, Signed, program.m, program.keys, Owned)

\* Until OP_CHECKMULTISIG the stack holds what the program has pushed.
Arguments ==
    /\ pc <= Len(program.code) /\ Len(stack) = pc - 1
    /\ \A i \in 1..(pc - 1) : stack[i] = program.code[i].arg

MultiInv ==
    /\ verdict = "running" =>
          \/ Arguments
          \/ Satisfied /\ pc = Len(program.code) + 1 /\ stack # <<>> /\ Top(0) = Small(1)
    /\ verdict # "running" => (verdict = "accepted" <=> Satisfied)

\* What OP_CHECKMULTISIG finds on the stack.
LEMMA SeveralSeen ==
  ASSUME ScriptInv, Several, Arguments, pc = Len(program.code)
  PROVE  /\ Len(stack) = Signed + Owned + 3
         /\ Top(0) = Small(Owned) /\ Top(Owned + 1) = Small(program.m)
         /\ \A j \in 1..Owned : Top(j) = Pub(program.keys[Owned + 1 - j])
         /\ \A i \in 1..Signed : Top(Owned + 1 + i) = Sig(program.signers[Signed + 1 - i])
         /\ Top(Owned + 1 + (Signed + 1)) = Empty
<1> DEFINE S == Signed
           K == Owned
           L == S + K + 3
<1>1. /\ S \in Nat /\ K \in 1..15 /\ Len(program.code) = S + K + 4
      /\ program.code[1] = PushOp(Empty)
      /\ \A i \in 1..S : program.code[i + 1] = PushOp(Sig(program.signers[i]))
      /\ program.code[S + 2] = PushOp(Small(program.m))
      /\ \A j \in 1..K : program.code[S + 2 + j] = PushOp(Pub(program.keys[j]))
      /\ program.code[L] = PushOp(Small(K))
  BY SeveralCode
<1>2. \A v : PushOp(v).arg = v
  BY DEF PushOp
<1> HIDE DEF S, K
<1>0. S \in Nat /\ K \in Nat /\ K >= 1
  BY <1>1
<1>3. Len(stack) = L /\ \A i \in 1..L : stack[i] = program.code[i].arg
  <2>1. pc - 1 = L
    BY <1>1
  <2> QED
    BY <2>1 DEF Arguments
<1>4. ASSUME NEW i, L - i \in 1..L PROVE Top(i) = program.code[L - i].arg
  BY <1>3, <1>4 DEF Top
<1>5. Top(0) = Small(K)
  <2>1. L - 0 \in 1..L /\ L - 0 = L
    BY <1>0
  <2>2. Top(0) = program.code[L].arg
    BY <1>4, <2>1
  <2> QED
    BY <1>1, <1>2, <2>2
<1>6. Top(K + 1) = Small(program.m)
  <2>1. L - (K + 1) \in 1..L /\ L - (K + 1) = S + 2
    BY <1>0
  <2>2. Top(K + 1) = program.code[S + 2].arg
    BY <1>4, <2>1
  <2> QED
    BY <1>1, <1>2, <2>2
<1>7. ASSUME NEW j \in 1..K PROVE Top(j) = Pub(program.keys[K + 1 - j])
  <2>1. L - j \in 1..L /\ L - j = S + 2 + (K + 1 - j) /\ K + 1 - j \in 1..K
    BY <1>0
  <2>2. program.code[S + 2 + (K + 1 - j)] = PushOp(Pub(program.keys[K + 1 - j]))
    BY <1>1, <2>1
  <2>3. Top(j) = program.code[S + 2 + (K + 1 - j)].arg
    BY <1>4, <2>1
  <2> QED
    BY <1>2, <2>2, <2>3
<1>8. ASSUME NEW i \in 1..S PROVE Top(K + 1 + i) = Sig(program.signers[S + 1 - i])
  <2>1. L - (K + 1 + i) \in 1..L /\ L - (K + 1 + i) = (S + 1 - i) + 1 /\ S + 1 - i \in 1..S
    BY <1>0
  <2>2. program.code[(S + 1 - i) + 1] = PushOp(Sig(program.signers[S + 1 - i]))
    BY <1>1, <2>1
  <2>3. Top(K + 1 + i) = program.code[(S + 1 - i) + 1].arg
    BY <1>4, <2>1
  <2> QED
    BY <1>2, <2>2, <2>3
<1>9. Top(K + 1 + (S + 1)) = Empty
  <2>1. L - (K + 1 + (S + 1)) \in 1..L /\ L - (K + 1 + (S + 1)) = 1
    BY <1>0
  <2>2. Top(K + 1 + (S + 1)) = program.code[1].arg
    BY <1>4, <2>1
  <2> QED
    BY <1>1, <1>2, <2>2
<1> QED
  BY <1>3, <1>5, <1>6, <1>7, <1>8, <1>9 DEF S, K

\* OP_CHECKMULTISIG counts enough signatures exactly if the script is satisfied.
LEMMA SeveralMatched ==
  ASSUME ScriptInv, Several, Arguments, pc = Len(program.code), program.m <= Signed + 1,
         NEW sigs, NEW pubs,
         sigs = [i \in 1..program.m |-> Top(Owned + 1 + i)], pubs = [j \in 1..Owned |-> Top(j)]
  PROVE  Matched(sigs, pubs) \in Nat /\ ((Matched(sigs, pubs) >= program.m) <=> Satisfied)
<1> DEFINE S == Signed
           K == Owned
           m == program.m
           R == {p \in (1..m) \X (1..K) : SignatureOk(sigs[p[1]], pubs[p[2]])}
<1>1. /\ S \in Nat /\ K \in Nat /\ m \in Nat /\ m >= 1
  <2>1. S \in Nat /\ K \in 1..15 /\ m \in 1..K
    BY SeveralCode
  <2> HIDE DEF S, K, m
  <2> QED
    BY <2>1
<1>2. /\ \A j \in 1..K : pubs[j] = Pub(program.keys[K + 1 - j])
      /\ \A i \in 1..m : i <= S => sigs[i] = Sig(program.signers[S + 1 - i])
      /\ m = S + 1 => sigs[m] = Empty
  <2>1. \A i \in 1..m : i <= S => i \in 1..S
    BY <1>1
  <2>2. m \in 1..m
    BY <1>1
  <2> QED
    BY <2>1, <2>2, SeveralSeen
<1>3. Len(sigs) = m /\ Len(pubs) = K
  <2> DEFINE T == {Top(i) : i \in Nat}
  <2>1. \A i \in 1..m : K + 1 + i \in Nat
    BY <1>1
  <2>2. sigs \in [1..m -> T] /\ pubs \in [1..K -> T]
    BY <1>1, <2>1
  <2> HIDE DEF T
  <2>3. ASSUME NEW k \in Nat, NEW q \in [1..k -> T] PROVE Len(q) = k
    <3>1. q \in Seq(T) /\ DOMAIN q = 1..k
      OBVIOUS
    <3>2. Len(q) \in Nat /\ 1..Len(q) = 1..k
      BY <3>1
    <3> QED
      BY <3>2
  <2> QED
    BY <1>1, <2>2, <2>3
<1>4. \A i \in 1..m, j \in 1..K : <<i, j>> \in R <=> SignatureOk(sigs[i], pubs[j])
  OBVIOUS
<1>5. \A v : ~ SignatureOk(Empty, v)
  BY DEF SignatureOk, Empty, Value
<1> HIDE DEF R, S, K, m
<1>6. Matched(sigs, pubs) \in Nat /\ ((Matched(sigs, pubs) >= m) <=> \E g : Finds(R, g, m, K))
  BY <1>1, <1>3, <1>4, MatchedFinds
<1>7. CASE m = S + 1
  <2>1. ASSUME NEW g, Finds(R, g, m, K) PROVE FALSE
    <3>1. m \in 1..m /\ g[m] \in 1..K /\ <<m, g[m]>> \in R
      BY <1>1, <2>1 DEF Finds
    <3>2. SignatureOk(sigs[m], pubs[g[m]])
      BY <1>4, <3>1
    <3> QED
      BY <1>2, <1>5, <1>7, <3>2
  <2>2. ~ (m <= S)
    BY <1>1, <1>7
  <2> QED
    BY <1>6, <2>1, <2>2 DEF Satisfied, S, m
<1>8. CASE m # S + 1
  <2>1. m <= S
    BY <1>1, <1>8 DEF S, m
  <2>2. ASSUME NEW i \in 1..m, NEW j \in 1..K
        PROVE  <<i, j>> \in R <=> program.signers[S + 1 - i] = program.keys[K + 1 - j]
    <3>1. i <= S
      BY <1>1, <2>1
    <3>2. sigs[i] = Sig(program.signers[S + 1 - i]) /\ pubs[j] = Pub(program.keys[K + 1 - j])
      BY <1>2, <3>1
    <3> QED
      <4>1. SignatureOk(sigs[i], pubs[j]) <=> program.signers[S + 1 - i] = program.keys[K + 1 - j]
        BY <3>2 DEF SignatureOk, Sig, Pub, Value
      <4> QED
        BY <1>4, <4>1
  <2>3. (\E g : Finds(R, g, m, K)) <=> LastInOrder(program.signers, S, m, program.keys, K)
    <3> DEFINE a == program.signers
               b == program.keys
    <3>1. \A i \in 1..m, j \in 1..K : <<i, j>> \in R <=> a[S + 1 - i] = b[K + 1 - j]
      BY <2>2
    <3> HIDE DEF a, b
    <3>2. (\E g : Finds(R, g, m, K)) <=> LastInOrder(a, S, m, b, K)
      BY ONLY <1>1, <2>1, <3>1, Reversed
    <3> QED
      BY <3>2 DEF a, b
  <2> QED
    BY <1>6, <2>1, <2>3 DEF Satisfied, S, K, m
<1> QED
  BY <1>6, <1>7, <1>8 DEF m

LEMMA SeveralChecked ==
  ASSUME Turn, Several, Arguments, pc = Len(program.code), CheckMultisig
  PROVE  /\ Satisfied => /\ program' = program /\ pc' = pc + 1 /\ verdict' = "running"
                         /\ stack' # <<>> /\ stack'[Len(stack')] = Small(1)
         /\ ~ Satisfied => Ends("refused")
<1> DEFINE S == Signed
           K == Owned
           m == program.m
<1>1. /\ S \in Nat /\ K \in 1..15 /\ m \in 1..K /\ Len(stack) = S + K + 3
      /\ Top(0) = Small(K) /\ Top(K + 1) = Small(m)
      /\ \A j \in 1..K : Top(j) = Pub(program.keys[K + 1 - j])
  BY SeveralCode, SeveralSeen DEF Turn
<1>2. \A k \in 0..15 : FirstByte(Small(k)) = {k}
  BY DEF FirstByte, IsNumber, Small, Value
<1>3. ScriptInv /\ MaxStack \in Nat /\ Len(stack) <= MaxStack
  BY CodeFacts DEF Turn, ScriptInv
<1> HIDE DEF S, K, m
<1>4. S \in Nat /\ K \in Nat /\ m \in Nat /\ m >= 1 /\ K \in 0..15 /\ m \in 0..15
  BY <1>1
<1>5. FirstByte(Top(0)) = {K} /\ FirstByte(Top(K + 1)) = {m}
  BY <1>1, <1>2, <1>4
<1>6. ~ (Len(stack) < 1) /\ ~ (Len(stack) < K + 2)
  BY <1>1, <1>4
<1>7. ASSUME NEW n \in FirstByte(Top(0)), Len(stack) < n + 2 PROVE FALSE
  BY <1>5, <1>6, <1>7
<1>8. ASSUME NEW n \in FirstByte(Top(0)), NEW q \in FirstByte(Top(n + 1)),
             NEW taken, taken = 2 + n + q, NEW pubs, pubs = [i \in 1..n |-> Top(i)],
             NEW sigs, sigs = [i \in 1..q |-> Top(n + 1 + i)],
             \/ (Len(stack) < taken \/ MayNotDecode(pubs)) /\ Refuse
             \/ Len(stack) >= taken /\ Matched(sigs, pubs) < q /\ Refuse
             \/ /\ Len(stack) >= taken /\ Matched(sigs, pubs) >= q
                /\ Go(Append(Below(IF Len(stack) > taken THEN taken + 1 ELSE taken), Small(1)))
      PROVE  /\ Satisfied => /\ program' = program /\ pc' = pc + 1 /\ verdict' = "running"
                             /\ stack' # <<>> /\ stack'[Len(stack')] = Small(1)
             /\ ~ Satisfied => Ends("refused")
  <2>1. n = K /\ q = m
    BY <1>5
  <2>2. pubs = [j \in 1..Owned |-> Top(j)] /\ sigs = [i \in 1..program.m |-> Top(Owned + 1 + i)]
    BY <1>8, <2>1 DEF K, m
  <2>3. ~ MayNotDecode(pubs)
    <3>1. DOMAIN pubs = 1..K /\ \A j \in 1..K : pubs[j] = Top(j)
      BY <1>8, <2>1
    <3>2. \A j \in 1..K : pubs[j].kind = "pub"
      BY <1>1, <3>1 DEF Pub, Value
    <3> QED
      BY <3>1, <3>2 DEF MayNotDecode
  <2>4. taken = 2 + K + m
    BY <1>8, <2>1
  <2>5. m <= S + 1 => Matched(sigs, pubs) \in Nat /\ ((Matched(sigs, pubs) >= m) <=> Satisfied)
    BY <1>3, <2>2, SeveralMatched DEF S, m
  <2>6. Refuse => Ends("refused")
    BY DEF Refuse, Ends
  <2>7. CASE Len(stack) < taken /\ Refuse
    <3>1. ~ (m <= S)
      BY <1>1, <1>4, <2>4, <2>7
    <3>2. ~ Satisfied
      BY <3>1 DEF Satisfied, S, m
    <3> QED
      BY <2>6, <2>7, <3>2
  <2>8. CASE Len(stack) >= taken /\ Matched(sigs, pubs) < q /\ Refuse
    <3>1. m <= S + 1
      BY <1>1, <1>4, <2>4, <2>8
    <3>2. ~ Satisfied
      BY <1>4, <2>1, <2>5, <2>8, <3>1
    <3> QED
      BY <2>6, <2>8, <3>2
  <2>9. CASE /\ Len(stack) >= taken /\ Matched(sigs, pubs) >= q
             /\ Go(Append(Below(IF Len(stack) > taken THEN taken + 1 ELSE taken), Small(1)))
    <3> DEFINE l == IF Len(stack) > taken THEN taken + 1 ELSE taken
               rest == Below(l)
               next == Append(rest, Small(1))
    <3>1. m <= S + 1
      BY <1>1, <1>4, <2>4, <2>9
    <3>2. Satisfied
      BY <2>1, <2>5, <2>9, <3>1
    <3>3. l \in Nat /\ l >= 1 /\ l <= Len(stack)
      BY <1>1, <1>4, <2>4, <2>9
    <3>4. Go(next)
      BY <2>9
    <3> HIDE DEF l
    <3>5. rest \in Seq(ScriptValues) /\ Len(rest) = Len(stack) - l
      BY <1>3, <3>3, StackFacts
    <3>6. Small(1) \in ScriptValues
      BY MadeValues
    <3> HIDE DEF rest
    <3>7. /\ next \in Seq(ScriptValues) /\ Len(next) = Len(rest) + 1 /\ next[Len(next)] = Small(1)
      BY <3>5, <3>6
    <3> HIDE DEF next
    <3>8. Len(next) \in Nat /\ Len(next) <= MaxStack /\ Len(next) # 0
      BY <1>1, <1>3, <1>4, <3>3, <3>5, <3>7
    <3>9. Moves(next)
      BY <3>4, <3>8, Put1
    <3>10. next # <<>>
      BY <3>8
    <3> QED
      BY <3>2, <3>7, <3>9, <3>10 DEF Moves
  <2> QED
    BY <1>8, <2>3, <2>7, <2>8, <2>9
<1> QED
  BY <1>6, <1>7, <1>8 DEF CheckMultisig

LEMMA MultiStep ==
  ASSUME ScriptInv, Several, MultiInv, ScriptNext
  PROVE  MultiInv'
<1>1. verdict = "running"
  BY DEF ScriptNext, ScriptStep, ScriptEnd
<1>2. program' = program
  BY DEF ScriptNext, ScriptStep, ScriptEnd, Simple, CheckSig, CheckMultisig, ClaimTimeVerify, Conditional,
         Calculate, Take, Verify, Go, Refuse, JumpTo
<1>3. Satisfied' = Satisfied
  BY <1>2 DEF Satisfied, Signed, Owned
<1>4. /\ Len(program.code) \in Nat /\ Len(program.code) <= MaxStack + 1 /\ Len(program.code) <= MaxOps + 1
      /\ MaxStack \in Nat /\ MaxOps \in Nat /\ ops \in Nat /\ ops <= pc - 1 /\ pc \in Nat /\ pc >= 1
  BY <1>1, SeveralCode, CodeFacts DEF ScriptInv
<1>5. CASE Arguments
  <2>1. pc <= Len(program.code) /\ ops <= MaxOps /\ ~ (pc > Len(program.code))
    BY <1>4, <1>5 DEF Arguments
  <2>2. Turn /\ ScriptStep
    BY <1>1, <2>1 DEF Turn, ScriptNext, ScriptEnd
  <2>3. CASE pc = Len(program.code)
    <3>1. CheckMultisig
      <4>1. Current = Op("CHECKMULTISIG")
        BY <2>3, SeveralCode DEF Current
      <4> QED
        BY <2>2, <4>1, Operates DEF Op
    <3>2. CASE Satisfied
      <4>1. /\ program' = program /\ pc' = Len(program.code) + 1 /\ verdict' = "running"
            /\ stack' # <<>> /\ stack'[Len(stack')] = Small(1)
        BY <1>5, <2>2, <2>3, <3>1, <3>2, SeveralChecked
      <4>2. stack \in Seq(ScriptValues) /\ stack' \in Seq(ScriptValues)
        BY ScriptKept DEF ScriptInv
      <4>3. Len(stack') - 0 = Len(stack')
        BY <4>2
      <4>4. (Top(0) = Small(1))'
        BY <4>1, <4>3 DEF Top
      <4> QED
        BY <1>3, <3>2, <4>1, <4>4 DEF MultiInv
    <3>3. CASE ~ Satisfied
      <4>1. verdict' = "refused"
        BY <1>5, <2>2, <2>3, <3>1, <3>3, SeveralChecked DEF Ends
      <4> QED
        BY <1>3, <3>3, <4>1 DEF MultiInv
    <3> QED
      BY <3>2, <3>3
  <2>4. CASE pc # Len(program.code)
    <3> DEFINE next == Append(stack, Current.arg)
    <3>1. pc \in 1..(Len(program.code) - 1) /\ pc + 1 <= Len(program.code)
      BY <1>4, <2>1, <2>4
    <3>2. Current.op = "PUSH"
      <4>1. Current = PushOp(Current.arg)
        BY <3>1, SeveralCode DEF Current
      <4> QED
        BY <4>1 DEF PushOp
    <3>3. Go(next)
      BY <2>2, <3>2, Operates
    <3>4. stack \in Seq(ScriptValues) /\ Current.arg \in ScriptValues
      BY <1>4, <2>1, CodeFacts DEF ScriptInv, Current
    <3>5. /\ Len(stack) = pc - 1 /\ Len(next) = pc /\ next[pc] = program.code[pc].arg
          /\ \A i \in 1..(pc - 1) : next[i] = program.code[i].arg
      <4>1. Len(stack) = pc - 1 /\ \A i \in 1..(pc - 1) : stack[i] = program.code[i].arg
        BY <1>5 DEF Arguments
      <4>2. Len(next) = Len(stack) + 1 /\ next[Len(stack) + 1] = Current.arg
            /\ \A i \in 1..Len(stack) : next[i] = stack[i]
        BY <3>4
      <4>3. (pc - 1) + 1 = pc
        BY <1>4
      <4> QED
        BY <4>1, <4>2, <4>3 DEF Current
    <3> HIDE DEF next
    <3>6. Len(next) \in Nat /\ Len(next) <= MaxStack
      BY <1>4, <3>1, <3>5
    <3>7. Moves(next)
      BY <2>2, <3>3, <3>6, Put1
    <3>8. verdict' = "running" /\ pc' = pc + 1 /\ stack' = next /\ (pc + 1) - 1 = pc
      BY <1>4, <3>7 DEF Moves
    <3>9. \A i \in 1..pc : i = pc \/ i \in 1..(pc - 1)
      BY <1>4
    <3>10. Arguments'
      BY <1>2, <3>1, <3>5, <3>8, <3>9 DEF Arguments
    <3> QED
      BY <3>8, <3>10 DEF MultiInv
  <2> QED
    BY <2>3, <2>4
<1>6. CASE Satisfied /\ pc = Len(program.code) + 1 /\ stack # <<>> /\ Top(0) = Small(1)
  <2>1. ~ (pc <= Len(program.code))
    BY <1>4, <1>6
  <2>2. verdict' = "accepted"
    BY <1>6, <2>1, KeysTell DEF ScriptNext, ScriptStep, ScriptEnd
  <2> QED
    BY <1>3, <1>6, <2>2 DEF MultiInv
<1> QED
  BY <1>1, <1>5, <1>6 DEF MultiInv

\* An m-of-n script is unlocked exactly when its last m signatures are by m different keys in
\* the order of the keys, for any wallets, signatures, m and n: trying every key once and in
\* order misses no choice of keys, and no key counts twice (script.py:139-160, 384-416).
THEOREM MultisigsUnlockExactly == ScriptSpec => []MultisigHolds
<1>1. ASSUME ScriptInit PROVE ScriptInv /\ (Several => MultiInv)
  <2>1. ScriptInv
    BY <1>1, ScriptStart
  <2>2. ASSUME Several PROVE Arguments
    <3>1. Len(program.code) \in Nat /\ 1 <= Len(program.code)
      <4>1. /\ Signed \in Nat /\ Owned \in 1..15 /\ Len(program.code) \in Nat
            /\ Len(program.code) = Signed + Owned + 4
        BY <2>1, <2>2, SeveralCode, CodeFacts
      <4>2. ASSUME NEW a \in Nat, NEW b \in 1..15 PROVE 1 <= a + b + 4
        OBVIOUS
      <4> QED
        BY <4>1, <4>2
    <3>2. Len(<<>>) = 0 /\ 1..(1 - 1) = {}
      OBVIOUS
    <3> QED
      BY <1>1, <3>1, <3>2 DEF ScriptInit, Arguments
  <2>3. verdict = "running"
    BY <1>1 DEF ScriptInit
  <2> QED
    BY <2>1, <2>2, <2>3 DEF MultiInv
<1>2. ASSUME ScriptInv, Several => MultiInv, [ScriptNext]_scriptVars PROVE (ScriptInv /\ (Several => MultiInv))'
  <2>1. ScriptInv'
    BY <1>2, ScriptKept
  <2>2. program' = program
    BY <1>2 DEF scriptVars, ScriptNext, ScriptStep, ScriptEnd, Simple, CheckSig, CheckMultisig, ClaimTimeVerify,
         Conditional, Calculate, Take, Verify, Go, Refuse, JumpTo
  <2>3. ASSUME Several' PROVE MultiInv'
    <3>1. Several
      BY <2>2, <2>3 DEF Several
    <3>2. CASE ScriptNext
      BY <1>2, <3>1, <3>2, MultiStep
    <3>3. CASE UNCHANGED scriptVars
      BY <1>2, <3>1, <3>3 DEF scriptVars, MultiInv, Arguments, Satisfied, Signed, Owned, Top
    <3> QED
      BY <1>2, <3>2, <3>3
  <2> QED
    BY <2>1, <2>3
<1>3. ASSUME ScriptInv, Several => MultiInv PROVE MultisigHolds
  <2>1. ASSUME Several, verdict # "running" PROVE (verdict = "accepted") <=> Satisfied
    BY <1>3, <2>1 DEF MultiInv
  <2>2. ASSUME Several
        PROVE  Satisfied <=> /\ Len(program.signers) - program.m >= 0
                             /\ \E f \in [1..program.m -> DOMAIN program.keys] :
                                   /\ \A i, j \in 1..program.m : i < j => f[i] < f[j]
                                   /\ \A i \in 1..program.m :
                                         program.keys[f[i]] = program.signers[Len(program.signers) - program.m + i]
    <3>1. Signed \in Nat /\ Owned \in 1..15 /\ program.m \in 1..Owned
      BY <1>3, <2>2, SeveralCode
    <3>2. program \in Programs
      BY <1>3 DEF ScriptInv
    <3>3. program.keys \in Seq(ScriptKeys)
      BY <2>2, <3>2, ScriptAssumption DEF Several
    <3>4. DOMAIN program.keys = 1..Owned
      BY <3>3 DEF Owned
    <3>5. program.m <= Signed <=> Signed - program.m >= 0
      <4>1. ASSUME NEW n \in Nat, NEW b \in Nat, NEW m \in 1..b PROVE m <= n <=> n - m >= 0
        OBVIOUS
      <4>2. Owned \in Nat
        BY <3>1
      <4> QED
        BY <3>1, <4>1, <4>2
    <3> QED
      BY <3>4, <3>5 DEF Satisfied, LastInOrder, Signed
  <2> QED
    BY <2>1, <2>2 DEF MultisigHolds, Several
<1> QED
  BY <1>1, <1>2, <1>3, PTL DEF ScriptSpec

-----------------------------------------------------------------------------
(* Conditionals *)

End == Len(program.code) + 1

\* What an operation adds to the depth of a scan.
Weight(op, closing) == IF op = "IF" THEN 1 ELSE IF op \in closing THEN -1 ELSE 0

LEMMA Weights == ASSUME NEW op, NEW closing PROVE Weight(op, closing) \in Int
  BY DEF Weight

\* The depths of a scan.
Depths(f, i, closing) ==
    /\ f[i] = 1
    /\ \A j \in (i + 1)..End : f[j] = f[j - 1] + Weight(program.code[j - 1].op, closing)
    /\ ScanEnd(i, closing) = Min({j \in i..End : f[j] = 0} \cup {End})

LEMMA ScanDepth ==
  ASSUME ScriptInv, NEW i \in Nat, i <= End, NEW closing
  PROVE  \E f \in [0..End -> Int] : Depths(f, i, closing)
<1> DEFINE Next(f) == [j \in 0..End |->
                IF j <= i THEN 1
                ELSE f[j - 1] + (IF program.code[j - 1].op = "IF" THEN 1
                                 ELSE IF program.code[j - 1].op \in closing THEN -1 ELSE 0)]
           depth == CHOOSE f : f = Next(f)
           end == End
           z == 1
           steps == [j \in 1..end |-> [x \in Int |-> IF j <= i THEN z
                                                     ELSE x + Weight(program.code[j - 1].op, closing)]]
<1>1. end \in Nat /\ i \in 0..end
  BY CodeFacts DEF End
<1>2. ScanEnd(i, closing) = Min({j \in i..End : depth[j] = 0} \cup {End})
  BY DEF ScanEnd, End
<1>3. z \in Int /\ steps \in [1..end -> [Int -> Int]]
  <2>1. ASSUME NEW j \in 1..end, NEW x \in Int PROVE x + Weight(program.code[j - 1].op, closing) \in Int
    BY Weights
  <2> HIDE DEF end
  <2> QED
    BY <2>1
<1>4. ASSUME NEW f, f = Next(f)
      PROVE  \A j \in 0..end : f[j] = IF j <= i THEN z ELSE f[j - 1] + Weight(program.code[j - 1].op, closing)
  BY <1>4 DEF Weight
<1>5. \E f : f = Next(f)
  <2>1. ASSUME NEW f \in [0..end -> Int],
               \A j \in 0..end : f[j] = IF j <= i THEN z ELSE f[j - 1] + Weight(program.code[j - 1].op, closing)
        PROVE  f = Next(f)
    BY <2>1 DEF Weight
  <2> HIDE DEF steps, z, end, Next, depth
  <2>2. \E f \in [0..end -> Int] : Takes(f, z, steps, end)
    BY ONLY <1>1, <1>3, Iterates
  <2>3. PICK f \in [0..end -> Int] : \A j \in 0..end : f[j] = IF j = 0 THEN z ELSE steps[j][f[j - 1]]
    BY ONLY <2>2 DEF Takes
  <2>4. ASSUME NEW j \in 0..end
        PROVE  f[j] = IF j <= i THEN z ELSE f[j - 1] + Weight(program.code[j - 1].op, closing)
    <3>1. CASE j = 0
      BY <1>1, <2>3, <3>1
    <3>2. CASE j # 0
      <4>1. j \in 1..end /\ j - 1 \in 0..end
        BY <1>1, <3>2
      <4>2. f[j - 1] \in Int
        BY <4>1
      <4> QED
        BY <2>3, <3>2, <4>1, <4>2 DEF steps
    <3> QED
      BY <3>1, <3>2
  <2> QED
    BY <2>1, <2>4
<1>6. depth = Next(depth)
  BY <1>5
<1>7. /\ \A j \in 0..end : depth[j] = IF j <= i THEN z ELSE depth[j - 1] + Weight(program.code[j - 1].op, closing)
      /\ DOMAIN depth = 0..end /\ depth = [j \in 0..end |-> depth[j]]
  <2>1. DOMAIN depth = 0..end /\ depth = [j \in 0..end |-> depth[j]]
    <3>1. DOMAIN Next(depth) = 0..end /\ Next(depth) = [j \in 0..end |-> Next(depth)[j]]
      OBVIOUS
    <3> HIDE DEF Next, depth
    <3> QED
      BY <1>6, <3>1
  <2> HIDE DEF depth, end, z
  <2> QED
    BY <1>4, <1>6, <2>1
<1> HIDE DEF depth, Next, steps
<1> DEFINE G == {j \in Nat : j <= end => depth[j] \in Int}
<1>8. 0 \in G
  <2> HIDE DEF end
  <2>1. 0 \in 0..end /\ 0 <= i
    BY <1>1
  <2>2. depth[0] = z
    BY <1>7, <2>1
  <2> QED
    BY <2>2
<1>9. ASSUME NEW j \in Nat, j \in G PROVE j + 1 \in G
  <2> SUFFICES ASSUME j + 1 <= end PROVE depth[j + 1] \in Int
    OBVIOUS
  <2> HIDE DEF end
  <2>1. j + 1 \in 0..end /\ (j + 1) - 1 = j /\ j <= end
    BY <1>1
  <2>2. depth[j] \in Int
    BY <1>9, <2>1
  <2>3. depth[j + 1] = IF j + 1 <= i THEN z ELSE depth[j] + Weight(program.code[j].op, closing)
    BY <1>7, <2>1
  <2> QED
    BY <2>2, <2>3, Weights
<1>10. \A j \in 0..end : depth[j] \in Int
  <2> HIDE DEF G
  <2>1. Nat \subseteq G
    BY <1>8, <1>9, NatSetInduction
  <2> QED
    BY <1>1, <2>1 DEF G
<1>11. depth \in [0..End -> Int]
  BY <1>7, <1>10
<1>12. depth[i] = 1
  BY <1>1, <1>7
<1>13. \A j \in (i + 1)..End : depth[j] = depth[j - 1] + Weight(program.code[j - 1].op, closing)
  <2> SUFFICES ASSUME NEW j \in (i + 1)..end
               PROVE  depth[j] = depth[j - 1] + Weight(program.code[j - 1].op, closing)
    OBVIOUS
  <2> HIDE DEF end
  <2>1. j \in 0..end /\ ~ (j <= i)
    BY <1>1
  <2> QED
    BY <1>7, <2>1
<1>14. Depths(depth, i, closing)
  BY <1>2, <1>12, <1>13 DEF Depths
<1> QED
  BY <1>11, <1>14

\* A sequence of operations lies in the program from position a + 1 on.
In(code, a) == a \in Nat /\ a + Len(code) <= Len(program.code) /\ \A k \in 1..Len(code) : program.code[a + k] = code[k]

Ops == [op : STRING, arg : ScriptValues]

LEMMA ConditionalTypes ==
  ASSUME NEW t \in Conditionals
  PROVE  /\ t.code \in Seq(Ops) /\ Len(t.code) \in Nat /\ Len(t.code) > 0
         /\ IsLeaf(t) \/ \E yes, no \in Conditionals : Branches(t, t.code[1].arg, yes, no)
<1>1. t.code \in Seq([op : STRING, arg : ScriptValues]) /\ Len(t.code) > 0
  BY ScriptAssumption
<1>2. IsLeaf(t) \/ \E yes, no \in Conditionals : Branches(t, t.code[1].arg, yes, no)
  BY ScriptAssumption
<1>3. \A S : t.code \in Seq(S) => Len(t.code) \in Nat
  OBVIOUS
<1> QED
  BY <1>1, <1>2, <1>3 DEF Ops

\* What stands where in two sequences, one after the other.
Consists(t, S, r, m, s, n) ==
    /\ t \in Seq(S) /\ Len(t) = m + n /\ m \in Nat /\ n \in Nat
    /\ \A k \in 1..m : t[k] = r[k]
    /\ \A k \in 1..n : t[m + k] = s[k]

LEMMA Concatenated ==
  ASSUME NEW S, NEW r \in Seq(S), NEW s \in Seq(S), NEW m, m = Len(r), NEW n, n = Len(s)
  PROVE  Consists(r \o s, S, r, m, s, n)
<1> DEFINE t == r \o s
<1>1. m \in Nat /\ n \in Nat
  OBVIOUS
<1>2. /\ t \in Seq(S) /\ Len(t) = m + n
      /\ \A i \in 1..(m + n) : t[i] = IF i <= m THEN r[i] ELSE s[i - m]
  BY ConcatProperties
<1>3. ASSUME NEW k \in 1..m PROVE t[k] = r[k]
  <2>1. k \in 1..(m + n) /\ k <= m
    BY <1>1
  <2> QED
    BY <1>2, <2>1
<1>4. ASSUME NEW k \in 1..n PROVE t[m + k] = s[k]
  <2> DEFINE i == m + k
  <2>1. i \in 1..(m + n) /\ ~ (i <= m) /\ i - m = k
    BY <1>1
  <2> HIDE DEF i
  <2>2. t[i] = s[i - m]
    BY <1>2, <2>1
  <2> QED
    BY <2>1, <2>2 DEF i
<1> QED
  BY <1>1, <1>2, <1>3, <1>4 DEF Consists

\* Five sequences, one after the other.
Five(t, a, b, r, m, x, s, n, y) ==
    /\ Len(t) = 4 + m + n /\ t[1] = a /\ t[2] = b
    /\ \A k \in 1..m : t[2 + k] = r[k]
    /\ t[3 + m] = x
    /\ \A k \in 1..n : t[3 + m + k] = s[k]
    /\ t[4 + m + n] = y

LEMMA Joined ==
  ASSUME NEW S, NEW r \in Seq(S), NEW s \in Seq(S), NEW a, NEW b, NEW x, NEW y
  PROVE  Five(<<a, b>> \o r \o <<x>> \o s \o <<y>>, a, b, r, Len(r), x, s, Len(s), y)
<1> DEFINE U == S \cup {a, b, x, y}
           m == Len(r)
           n == Len(s)
           ab == <<a, b>>
           xx == <<x>>
           yy == <<y>>
           t1 == ab \o r
           t2 == t1 \o xx
           t3 == t2 \o s
           t == t3 \o yy
<1>1. /\ r \in Seq(U) /\ s \in Seq(U) /\ ab \in Seq(U) /\ xx \in Seq(U) /\ yy \in Seq(U)
      /\ m \in Nat /\ n \in Nat
  OBVIOUS
<1>2. Len(ab) = 2 /\ ab[1] = a /\ ab[2] = b /\ Len(xx) = 1 /\ xx[1] = x /\ Len(yy) = 1 /\ yy[1] = y
  OBVIOUS
<1>3. t1 = ab \o r /\ t2 = t1 \o xx /\ t3 = t2 \o s /\ t = t3 \o yy
  OBVIOUS
<1> HIDE DEF U, ab, xx, yy, t1, t2, t3, t, m, n
<1>0. m = Len(r) /\ n = Len(s)
  BY DEF m, n
<1>4. /\ t1 \in Seq(U) /\ Len(t1) = 2 + m
      /\ (\A k \in 1..2 : t1[k] = ab[k]) /\ \A k \in 1..m : t1[2 + k] = r[k]
  <2>1. Consists(ab \o r, U, ab, 2, r, m)
    BY ONLY <1>0, <1>1, <1>2, Concatenated
  <2> QED
    BY <1>3, <2>1 DEF Consists
<1>5. /\ t2 \in Seq(U) /\ Len(t2) = (2 + m) + 1
      /\ (\A k \in 1..(2 + m) : t2[k] = t1[k]) /\ \A k \in 1..1 : t2[(2 + m) + k] = xx[k]
  <2>1. Consists(t1 \o xx, U, t1, 2 + m, xx, 1)
    BY ONLY <1>1, <1>2, <1>4, Concatenated
  <2> QED
    BY <1>3, <2>1 DEF Consists
<1>6. /\ t3 \in Seq(U) /\ Len(t3) = ((2 + m) + 1) + n
      /\ (\A k \in 1..((2 + m) + 1) : t3[k] = t2[k]) /\ \A k \in 1..n : t3[((2 + m) + 1) + k] = s[k]
  <2>1. Consists(t2 \o s, U, t2, (2 + m) + 1, s, n)
    BY ONLY <1>0, <1>1, <1>5, Concatenated
  <2> QED
    BY <1>3, <2>1 DEF Consists
<1>7. /\ Len(t) = (((2 + m) + 1) + n) + 1
      /\ (\A k \in 1..(((2 + m) + 1) + n) : t[k] = t3[k]) /\ \A k \in 1..1 : t[(((2 + m) + 1) + n) + k] = yy[k]
  <2>1. Consists(t3 \o yy, U, t3, ((2 + m) + 1) + n, yy, 1)
    BY ONLY <1>1, <1>2, <1>6, Concatenated
  <2> QED
    BY <1>3, <2>1 DEF Consists
<1>8. /\ 1 \in 1..(2 + m) /\ 2 \in 1..(2 + m) /\ 1 \in 1..2 /\ 2 \in 1..2 /\ 1 \in 1..1
      /\ \A k \in 1..(2 + m) : k \in 1..((2 + m) + 1)
      /\ \A k \in 1..((2 + m) + 1) : k \in 1..(((2 + m) + 1) + n)
      /\ \A k \in 1..m : 2 + k \in 1..(2 + m)
      /\ \A k \in 1..n : ((2 + m) + 1) + k \in 1..(((2 + m) + 1) + n) /\ ((2 + m) + 1) + k = 3 + m + k
      /\ (2 + m) + 1 = 3 + m /\ (((2 + m) + 1) + n) + 1 = 4 + m + n /\ (2 + m) + 1 \in 1..((2 + m) + 1)
  BY <1>1
<1>9. \A k \in 1..(2 + m) : t[k] = t1[k]
  BY <1>5, <1>6, <1>7, <1>8
<1>10. t[1] = a /\ t[2] = b
  <2>1. t[1] = t1[1] /\ t[2] = t1[2]
    BY <1>8, <1>9
  <2>2. t1[1] = ab[1] /\ t1[2] = ab[2]
    BY <1>4, <1>8
  <2> QED
    BY <1>2, <2>1, <2>2
<1>11. \A k \in 1..m : t[2 + k] = r[k]
  BY <1>4, <1>8, <1>9
<1>12. \A k \in 1..n : t[3 + m + k] = s[k]
  <2> TAKE k \in 1..n
  <2> DEFINE i == ((2 + m) + 1) + k
  <2>1. i \in 1..(((2 + m) + 1) + n) /\ i = 3 + m + k /\ t3[i] = s[k]
    BY <1>6, <1>8
  <2> HIDE DEF i
  <2>2. t[i] = t3[i]
    BY <1>7, <2>1
  <2> QED
    BY <2>1, <2>2
<1>13. t[3 + m] = x
  <2> DEFINE i == (2 + m) + 1
  <2>1. i = 3 + m /\ t2[i] = x /\ i \in 1..i
    BY <1>2, <1>5, <1>8
  <2>2. t3[i] = t2[i]
    BY <1>6, <2>1
  <2>3. t[i] = t3[i]
    BY <1>7, <1>8
  <2> QED
    BY <2>1, <2>2, <2>3
<1>14. t[4 + m + n] = y /\ Len(t) = 4 + m + n
  BY <1>2, <1>7, <1>8
<1> QED
  <2>1. Five(t, a, b, r, m, x, s, n, y)
    BY <1>10, <1>11, <1>12, <1>13, <1>14 DEF Five
  <2> QED
    BY <2>1 DEF t, t3, t2, t1, ab, xx, yy, m, n

\* The operations of a conditional.
LEMMA PartsOf ==
  ASSUME NEW t \in Conditionals, NEW c, NEW yes \in Conditionals, NEW no \in Conditionals, Branches(t, c, yes, no)
  PROVE  /\ Five(t.code, PushOp(c), Op("IF"), yes.code, Len(yes.code), Op("ELSE"), no.code, Len(no.code), Op("ENDIF"))
         /\ t.left = (IF Truthy(c) THEN yes.left ELSE IF IsLeaf(yes) THEN no.left ELSE <<>>)
         /\ Truthy(c) \/ IsLeaf(yes) \/ OfTwoLeaves(yes)
<1> DEFINE r == yes.code
           s == no.code
           a == PushOp(c)
           b == Op("IF")
           x == Op("ELSE")
           y == Op("ENDIF")
           u == t.code
<1>1. u = <<a, b>> \o r \o <<x>> \o s \o <<y>> /\ t.left = (IF Truthy(c) THEN yes.left ELSE IF IsLeaf(yes) THEN no.left ELSE <<>>)
  BY DEF Branches, IfElse
<1>2. r \in Seq(Ops) /\ s \in Seq(Ops) /\ u \in Seq(Ops)
  BY ConditionalTypes
<1>3. Truthy(c) \/ IsLeaf(yes) \/ OfTwoLeaves(yes)
  BY DEF Branches
<1> HIDE DEF r, s, a, b, x, y, u
<1>4. Five(u, a, b, r, Len(r), x, s, Len(s), y)
  BY ONLY <1>1, <1>2, Joined
<1> QED
  BY <1>1, <1>3, <1>4 DEF r, s, a, b, x, y, u

\* The depths of a sequence of operations that opens as many conditionals as it ends, none
\* before it is opened.
Even(code) ==
    \E g \in [0..Len(code) -> Nat] :
        /\ g[0] = 0 /\ g[Len(code)] = 0
        /\ \A k \in 1..Len(code) : g[k] = g[k - 1] + Weight(code[k].op, {"ENDIF"})

LEMMA LeafIs ==
  ASSUME NEW t, IsLeaf(t)
  PROVE  Len(t.code) = 1 /\ t.code[1] = PushOp(t.left[1]) /\ t.code[1].op = "PUSH" /\ t.left = <<t.left[1]>>
<1> DEFINE v == t.left[1]
<1>1. t = Leaf(v)
  BY DEF IsLeaf
<1> HIDE DEF v
<1>2. t.code = <<PushOp(v)>> /\ t.left = <<v>>
  BY <1>1 DEF Leaf
<1>3. t.code[1] = PushOp(v) /\ Len(t.code) = 1
  BY <1>2
<1> QED
  BY <1>2, <1>3 DEF PushOp, v

LEMMA OperationsOf ==
  /\ \A c : PushOp(c).op = "PUSH" /\ PushOp(c).arg = c
  /\ \A n : Op(n).op = n
  BY DEF PushOp, Op

\* The operations of a conditional of two pushes.
LEMMA TwoLeavesAre ==
  ASSUME NEW t, OfTwoLeaves(t)
  PROVE  /\ Len(t.code) = 6 /\ t.code[1].op = "PUSH" /\ t.code[2].op = "IF" /\ t.code[3].op = "PUSH"
         /\ t.code[4].op = "ELSE" /\ t.code[5].op = "PUSH" /\ t.code[6].op = "ENDIF"
<1> DEFINE c == t.code[1].arg
           d == t.code[3].arg
           e == t.code[5].arg
<1>1. t = IfElse(c, Leaf(d), Leaf(e))
  BY DEF OfTwoLeaves
<1> HIDE DEF c, d, e
<1>2. t.code = <<PushOp(c), Op("IF")>> \o <<PushOp(d)>> \o <<Op("ELSE")>> \o <<PushOp(e)>> \o <<Op("ENDIF")>>
  BY <1>1 DEF IfElse, Leaf
<1> DEFINE r == <<PushOp(d)>>
           q == <<PushOp(e)>>
           S == {PushOp(d), PushOp(e)}
<1>3. r \in Seq(S) /\ q \in Seq(S) /\ Len(r) = 1 /\ Len(q) = 1 /\ r[1] = PushOp(d) /\ q[1] = PushOp(e)
  OBVIOUS
<1> HIDE DEF r, q, S
<1>4. Five(t.code, PushOp(c), Op("IF"), r, Len(r), Op("ELSE"), q, Len(q), Op("ENDIF"))
  BY <1>2, <1>3, Joined DEF r, q
<1>5. /\ Len(t.code) = 6 /\ t.code[1] = PushOp(c) /\ t.code[2] = Op("IF") /\ t.code[3] = PushOp(d)
      /\ t.code[4] = Op("ELSE") /\ t.code[5] = PushOp(e) /\ t.code[6] = Op("ENDIF")
  <2>1. 4 + 1 + 1 = 6 /\ 2 + 1 = 3 /\ 3 + 1 = 4 /\ 3 + 1 + 1 = 5 /\ 1 \in 1..1
    OBVIOUS
  <2> QED
    BY <1>3, <1>4, <2>1 DEF Five
<1> QED
  BY <1>5, OperationsOf

LEMMA EvenParts ==
  ASSUME NEW t \in Conditionals, NEW c, NEW yes \in Conditionals, NEW no \in Conditionals, Branches(t, c, yes, no),
         Even(yes.code), Even(no.code)
  PROVE  Even(t.code)
<1> DEFINE r == yes.code
           s == no.code
           u == t.code
           m == Len(r)
           n == Len(s)
           e == {"ENDIF"}
<1>1. m \in Nat /\ n \in Nat
  BY ConditionalTypes
<1>2. PICK f \in [0..m -> Nat] :
         f[0] = 0 /\ f[m] = 0 /\ \A k \in 1..m : f[k] = f[k - 1] + Weight(r[k].op, e)
  BY DEF Even
<1>3. PICK g \in [0..n -> Nat] :
         g[0] = 0 /\ g[n] = 0 /\ \A k \in 1..n : g[k] = g[k - 1] + Weight(s[k].op, e)
  BY DEF Even
<1>4. /\ Len(u) = 4 + m + n /\ u[1].op = "PUSH" /\ u[2].op = "IF"
      /\ \A k \in 1..m : u[2 + k] = r[k]
      /\ u[3 + m].op = "ELSE"
      /\ \A k \in 1..n : u[3 + m + k] = s[k]
      /\ u[4 + m + n].op = "ENDIF"
  <2>1. Five(u, PushOp(c), Op("IF"), r, m, Op("ELSE"), s, n, Op("ENDIF"))
    BY ONLY t \in Conditionals, yes \in Conditionals, no \in Conditionals, Branches(t, c, yes, no), PartsOf
  <2> HIDE DEF r, s, u, m, n
  <2> QED
    BY ONLY <2>1, OperationsOf DEF Five
<1> HIDE DEF r, s, u, m, n
<1> DEFINE h == [k \in 0..Len(u) |-> IF k <= 1 THEN 0
                                     ELSE IF k <= 2 + m THEN 1 + f[k - 2]
                                     ELSE IF k <= 3 + m + n THEN 1 + g[k - 3 - m]
                                     ELSE 0]
<1>5. Weight("PUSH", e) = 0 /\ Weight("IF", e) = 1 /\ Weight("ELSE", e) = 0 /\ Weight("ENDIF", e) = -1
  BY DEF Weight
<1>6. h \in [0..Len(u) -> Nat]
  <2> SUFFICES ASSUME NEW k \in 0..Len(u) PROVE h[k] \in Nat
    BY DEF h
  <2>1. CASE k <= 1
    BY <2>1
  <2>2. CASE ~ (k <= 1) /\ k <= 2 + m
    <3>1. k - 2 \in 0..m
      BY <1>1, <1>4, <2>2
    <3>2. f[k - 2] \in Nat
      BY <3>1
    <3> QED
      BY <2>2, <3>2
  <2>3. CASE ~ (k <= 1) /\ ~ (k <= 2 + m) /\ k <= 3 + m + n
    <3>1. k - 3 - m \in 0..n
      BY <1>1, <1>4, <2>3
    <3>2. g[k - 3 - m] \in Nat
      BY <3>1
    <3> QED
      BY <2>3, <3>2
  <2> QED
    BY <2>1, <2>2, <2>3
<1>7. /\ h[0] = 0 /\ h[1] = 0 /\ h[2] = 1 /\ h[2 + m] = 1 /\ h[3 + m] = 1 /\ h[3 + m + n] = 1 /\ h[4 + m + n] = 0
      /\ \A k \in 0..m : h[2 + k] = 1 + f[k]
      /\ \A k \in 0..n : h[3 + m + k] = 1 + g[k]
  <2>1. ASSUME NEW k \in 0..m PROVE h[2 + k] = 1 + f[k]
    <3> DEFINE i == 2 + k
    <3>1. i \in 0..Len(u) /\ ~ (i <= 1) /\ i <= 2 + m /\ i - 2 = k
      BY <1>1, <1>4
    <3> HIDE DEF i
    <3>2. h[i] = 1 + f[i - 2]
      BY <3>1
    <3> QED
      BY <3>1, <3>2 DEF i
  <2>2. ASSUME NEW k \in 0..n PROVE h[3 + m + k] = 1 + g[k]
    <3> DEFINE i == 3 + m + k
    <3>1. i \in 0..Len(u) /\ ~ (i <= 1) /\ ~ (i <= 2 + m) /\ i <= 3 + m + n /\ i - 3 - m = k
      <4>1. k \in Nat /\ k <= n
        BY <1>1
      <4>2. m \in Nat /\ n \in Nat /\ Len(u) = 4 + m + n
        BY <1>1, <1>4
      <4>3. i = 3 + m + k
        OBVIOUS
      <4> HIDE DEF i
      <4> QED
        BY ONLY <4>1, <4>2, <4>3
    <3> HIDE DEF i
    <3>2. h[i] = 1 + g[i - 3 - m]
      BY <3>1
    <3> QED
      BY <3>1, <3>2 DEF i
  <2>3. h[0] = 0 /\ h[1] = 0 /\ h[4 + m + n] = 0
    <3> DEFINE i == 4 + m + n
    <3>1. /\ 0 \in 0..Len(u) /\ 1 \in 0..Len(u) /\ i \in 0..Len(u)
          /\ ~ (i <= 1) /\ ~ (i <= 2 + m) /\ ~ (i <= 3 + m + n)
      BY <1>1, <1>4
    <3> HIDE DEF i
    <3>2. h[0] = 0 /\ h[1] = 0 /\ h[i] = 0
      BY <3>1
    <3> QED
      BY <3>2 DEF i
  <2> HIDE DEF h
  <2>4. 0 \in 0..m /\ m \in 0..m /\ 0 \in 0..n /\ n \in 0..n /\ 2 + 0 = 2 /\ 3 + m + 0 = 3 + m
    BY <1>1
  <2>5. h[2 + 0] = 1 + f[0] /\ h[2 + m] = 1 + f[m] /\ h[3 + m + 0] = 1 + g[0] /\ h[3 + m + n] = 1 + g[n]
    BY <2>1, <2>2, <2>4
  <2> QED
    BY <1>2, <1>3, <2>1, <2>2, <2>3, <2>4, <2>5
<1> HIDE DEF h
<1>8. ASSUME NEW k \in 1..Len(u) PROVE h[k] = h[k - 1] + Weight(u[k].op, e)
  <2>1. k = 1 \/ k = 2 \/ k - 2 \in 1..m \/ k = 3 + m \/ k - 3 - m \in 1..n \/ k = 4 + m + n
    <3>1. m \in Nat /\ n \in Nat /\ Len(u) = 4 + m + n /\ k \in 1..Len(u)
      BY <1>1, <1>4
    <3> QED
      BY ONLY <3>1
  <2>2. CASE k = 1
    BY <1>4, <1>5, <1>7, <2>2
  <2>3. CASE k = 2
    BY <1>4, <1>5, <1>7, <2>3
  <2>4. CASE k - 2 \in 1..m
    <3> DEFINE i == k - 2
    <3>1. i \in 1..m /\ i \in 0..m /\ i - 1 \in 0..m /\ 2 + i = k /\ 2 + (i - 1) = k - 1
      BY <1>1, <2>4
    <3> HIDE DEF i
    <3>2. h[k] = 1 + f[i] /\ h[k - 1] = 1 + f[i - 1] /\ u[k] = r[i] /\ f[i] = f[i - 1] + Weight(r[i].op, e)
      BY <1>2, <1>4, <1>7, <3>1
    <3>3. f[i] \in Nat /\ f[i - 1] \in Nat
      BY <3>1
    <3> QED
      BY <3>2, <3>3, Weights
  <2>5. CASE k = 3 + m
    <3>1. k - 1 = 2 + m
      BY <1>1, <2>5
    <3> QED
      BY <1>4, <1>5, <1>7, <2>5, <3>1
  <2>6. CASE k - 3 - m \in 1..n
    <3> DEFINE i == k - 3 - m
    <3>1. i \in 1..n /\ i \in 0..n /\ i - 1 \in 0..n /\ 3 + m + i = k /\ 3 + m + (i - 1) = k - 1
      BY <1>1, <2>6
    <3> HIDE DEF i
    <3>2. h[k] = 1 + g[i] /\ h[k - 1] = 1 + g[i - 1] /\ u[k] = s[i] /\ g[i] = g[i - 1] + Weight(s[i].op, e)
      BY <1>3, <1>4, <1>7, <3>1
    <3>3. g[i] \in Nat /\ g[i - 1] \in Nat
      BY <3>1
    <3> QED
      BY <3>2, <3>3, Weights
  <2>7. CASE k = 4 + m + n
    <3>1. k - 1 = 3 + m + n
      BY <1>1, <2>7
    <3> QED
      BY <1>4, <1>5, <1>7, <2>7, <3>1
  <2> QED
    BY <2>1, <2>2, <2>3, <2>4, <2>5, <2>6, <2>7
<1>9. Even(u)
  BY <1>4, <1>6, <1>7, <1>8 DEF Even
<1> QED
  BY <1>9 DEF u

LEMMA EvenLeaf == ASSUME NEW t, IsLeaf(t) PROVE Even(t.code)
<1> DEFINE g == [k \in 0..1 |-> 0]
<1>1. Len(t.code) = 1 /\ t.code[1].op = "PUSH"
  BY LeafIs
<1>2. /\ g \in [0..1 -> Nat] /\ g[0] = 0 /\ g[1] = 0
      /\ \A k \in 1..1 : k = 1
      /\ Weight("PUSH", {"ENDIF"}) = 0 /\ 1 - 1 = 0 /\ 0 + 0 = 0
  BY DEF Weight
<1> HIDE DEF g
<1> QED
  BY <1>1, <1>2 DEF Even

\* However deep its conditionals are, a branch ends what it opens.
LEMMA BranchesEven == ASSUME NEW t \in Conditionals PROVE Even(t.code)
<1> DEFINE G == {n \in Nat : \A b \in Conditionals : Len(b.code) <= n => Even(b.code)}
<1>1. 0 \in G
  <2>1. ASSUME NEW b \in Conditionals PROVE ~ (Len(b.code) <= 0)
    <3>1. Len(b.code) \in Nat /\ Len(b.code) > 0
      BY ConditionalTypes
    <3> QED
      BY <3>1
  <2> QED
    BY <2>1
<1>2. ASSUME NEW n \in Nat, n \in G PROVE n + 1 \in G
  <2> SUFFICES ASSUME NEW b \in Conditionals, Len(b.code) <= n + 1 PROVE Even(b.code)
    OBVIOUS
  <2>1. CASE IsLeaf(b)
    BY <2>1, EvenLeaf
  <2>2. CASE \E yes, no \in Conditionals : Branches(b, b.code[1].arg, yes, no)
    <3>1. PICK yes \in Conditionals, no \in Conditionals : Branches(b, b.code[1].arg, yes, no)
      BY <2>2
    <3>2. Len(b.code) = 4 + Len(yes.code) + Len(no.code)
      <4> DEFINE d == b.code[1].arg
      <4>1. Branches(b, d, yes, no)
        BY <3>1
      <4> HIDE DEF d
      <4>2. Five(b.code, PushOp(d), Op("IF"), yes.code, Len(yes.code), Op("ELSE"), no.code, Len(no.code), Op("ENDIF"))
        BY <4>1, PartsOf
      <4> QED
        BY <4>2 DEF Five
    <3>3. Len(yes.code) \in Nat /\ Len(no.code) \in Nat
      BY ConditionalTypes
    <3>4. Len(yes.code) <= n /\ Len(no.code) <= n
      <4> DEFINE k == Len(yes.code)
                 l == Len(no.code)
      <4>1. k \in Nat /\ l \in Nat /\ 4 + k + l <= n + 1
        BY <3>2, <3>3
      <4> HIDE DEF k, l
      <4>2. k <= n /\ l <= n
        BY <4>1
      <4> QED
        BY <4>2 DEF k, l
    <3>5. Even(yes.code) /\ Even(no.code)
      BY <1>2, <3>4
    <3> QED
      BY <3>1, <3>5, EvenParts
  <2> QED
    BY <2>1, <2>2, ConditionalTypes
<1>3. Len(t.code) \in G
  <2> HIDE DEF G
  <2> QED
    BY <1>1, <1>2, ConditionalTypes, NatSetInduction
<1>4. Len(t.code) <= Len(t.code)
  BY ConditionalTypes
<1> QED
  BY <1>3, <1>4

PartsIn(t, c, yes, no, a, m, n) ==
  /\ a \in Nat /\ m \in Nat /\ n \in Nat /\ Len(t.code) = 4 + m + n /\ a + 4 + m + n <= Len(program.code)
  /\ program.code[a + 1] = PushOp(c) /\ program.code[a + 2] = Op("IF")
  /\ In(yes.code, a + 2) /\ program.code[a + 3 + m] = Op("ELSE")
  /\ In(no.code, a + 3 + m) /\ program.code[a + 4 + m + n] = Op("ENDIF")

LEMMA InParts ==
  ASSUME ScriptInv, NEW t \in Conditionals, NEW c, NEW yes \in Conditionals, NEW no \in Conditionals,
         Branches(t, c, yes, no), NEW a, In(t.code, a), NEW m, m = Len(yes.code), NEW n, n = Len(no.code)
  PROVE  PartsIn(t, c, yes, no, a, m, n)
<1> DEFINE u == t.code
           r == yes.code
           s == no.code
           w == program.code
<1>1. Five(u, PushOp(c), Op("IF"), r, m, Op("ELSE"), s, n, Op("ENDIF"))
  BY PartsOf
<1>2. m \in Nat /\ n \in Nat /\ Len(w) \in Nat
  BY ConditionalTypes, CodeFacts
<1>3. a \in Nat /\ a + Len(u) <= Len(w) /\ \A k \in 1..Len(u) : w[a + k] = u[k]
  BY DEF In
<1>4. m = Len(r) /\ n = Len(s)
  OBVIOUS
<1> HIDE DEF u, r, s, w
<1> DEFINE l == Len(w)
<1>5. Len(u) = 4 + m + n /\ a + 4 + m + n <= l /\ a \in Nat /\ m \in Nat /\ n \in Nat /\ l \in Nat
  <2>1. Len(u) = 4 + m + n
    BY <1>1 DEF Five
  <2>2. a + (4 + m + n) <= l /\ a \in Nat /\ m \in Nat /\ n \in Nat /\ l \in Nat
    BY <1>2, <1>3, <2>1
  <2> HIDE DEF l
  <2>3. a + 4 + m + n <= l
    BY ONLY <2>2
  <2> QED
    BY <2>1, <2>2, <2>3
<1> HIDE DEF l
<1>6. /\ 1 \in 1..Len(u) /\ 2 \in 1..Len(u) /\ 3 + m \in 1..Len(u) /\ 4 + m + n \in 1..Len(u)
      /\ a + (3 + m) = a + 3 + m /\ a + (4 + m + n) = a + 4 + m + n
      /\ a + 2 + m <= l /\ a + 3 + m + n <= l /\ a + 2 \in Nat /\ a + 3 + m \in Nat
  BY ONLY <1>5
<1>7. w[a + 1] = PushOp(c) /\ w[a + 2] = Op("IF") /\ w[a + 3 + m] = Op("ELSE") /\ w[a + 4 + m + n] = Op("ENDIF")
  <2>1. w[a + 1] = u[1] /\ w[a + 2] = u[2] /\ w[a + (3 + m)] = u[3 + m] /\ w[a + (4 + m + n)] = u[4 + m + n]
    BY <1>3, <1>6
  <2> QED
    BY <1>1, <1>6, <2>1 DEF Five
<1>8. \A k \in 1..m : w[a + 2 + k] = r[k]
  <2> TAKE k \in 1..m
  <2>1. 2 + k \in 1..Len(u) /\ a + (2 + k) = a + 2 + k
    BY ONLY <1>5, k \in 1..m
  <2>2. w[a + (2 + k)] = u[2 + k] /\ u[2 + k] = r[k]
    BY <1>1, <1>3, <2>1 DEF Five
  <2> QED
    BY <2>1, <2>2
<1>9. \A k \in 1..n : w[a + 3 + m + k] = s[k]
  <2> TAKE k \in 1..n
  <2> DEFINE i == 3 + m + k
  <2>1. i \in 1..Len(u) /\ a + i = a + 3 + m + k
    <3>1. k \in Nat /\ k <= n /\ k >= 1
      BY <1>5
    <3> QED
      BY ONLY <1>5, <3>1
  <2>2. u[i] = s[k]
    BY <1>1 DEF Five
  <2> HIDE DEF i
  <2>3. w[a + i] = u[i]
    BY <1>3, <2>1
  <2> QED
    BY <2>1, <2>2, <2>3
<1>10. In(r, a + 2) /\ In(s, a + 3 + m)
  BY <1>4, <1>6, <1>8, <1>9 DEF In, w, l
<1> QED
  BY <1>2, <1>3, <1>5, <1>7, <1>10 DEF PartsIn, u, r, s, w, l

LEMMA MinIs == ASSUME NEW S, S \subseteq Int, NEW x \in S, \A y \in S : x <= y PROVE Min(S) = x
<1>1. \A z \in S : (\A y \in S : z <= y) => z = x
  OBVIOUS
<1> QED
  BY <1>1 DEF Min

\* The skipping from OP_ELSE over a branch ends behind the OP_ENDIF of its conditional.
LEMMA ElseSkips ==
  ASSUME ScriptInv, NEW code, Even(code), NEW n \in Nat, n = Len(code), NEW a, In(code, a),
         a + n + 1 <= Len(program.code), program.code[a + n + 1].op = "ENDIF"
  PROVE  ScanEnd(a + 1, {"ENDIF"}) = a + n + 2
<1> DEFINE e == {"ENDIF"}
           w == program.code
           i == a + 1
           x == a + n + 2
<1>1. PICK g \in [0..n -> Nat] :
         g[0] = 0 /\ g[n] = 0 /\ \A k \in 1..n : g[k] = g[k - 1] + Weight(code[k].op, e)
  BY DEF Even
<1>2. a \in Nat /\ Len(w) \in Nat /\ i \in Nat /\ i <= End /\ End \in Nat /\ x \in i..End /\ End = Len(w) + 1
      /\ \A k \in 1..n : w[a + k] = code[k]
  BY CodeFacts DEF In, End
<1>3. PICK f \in [0..End -> Int] :
         /\ f[i] = 1
         /\ \A j \in (i + 1)..End : f[j] = f[j - 1] + Weight(w[j - 1].op, e)
         /\ ScanEnd(i, e) = Min({j \in i..End : f[j] = 0} \cup {End})
  <2>1. \E f \in [0..End -> Int] : Depths(f, i, e)
    <3> HIDE DEF e, i, x
    <3> QED
      BY <1>2, ScanDepth
  <2> QED
    BY <2>1 DEF Depths
<1>4. Weight("ENDIF", e) = -1 /\ w[a + n + 1].op = "ENDIF"
  BY DEF Weight
<1> HIDE DEF w, e
<1> DEFINE G == {k \in Nat : k <= n => f[a + 1 + k] = 1 + g[k]}
<1>5. 0 \in G
  <2>1. a + 1 + 0 = i
    BY <1>2
  <2> QED
    BY <1>1, <1>3, <2>1
<1>6. ASSUME NEW k \in Nat, k \in G PROVE k + 1 \in G
  <2> SUFFICES ASSUME k + 1 <= n PROVE f[a + 1 + (k + 1)] = 1 + g[k + 1]
    OBVIOUS
  <2> DEFINE j == a + 1 + (k + 1)
             l == k + 1
  <2>1. /\ j \in (i + 1)..End /\ j - 1 = a + l /\ j - 1 = a + 1 + k /\ l \in 1..n /\ l - 1 = k /\ k <= n
        /\ k \in 0..n /\ l \in 0..n
    BY <1>2
  <2>2. f[a + 1 + k] = 1 + g[k]
    BY <1>6, <2>1
  <2> HIDE DEF i, j, l
  <2>3. f[j] = f[j - 1] + Weight(w[j - 1].op, e) /\ w[a + l] = code[l] /\ g[l] = g[l - 1] + Weight(code[l].op, e)
    BY <1>1, <1>2, <1>3, <2>1
  <2>4. f[j] = (1 + g[k]) + Weight(code[l].op, e) /\ g[l] = g[k] + Weight(code[l].op, e)
    BY <2>1, <2>2, <2>3
  <2>5. g[k] \in Nat /\ Weight(code[l].op, e) \in Int
    BY <2>1, Weights
  <2>6. f[j] = 1 + g[l]
    BY <2>4, <2>5
  <2> QED
    BY <2>6 DEF j, l
<1>7. \A k \in 0..n : f[a + 1 + k] = 1 + g[k]
  <2> HIDE DEF G
  <2>1. Nat \subseteq G
    BY <1>5, <1>6, NatSetInduction
  <2> QED
    BY <2>1 DEF G
<1>8. f[x] = 0
  <2>1. x \in (i + 1)..End /\ x - 1 = a + 1 + n /\ x - 1 = a + n + 1 /\ n \in 0..n
    BY <1>2
  <2>2. f[a + 1 + n] = 1 + 0
    BY <1>1, <1>7, <2>1
  <2> HIDE DEF x, i
  <2>3. f[x] = f[x - 1] + Weight(w[x - 1].op, e)
    BY <1>3, <2>1
  <2>4. f[x] = (1 + 0) + (-1)
    BY <1>4, <2>1, <2>2, <2>3
  <2> QED
    BY <2>4
<1> DEFINE S == {j \in i..End : f[j] = 0} \cup {End}
<1>9. ASSUME NEW y \in S PROVE x <= y
  <2>1. CASE y = End
    BY <1>2, <2>1
  <2>2. CASE y \in i..End /\ f[y] = 0
    <3> SUFFICES ASSUME ~ (x <= y) PROVE FALSE
      OBVIOUS
    <3> DEFINE k == y - a - 1
    <3>1. k \in 0..n /\ a + 1 + k = y
      BY <1>2, <2>2
    <3> HIDE DEF k
    <3>2. f[y] = 1 + g[k] /\ g[k] \in Nat
      BY <1>7, <3>1
    <3> QED
      BY <2>2, <3>2
  <2> QED
    BY <2>1, <2>2
<1>10. x \in S /\ S \subseteq Int
  BY <1>2, <1>8
<1>11. Min(S) = x
  <2> HIDE DEF S, x
  <2> QED
    BY <1>9, <1>10, MinIs
<1> QED
  BY <1>3, <1>11 DEF e

\* The skipping from OP_IF over a single push ends behind OP_ELSE.
LEMMA IfSkips ==
  ASSUME ScriptInv, NEW a \in Nat, a + 2 <= Len(program.code),
         program.code[a + 1].op = "PUSH", program.code[a + 2].op = "ELSE"
  PROVE  ScanEnd(a + 1, {"ELSE", "ENDIF"}) = a + 3
<1> DEFINE e == {"ELSE", "ENDIF"}
           w == program.code
           i == a + 1
           x == a + 3
<1>1. /\ Len(w) \in Nat /\ i \in Nat /\ i <= End /\ End \in Nat /\ x \in i..End /\ End = Len(w) + 1
      /\ a + 2 \in (i + 1)..End /\ x \in (i + 1)..End /\ (a + 2) - 1 = i /\ x - 1 = a + 2
      /\ \A y \in i..End : x <= y \/ y = i \/ y = a + 2
  BY CodeFacts DEF End
<1>2. PICK f \in [0..End -> Int] :
         /\ f[i] = 1
         /\ \A j \in (i + 1)..End : f[j] = f[j - 1] + Weight(w[j - 1].op, e)
         /\ ScanEnd(i, e) = Min({j \in i..End : f[j] = 0} \cup {End})
  <2>1. \E f \in [0..End -> Int] : Depths(f, i, e)
    <3> HIDE DEF e, i, x
    <3> QED
      BY <1>1, ScanDepth
  <2> QED
    BY <2>1 DEF Depths
<1>3. Weight("PUSH", e) = 0 /\ Weight("ELSE", e) = -1 /\ w[i].op = "PUSH" /\ w[a + 2].op = "ELSE"
  BY DEF Weight
<1> DEFINE S == {j \in i..End : f[j] = 0} \cup {End}
<1> HIDE DEF e, w, i, x
<1>4. f[a + 2] = f[i] + 0 /\ f[x] = f[a + 2] + (-1)
  BY <1>1, <1>2, <1>3
<1>5. f[i] = 1 /\ f[a + 2] = 1 /\ f[x] = 0
  BY <1>2, <1>4
<1>6. ASSUME NEW y \in S PROVE x <= y
  <2>1. CASE y = End
    BY <1>1, <2>1
  <2>2. CASE y \in i..End /\ f[y] = 0
    BY <1>1, <1>5, <2>2
  <2> QED
    BY <2>1, <2>2
<1>7. x \in S /\ S \subseteq Int
  BY <1>1, <1>5
<1>8. Min(S) = x
  <2> HIDE DEF S
  <2> QED
    BY <1>6, <1>7, MinIs
<1> QED
  BY <1>2, <1>8 DEF e, x, i

\* The skipping from OP_IF over a conditional of two pushes ends behind its OP_ENDIF.
LEMMA IfSkipsBoth ==
  ASSUME ScriptInv, NEW a \in Nat, a + 6 <= Len(program.code),
         program.code[a + 1].op = "PUSH", program.code[a + 2].op = "IF", program.code[a + 3].op = "PUSH",
         program.code[a + 4].op = "ELSE", program.code[a + 5].op = "PUSH", program.code[a + 6].op = "ENDIF"
  PROVE  ScanEnd(a + 1, {"ELSE", "ENDIF"}) = a + 7
<1> DEFINE e == {"ELSE", "ENDIF"}
           w == program.code
           i == a + 1
           x == a + 7
<1>1. /\ Len(w) \in Nat /\ i \in Nat /\ i <= End /\ End \in Nat /\ x \in i..End /\ End = Len(w) + 1
      /\ a + 2 \in (i + 1)..End /\ (a + 2) - 1 = i
      /\ a + 3 \in (i + 1)..End /\ (a + 3) - 1 = a + 2
      /\ a + 4 \in (i + 1)..End /\ (a + 4) - 1 = a + 3
      /\ a + 5 \in (i + 1)..End /\ (a + 5) - 1 = a + 4
      /\ a + 6 \in (i + 1)..End /\ (a + 6) - 1 = a + 5
      /\ x \in (i + 1)..End /\ x - 1 = a + 6
      /\ \A y \in i..End :
            x <= y \/ y = i \/ y = a + 2 \/ y = a + 3 \/ y = a + 4 \/ y = a + 5 \/ y = a + 6
  BY CodeFacts DEF End
<1>2. PICK f \in [0..End -> Int] :
         /\ f[i] = 1
         /\ \A j \in (i + 1)..End : f[j] = f[j - 1] + Weight(w[j - 1].op, e)
         /\ ScanEnd(i, e) = Min({j \in i..End : f[j] = 0} \cup {End})
  <2>1. \E f \in [0..End -> Int] : Depths(f, i, e)
    <3> HIDE DEF e, i, x
    <3> QED
      BY <1>1, ScanDepth
  <2> QED
    BY <2>1 DEF Depths
<1>3. /\ Weight("PUSH", e) = 0 /\ Weight("IF", e) = 1 /\ Weight("ELSE", e) = -1 /\ Weight("ENDIF", e) = -1
      /\ w[i].op = "PUSH" /\ w[a + 2].op = "IF" /\ w[a + 3].op = "PUSH" /\ w[a + 4].op = "ELSE"
      /\ w[a + 5].op = "PUSH" /\ w[a + 6].op = "ENDIF"
  BY DEF Weight
<1> DEFINE S == {j \in i..End : f[j] = 0} \cup {End}
<1> HIDE DEF e, w, i, x
<1>4. /\ f[a + 2] = f[i] + 0 /\ f[a + 3] = f[a + 2] + 1 /\ f[a + 4] = f[a + 3] + 0
      /\ f[a + 5] = f[a + 4] + (-1) /\ f[a + 6] = f[a + 5] + 0 /\ f[x] = f[a + 6] + (-1)
  <2>1. f[a + 2] = f[i] + 0
    <3>1. f[a + 2] = f[(a + 2) - 1] + Weight(w[(a + 2) - 1].op, e)
      BY <1>1, <1>2
    <3> QED
      BY <1>1, <1>3, <3>1
  <2>2. f[a + 3] = f[a + 2] + 1
    <3>1. f[a + 3] = f[(a + 3) - 1] + Weight(w[(a + 3) - 1].op, e)
      BY <1>1, <1>2
    <3> QED
      BY <1>1, <1>3, <3>1
  <2>3. f[a + 4] = f[a + 3] + 0
    <3>1. f[a + 4] = f[(a + 4) - 1] + Weight(w[(a + 4) - 1].op, e)
      BY <1>1, <1>2
    <3> QED
      BY <1>1, <1>3, <3>1
  <2>4. f[a + 5] = f[a + 4] + (-1)
    <3>1. f[a + 5] = f[(a + 5) - 1] + Weight(w[(a + 5) - 1].op, e)
      BY <1>1, <1>2
    <3> QED
      BY <1>1, <1>3, <3>1
  <2>5. f[a + 6] = f[a + 5] + 0
    <3>1. f[a + 6] = f[(a + 6) - 1] + Weight(w[(a + 6) - 1].op, e)
      BY <1>1, <1>2
    <3> QED
      BY <1>1, <1>3, <3>1
  <2>6. f[x] = f[a + 6] + (-1)
    <3>1. f[x] = f[x - 1] + Weight(w[x - 1].op, e)
      BY <1>1, <1>2
    <3> QED
      BY <1>1, <1>3, <3>1
  <2> QED
    BY <2>1, <2>2, <2>3, <2>4, <2>5, <2>6
<1>5. f[i] = 1 /\ f[a + 2] = 1 /\ f[a + 3] = 2 /\ f[a + 4] = 2 /\ f[a + 5] = 1 /\ f[a + 6] = 1 /\ f[x] = 0
  BY <1>2, <1>4
<1>6. ASSUME NEW y \in S PROVE x <= y
  <2>1. CASE y = End
    BY <1>1, <2>1
  <2>2. CASE y \in i..End /\ f[y] = 0
    BY <1>1, <1>5, <2>2
  <2> QED
    BY <2>1, <2>2
<1>7. x \in S /\ S \subseteq Int
  BY <1>1, <1>5
<1>8. Min(S) = x
  <2> HIDE DEF S
  <2> QED
    BY <1>6, <1>7, MinIs
<1> QED
  BY <1>2, <1>8 DEF e, x, i

\* The positions K lead out of conditionals, one after the other, to the end of the program.
Way(K) ==
    /\ K \subseteq 1..End
    /\ \A k \in K : \/ k = End
                    \/ k < End /\ program.code[k].op = "ENDIF" /\ k + 1 \in K
                    \/ k < End /\ program.code[k].op = "ELSE" /\ ScanEnd(k + 1, {"ENDIF"}) \in K

\* Where the run of a conditional may be: before a branch that leaves the right values and
\* is followed by a way out, between its condition and its OP_IF, or on the way out.
BeforeBranch(i, st, t, K) ==
    /\ Way(K) /\ In(t.code, i - 1) /\ t.left = program.left /\ i + Len(t.code) \in K
    /\ st = <<>>
BeforeIf(i, st, t, c, yes, no, K) ==
    /\ Way(K) /\ Branches(t, c, yes, no) /\ In(t.code, i - 2) /\ t.left = program.left
    /\ i - 1 + Len(t.code) \in K /\ st = <<c>>
OnWay(i, st, K) == Way(K) /\ i \in K /\ st = program.left

BranchPlace(i, st) ==
    \/ \E t \in Conditionals, K \in SUBSET (1..End) : BeforeBranch(i, st, t, K)
    \/ \E t, yes, no \in Conditionals, c \in ScriptValues, K \in SUBSET (1..End) : BeforeIf(i, st, t, c, yes, no, K)
    \/ \E K \in SUBSET (1..End) : OnWay(i, st, K)

BranchInv ==
    /\ verdict = "running" => BranchPlace(pc, stack)
    /\ verdict # "running" => stack = program.left

LEMMA BranchArrives ==
  ASSUME program' = program
  PROVE  /\ verdict' = "running" /\ BranchPlace(pc', stack') => BranchInv'
         /\ verdict' # "running" /\ stack' = program.left => BranchInv'
<1>1. End' = End
  BY DEF End
<1>2. ASSUME NEW i, NEW c PROVE ScanEnd(i, c)' = ScanEnd(i, c)
  BY DEF ScanEnd
<1>3. ASSUME NEW K, Way(K) PROVE Way(K)'
  <2>1. K \subseteq 1..End'
    BY <1>1, <1>3 DEF Way
  <2>2. ASSUME NEW k \in K
        PROVE  \/ k = End'
               \/ k < End' /\ program'.code[k].op = "ENDIF" /\ k + 1 \in K
               \/ k < End' /\ program'.code[k].op = "ELSE" /\ ScanEnd(k + 1, {"ENDIF"})' \in K
    <3>1. ScanEnd(k + 1, {"ENDIF"})' = ScanEnd(k + 1, {"ENDIF"})
      BY <1>2
    <3> QED
      BY <1>1, <1>3, <3>1 DEF Way
  <2> QED
    BY <2>1, <2>2 DEF Way
<1>4. \A code, a : In(code, a)' <=> In(code, a)
  BY DEF In
<1>5. \A i, st, t, K : BeforeBranch(i, st, t, K) => BeforeBranch(i, st, t, K)'
  BY <1>3, <1>4 DEF BeforeBranch
<1>6. \A i, st, t, c, yes, no, K : BeforeIf(i, st, t, c, yes, no, K) => BeforeIf(i, st, t, c, yes, no, K)'
  BY <1>3, <1>4 DEF BeforeIf
<1>7. \A i, st, K : OnWay(i, st, K) => OnWay(i, st, K)'
  BY <1>3 DEF OnWay
<1>8. ASSUME verdict' = "running", BranchPlace(pc', stack') PROVE BranchInv'
  <2>1. BranchPlace(pc, stack)'
    BY <1>1, <1>5, <1>6, <1>7, <1>8 DEF BranchPlace
  <2> QED
    BY <1>8, <2>1 DEF BranchInv
<1>9. ASSUME verdict' # "running", stack' = program.left PROVE BranchInv'
  BY <1>9 DEF BranchInv
<1> QED
  BY <1>8, <1>9

LEMMA IfCode ==
  ASSUME ScriptInv, program.template = "if"
  PROVE  /\ Len(program.code) <= MaxOps + 1 /\ MaxStack >= 1
         /\ \E t \in Conditionals : program.code = t.code /\ program.left = t.left
<1>1. program \in Programs
  BY DEF ScriptInv
<1> QED
  BY <1>1, ScriptAssumption

LEMMA Conducts ==
  ASSUME Turn, ScriptStep
  PROVE  /\ Current.op = "PUSH" => Go(Append(stack, Current.arg))
         /\ Current.op = "ENDIF" => Go(stack)
         /\ Current.op = "IF" /\ stack # <<>> /\ Truthy(Top(0)) => Go(Below(1))
         /\ Current.op = "IF" /\ stack # <<>> /\ ~ Truthy(Top(0)) => JumpTo(SkipFromIf, Below(1))
         /\ Current.op = "ELSE" => JumpTo(SkipFromElse, stack)
<1>1. ops \in Nat /\ MaxOps \in Nat /\ ops <= MaxOps
  BY CodeFacts DEF Turn, ScriptInv
<1>2. Simple \/ CheckSig \/ CheckMultisig \/ ClaimTimeVerify \/ Conditional
  BY <1>1 DEF ScriptStep
<1> QED
  BY <1>2 DEF Simple, CheckSig, CheckMultisig, ClaimTimeVerify, Conditional

\* A conditional fits the engine: there is always a turn.
LEMMA IfTurn ==
  ASSUME ScriptInv, program.template = "if", ScriptNext, pc < End
  PROVE  Turn /\ ScriptStep /\ verdict = "running"
<1>1. verdict = "running"
  BY DEF ScriptNext, ScriptStep, ScriptEnd
<1>2. /\ Len(program.code) \in Nat /\ Len(program.code) <= MaxOps + 1 /\ MaxOps \in Nat
      /\ ops \in Nat /\ ops <= pc - 1 /\ pc \in Nat /\ pc < Len(program.code) + 1
  BY <1>1, IfCode, CodeFacts DEF ScriptInv, End
<1> DEFINE l == Len(program.code)
<1>3. pc <= l /\ ~ (pc > l) /\ ops <= MaxOps
  <2>1. l \in Nat /\ l <= MaxOps + 1 /\ pc < l + 1
    BY <1>2
  <2> HIDE DEF l
  <2> QED
    BY <1>2, <2>1
<1> QED
  BY <1>1, <1>3 DEF Turn, ScriptNext, ScriptEnd

\* The way out of a conditional leads on from the end of its branches.
LEMMA WayGrows ==
  ASSUME ScriptInv, NEW K, Way(K), NEW k \in 1..End, k < End,
         \/ program.code[k].op = "ENDIF" /\ k + 1 \in K
         \/ program.code[k].op = "ELSE" /\ ScanEnd(k + 1, {"ENDIF"}) \in K
  PROVE  Way(K \cup {k}) /\ K \cup {k} \in SUBSET (1..End)
<1>1. K \subseteq 1..End
  BY DEF Way
<1>2. ASSUME NEW j \in K
      PROVE  \/ j = End
             \/ j < End /\ program.code[j].op = "ENDIF" /\ j + 1 \in K
             \/ j < End /\ program.code[j].op = "ELSE" /\ ScanEnd(j + 1, {"ENDIF"}) \in K
  BY DEF Way
<1> QED
  BY <1>1, <1>2 DEF Way

LEMMA SameProgram == ASSUME ScriptNext PROVE program' = program
  BY DEF ScriptNext, ScriptStep, ScriptEnd, Simple, CheckSig, CheckMultisig, ClaimTimeVerify, Conditional,
         Calculate, Take, Verify, Go, Refuse, JumpTo

LEMMA FromBranch ==
  ASSUME ScriptInv, program.template = "if", ScriptNext,
         NEW t \in Conditionals, NEW K \in SUBSET (1..End), BeforeBranch(pc, stack, t, K)
  PROVE  verdict' = "running" /\ BranchPlace(pc', stack')
<1>1. /\ Way(K) /\ In(t.code, pc - 1) /\ t.left = program.left /\ pc + Len(t.code) \in K /\ stack = <<>>
  BY DEF BeforeBranch
<1>2. pc \in Nat /\ Len(program.code) \in Nat /\ MaxStack \in Nat /\ MaxStack >= 1 /\ End = Len(program.code) + 1
  BY IfCode, CodeFacts DEF ScriptInv, End
<1>3. t.code \in Seq(Ops) /\ Len(t.code) \in Nat /\ Len(t.code) > 0
  BY ConditionalTypes
<1>4. pc - 1 + Len(t.code) <= Len(program.code) /\ \A k \in 1..Len(t.code) : program.code[pc - 1 + k] = t.code[k]
  BY <1>1 DEF In
<1>5. pc < End /\ 1 \in 1..Len(t.code) /\ pc - 1 + 1 = pc
  <2> DEFINE l == Len(program.code)
             n == Len(t.code)
  <2>1. l \in Nat /\ n \in Nat /\ n > 0 /\ pc - 1 + n <= l /\ End = l + 1
    BY <1>2, <1>3, <1>4
  <2> HIDE DEF l, n
  <2>2. pc < l + 1 /\ 1 \in 1..n /\ pc - 1 + 1 = pc
    BY <1>2, <2>1
  <2> QED
    BY <2>1, <2>2 DEF n
<1>6. Turn /\ ScriptStep
  BY <1>5, IfTurn
<1>7. Current = t.code[1]
  <2>1. program.code[pc - 1 + 1] = t.code[1]
    BY <1>4, <1>5
  <2> QED
    BY <1>5, <2>1 DEF Current
<1>8. ASSUME NEW v, Current = PushOp(v) PROVE Moves(<<v>>)
  <2>1. Append(stack, v) = <<v>> /\ Len(<<v>>) = 1
    BY <1>1, Stacked
  <2>2. Go(<<v>>)
    BY <1>6, <1>8, <2>1, Conducts, OperationsOf
  <2> HIDE DEF Moves
  <2>3. Len(<<v>>) \in Nat /\ Len(<<v>>) <= MaxStack
    BY <1>2, <2>1
  <2> QED
    BY <1>6, <2>2, <2>3, Put1
<1>9. CASE IsLeaf(t)
  <2>1. Current = PushOp(t.left[1]) /\ Len(t.code) = 1 /\ program.left = <<t.left[1]>>
    BY <1>1, <1>7, <1>9, LeafIs
  <2>2. Moves(program.left)
    BY <1>8, <2>1
  <2>3. OnWay(pc + 1, program.left, K)
    BY <1>1, <2>1 DEF OnWay
  <2> QED
    BY <2>2, <2>3 DEF Moves, BranchPlace
<1>10. CASE \E yes, no \in Conditionals : Branches(t, t.code[1].arg, yes, no)
  <2> DEFINE c == t.code[1].arg
  <2>1. PICK yes \in Conditionals, no \in Conditionals : Branches(t, c, yes, no)
    BY <1>10
  <2>2. c \in ScriptValues
    <3>1. t.code[1] \in Ops
      BY <1>3, <1>5
    <3> QED
      BY <3>1 DEF Ops
  <2>3. t.code[1] = PushOp(c)
    <3>1. Five(t.code, PushOp(c), Op("IF"), yes.code, Len(yes.code), Op("ELSE"), no.code, Len(no.code), Op("ENDIF"))
      <4> HIDE DEF c
      <4> QED
        BY <2>1, PartsOf
    <3> QED
      BY <3>1 DEF Five
  <2> HIDE DEF c
  <2>4. Moves(<<c>>)
    BY <1>7, <1>8, <2>3
  <2>5. BeforeIf(pc + 1, <<c>>, t, c, yes, no, K)
    <3>1. (pc + 1) - 2 = pc - 1 /\ (pc + 1) - 1 = pc
      BY <1>2
    <3> QED
      BY <1>1, <2>1, <3>1 DEF BeforeIf
  <2> QED
    BY <2>2, <2>4, <2>5 DEF Moves, BranchPlace
<1> QED
  BY <1>9, <1>10, ConditionalTypes

LEMMA FromIf ==
  ASSUME ScriptInv, program.template = "if", ScriptNext,
         NEW t \in Conditionals, NEW yes \in Conditionals, NEW no \in Conditionals, NEW c \in ScriptValues,
         NEW K \in SUBSET (1..End), BeforeIf(pc, stack, t, c, yes, no, K)
  PROVE  verdict' = "running" /\ BranchPlace(pc', stack')
<1> DEFINE a == pc - 2
           m == Len(yes.code)
           n == Len(no.code)
           l == Len(program.code)
           w == program.code
<1>1. /\ Way(K) /\ Branches(t, c, yes, no) /\ In(t.code, a) /\ t.left = program.left
      /\ pc - 1 + Len(t.code) \in K /\ stack = <<c>>
  BY DEF BeforeIf
<1>2. /\ a \in Nat /\ m \in Nat /\ n \in Nat /\ Len(t.code) = 4 + m + n /\ a + 4 + m + n <= l
      /\ w[a + 1] = PushOp(c) /\ w[a + 2] = Op("IF")
      /\ In(yes.code, a + 2) /\ w[a + 3 + m] = Op("ELSE")
      /\ In(no.code, a + 3 + m) /\ w[a + 4 + m + n] = Op("ENDIF")
  <2>1. In(t.code, a) /\ Branches(t, c, yes, no)
    BY <1>1
  <2>2. m = Len(yes.code) /\ n = Len(no.code)
    OBVIOUS
  <2>3. c \in ScriptValues
    OBVIOUS
  <2> HIDE DEF a, m, n, w, l
  <2>4. PartsIn(t, c, yes, no, a, m, n)
    BY <2>1, <2>2, InParts
  <2> QED
    BY <2>4 DEF PartsIn, w, l
<1>3. pc \in Nat /\ l \in Nat /\ MaxStack \in Nat /\ End = l + 1
  BY CodeFacts DEF ScriptInv, End
<1>4. /\ t.left = (IF Truthy(c) THEN yes.left ELSE IF IsLeaf(yes) THEN no.left ELSE <<>>)
      /\ Truthy(c) \/ IsLeaf(yes) \/ OfTwoLeaves(yes)
  BY <1>1, PartsOf
<1>5. Even(no.code)
  BY BranchesEven
<1>6. Top(0) = c /\ Below(1) = <<>> /\ stack # <<>> /\ Len(<<>>) = 0
  <2>1. Len(stack) = 1 /\ stack[1] = c
    BY <1>1
  <2>2. SubSeq(<<c>>, 1, 0) = <<>>
    OBVIOUS
  <2> QED
    BY <1>1, <2>1, <2>2 DEF Top, Below
<1> HIDE DEF l, w, m, n
<1>7. /\ pc < End /\ a + 2 = pc
      /\ (a + 3 + m) + n + 1 = a + 4 + m + n /\ (a + 3 + m) + n + 2 = pc - 1 + Len(t.code)
      /\ (a + 3 + m) + n + 1 <= l
  BY <1>2, <1>3
<1>8. Turn /\ ScriptStep /\ verdict = "running"
  BY <1>7, IfTurn
<1>9. Current.op = "IF"
  BY <1>2, <1>7, OperationsOf DEF Current, w
<1>10. CASE Truthy(c)
  <2> DEFINE k == pc + 1 + m
             L == K \cup {k}
  <2>1. Moves(<<>>)
    <3>1. Go(<<>>)
      BY <1>6, <1>8, <1>9, <1>10, Conducts
    <3> QED
      BY <1>3, <1>6, <1>8, <3>1, Put1
  <2>2. k = a + 3 + m /\ k \in 1..End /\ k < End
    BY <1>2, <1>3, <1>7
  <2>3. ScanEnd(k + 1, {"ENDIF"}) \in K
    <3>1. w[(a + 3 + m) + n + 1].op = "ENDIF"
      BY <1>2, <1>7, OperationsOf
    <3> DEFINE b == a + 3 + m
    <3>2. In(no.code, b) /\ w[b + n + 1].op = "ENDIF" /\ b + n + 1 <= l /\ k = b /\ b + n + 2 \in K
      BY <1>1, <1>2, <1>7, <2>2, <3>1
    <3> HIDE DEF b
    <3>3. ScanEnd(b + 1, {"ENDIF"}) = b + n + 2
      BY <1>2, <1>5, <3>2, ElseSkips DEF w, l, n
    <3> QED
      BY <3>2, <3>3
  <2>4. Way(L) /\ L \in SUBSET (1..End)
    <3>1. program.code[k].op = "ELSE"
      BY <1>2, <2>2, OperationsOf DEF w
    <3> HIDE DEF k
    <3> QED
      BY <1>1, <2>2, <2>3, <3>1, WayGrows
  <2>5. BeforeBranch(pc + 1, <<>>, yes, L)
    <3>1. (pc + 1) - 1 = a + 2
      BY <1>3, <1>7
    <3>2. In(yes.code, (pc + 1) - 1) /\ yes.left = program.left /\ (pc + 1) + Len(yes.code) \in L
      BY <1>1, <1>2, <1>4, <1>10, <3>1 DEF m
    <3> HIDE DEF L
    <3> QED
      BY <2>4, <3>2 DEF BeforeBranch
  <2> HIDE DEF L
  <2> QED
    BY <2>1, <2>4, <2>5 DEF Moves, BranchPlace
<1>11. CASE ~ Truthy(c) /\ IsLeaf(yes)
  <2> DEFINE k == pc + 3 + n
             L == K \cup {k}
  <2>1. m = 1 /\ w[a + 3].op = "PUSH"
    <3>1. IsLeaf(yes)
      BY <1>11
    <3>2. Len(yes.code) = 1 /\ yes.code[1].op = "PUSH"
      BY <3>1, LeafIs
    <3>3. w[a + 2 + 1] = yes.code[1]
      BY <1>2, <3>2 DEF In, w
    <3>4. a + 2 + 1 = a + 3
      BY <1>2
    <3> QED
      BY <3>2, <3>3, <3>4 DEF m
  <2>2. /\ a + 3 = pc + 1 /\ a + 3 + m = pc + 2 /\ pc + 2 <= l
        /\ k = a + 4 + m + n /\ k + 1 = pc - 1 + Len(t.code) /\ k \in 1..End /\ k < End
    BY <1>2, <1>3, <1>7, <2>1
  <2>3. SkipFromIf = pc + 3
    <3>1. program.code[pc + 1].op = "PUSH" /\ program.code[pc + 2].op = "ELSE" /\ pc + 2 <= Len(program.code)
      BY <1>2, <2>1, <2>2, OperationsOf DEF w, l
    <3> QED
      BY <1>3, <3>1, IfSkips DEF SkipFromIf
  <2>4. JumpTo(pc + 3, <<>>)
    BY <1>6, <1>8, <1>9, <1>11, <2>3, Conducts
  <2>5. Way(L) /\ L \in SUBSET (1..End)
    <3>1. program.code[k].op = "ENDIF" /\ k + 1 \in K
      BY <1>1, <1>2, <2>2, OperationsOf DEF w
    <3> HIDE DEF k
    <3> QED
      BY <1>1, <2>2, <3>1, WayGrows
  <2>6. BeforeBranch(pc + 3, <<>>, no, L)
    <3>1. (pc + 3) - 1 = a + 3 + m
      BY <1>3, <2>2
    <3>2. In(no.code, (pc + 3) - 1) /\ no.left = program.left /\ (pc + 3) + Len(no.code) \in L
      BY <1>1, <1>2, <1>4, <1>11, <3>1 DEF n
    <3> HIDE DEF L
    <3> QED
      BY <2>5, <3>2 DEF BeforeBranch
  <2> HIDE DEF L
  <2> QED
    BY <1>8, <2>4, <2>5, <2>6 DEF JumpTo, BranchPlace
<1>12. CASE ~ Truthy(c) /\ ~ IsLeaf(yes) /\ OfTwoLeaves(yes)
  <2> DEFINE k == a + 9
             L == K \cup {k}
  <2>1. /\ m = 6 /\ w[a + 3].op = "PUSH" /\ w[a + 4].op = "IF" /\ w[a + 5].op = "PUSH"
        /\ w[a + 6].op = "ELSE" /\ w[a + 7].op = "PUSH" /\ w[a + 8].op = "ENDIF"
    <3> DEFINE r == yes.code
    <3>1. /\ Len(r) = 6 /\ r[1].op = "PUSH" /\ r[2].op = "IF" /\ r[3].op = "PUSH"
          /\ r[4].op = "ELSE" /\ r[5].op = "PUSH" /\ r[6].op = "ENDIF"
      BY <1>12, TwoLeavesAre
    <3>2. \A j \in 1..Len(r) : w[a + 2 + j] = r[j]
      BY <1>2 DEF In, w
    <3>3. m = 6
      BY <3>1 DEF m
    <3> HIDE DEF r
    <3>4. /\ w[a + 2 + 1] = r[1] /\ w[a + 2 + 2] = r[2] /\ w[a + 2 + 3] = r[3]
          /\ w[a + 2 + 4] = r[4] /\ w[a + 2 + 5] = r[5] /\ w[a + 2 + 6] = r[6]
      BY <3>1, <3>2
    <3>5. /\ a + 2 + 1 = a + 3 /\ a + 2 + 2 = a + 4 /\ a + 2 + 3 = a + 5
          /\ a + 2 + 4 = a + 6 /\ a + 2 + 5 = a + 7 /\ a + 2 + 6 = a + 8
      <4>1. a \in Nat
        BY <1>2
      <4> HIDE DEF a
      <4> QED
        BY ONLY <4>1
    <3> QED
      BY <3>1, <3>3, <3>4, <3>5
  <2>2. /\ a + 3 + m = k /\ k \in 1..End /\ k < End
        /\ pc + 6 <= l /\ k = pc + 7
        /\ pc + 1 = a + 3 /\ pc + 2 = a + 4 /\ pc + 3 = a + 5
        /\ pc + 4 = a + 6 /\ pc + 5 = a + 7 /\ pc + 6 = a + 8
    BY <1>2, <1>3, <1>7, <2>1
  <2> HIDE DEF k
  <2>3. SkipFromIf = k
    <3>1. /\ pc + 6 <= Len(program.code)
          /\ program.code[pc + 1].op = "PUSH" /\ program.code[pc + 2].op = "IF" /\ program.code[pc + 3].op = "PUSH"
          /\ program.code[pc + 4].op = "ELSE" /\ program.code[pc + 5].op = "PUSH" /\ program.code[pc + 6].op = "ENDIF"
      BY <2>1, <2>2 DEF w, l
    <3>2. ScanEnd(pc + 1, {"ELSE", "ENDIF"}) = pc + 7
      BY <1>3, <3>1, IfSkipsBoth
    <3> QED
      BY <2>2, <3>2 DEF SkipFromIf
  <2>4. JumpTo(k, <<>>) /\ program.left = <<>>
    BY <1>1, <1>4, <1>6, <1>8, <1>9, <1>12, <2>3, Conducts
  <2>5. ScanEnd(k + 1, {"ENDIF"}) \in K
    <3>1. In(no.code, k) /\ w[k + n + 1].op = "ENDIF" /\ k + n + 1 <= l /\ k + n + 2 \in K /\ k \in Nat
      <4>1. a \in Nat /\ m \in Nat /\ n \in Nat /\ a + 3 + m = k
        BY <1>2, <2>2
      <4> HIDE DEF a
      <4>2. /\ k \in Nat /\ k + n + 1 = a + 4 + m + n
            /\ k + n + 1 = (a + 3 + m) + n + 1 /\ k + n + 2 = (a + 3 + m) + n + 2
        BY ONLY <4>1
      <4>3. In(no.code, k) /\ w[a + 4 + m + n].op = "ENDIF"
        BY <1>2, <4>1, OperationsOf
      <4> QED
        BY <1>1, <1>7, <4>2, <4>3
    <3>2. ScanEnd(k + 1, {"ENDIF"}) = k + n + 2
      BY <1>2, <1>5, <3>1, ElseSkips DEF w, l, n
    <3> QED
      BY <3>1, <3>2
  <2>6. Way(L) /\ L \in SUBSET (1..End)
    <3>1. program.code[k].op = "ELSE"
      BY <1>2, <2>2, OperationsOf DEF w
    <3> QED
      BY <1>1, <2>2, <2>5, <3>1, WayGrows
  <2>7. OnWay(k, <<>>, L)
    BY <2>4, <2>6 DEF OnWay
  <2> HIDE DEF L
  <2> QED
    BY <1>8, <2>4, <2>6, <2>7 DEF JumpTo, BranchPlace
<1> QED
  BY <1>4, <1>10, <1>11, <1>12

LEMMA FromWay ==
  ASSUME ScriptInv, program.template = "if", ScriptNext, NEW K \in SUBSET (1..End), OnWay(pc, stack, K)
  PROVE  stack' = program.left /\ (verdict' = "running" => BranchPlace(pc', stack'))
<1> DEFINE st == program.left
<1>1. Way(K) /\ pc \in K /\ stack = st /\ Len(st) \in Nat /\ Len(st) <= MaxStack
  <2>1. stack \in Seq(ScriptValues) /\ Len(stack) <= MaxStack
    BY DEF ScriptInv
  <2>2. \A S, q : q \in Seq(S) => Len(q) \in Nat
    OBVIOUS
  <2>3. Len(stack) \in Nat
    BY <2>1, <2>2
  <2> QED
    BY <2>1, <2>3 DEF OnWay
<1>2. pc \in Nat /\ Len(program.code) \in Nat /\ MaxStack \in Nat /\ MaxStack >= 1 /\ End = Len(program.code) + 1
  BY IfCode, CodeFacts DEF ScriptInv, End
<1> HIDE DEF st
<1>3. CASE pc = End
  <2>1. ~ (pc <= Len(program.code))
    BY <1>2, <1>3
  <2>2. ScriptEnd
    BY <2>1 DEF ScriptNext, ScriptStep
  <2>3. stack' = st /\ verdict' # "running"
    BY <1>1, <2>2 DEF ScriptEnd
  <2> QED
    BY <2>3 DEF st
<1>4. CASE pc < End /\ program.code[pc].op = "ENDIF" /\ pc + 1 \in K
  <2>1. Turn /\ ScriptStep
    BY <1>4, IfTurn
  <2>2. Go(st)
    BY <1>1, <1>4, <2>1, Conducts DEF Current
  <2>3. Moves(st)
    BY <1>1, <2>1, <2>2, Put1
  <2>4. OnWay(pc + 1, st, K)
    BY <1>1, <1>4 DEF OnWay, st
  <2> QED
    BY <2>3, <2>4 DEF Moves, BranchPlace, st
<1>5. CASE pc < End /\ program.code[pc].op = "ELSE" /\ ScanEnd(pc + 1, {"ENDIF"}) \in K
  <2> DEFINE i == ScanEnd(pc + 1, {"ENDIF"})
  <2>1. Turn /\ ScriptStep /\ verdict = "running"
    BY <1>5, IfTurn
  <2>2. JumpTo(i, st)
    BY <1>1, <1>5, <2>1, Conducts DEF Current, SkipFromElse
  <2>3. OnWay(i, st, K)
    BY <1>1, <1>5 DEF OnWay, st
  <2> HIDE DEF i
  <2> QED
    BY <2>1, <2>2, <2>3 DEF JumpTo, BranchPlace, st
<1> QED
  BY <1>1, <1>3, <1>4, <1>5 DEF Way

LEMMA BranchStep ==
  ASSUME ScriptInv, program.template = "if", BranchInv, ScriptNext
  PROVE  BranchInv'
<1>1. BranchPlace(pc, stack)
  BY DEF BranchInv, ScriptNext, ScriptStep, ScriptEnd
<1>2. program' = program
  BY SameProgram
<1>3. CASE \E t \in Conditionals, K \in SUBSET (1..End) : BeforeBranch(pc, stack, t, K)
  BY <1>2, <1>3, FromBranch, BranchArrives
<1>4. CASE \E t, yes, no \in Conditionals, c \in ScriptValues, K \in SUBSET (1..End) :
              BeforeIf(pc, stack, t, c, yes, no, K)
  BY <1>2, <1>4, FromIf, BranchArrives
<1>5. CASE \E K \in SUBSET (1..End) : OnWay(pc, stack, K)
  BY <1>2, <1>5, FromWay, BranchArrives
<1> QED
  BY <1>1, <1>3, <1>4, <1>5 DEF BranchPlace

LEMMA BranchStart == ASSUME ScriptInit, program.template = "if" PROVE BranchInv
<1>1. ScriptInv /\ verdict = "running" /\ pc = 1 /\ stack = <<>>
  BY ScriptStart DEF ScriptInit
<1>2. PICK t \in Conditionals : program.code = t.code /\ program.left = t.left
  BY <1>1, IfCode
<1>3. Len(t.code) \in Nat /\ Len(t.code) > 0 /\ End = Len(t.code) + 1
  BY <1>2, ConditionalTypes DEF End
<1> DEFINE K == {End}
<1>4. Way(K) /\ K \in SUBSET (1..End)
  BY <1>3 DEF Way
<1>5. In(t.code, 0) /\ 1 - 1 = 0 /\ 1 + Len(t.code) = End
  BY <1>2, <1>3 DEF In
<1> HIDE DEF K
<1>6. BeforeBranch(1, <<>>, t, K)
  BY <1>2, <1>4, <1>5 DEF BeforeBranch, K
<1> QED
  BY <1>1, <1>4, <1>6 DEF BranchInv, BranchPlace

\* A conditional runs the branch that its condition selects, and in that branch the same
\* again, for branches nested to any depth where they are run or skipped from OP_ELSE on, any
\* conditions and any values pushed.  A false condition before a branch that is itself a
\* conditional of two pushes runs neither branch; in the programs OP_IF skips no deeper one,
\* and this theorem says nothing of them (script.py:307-334).
THEOREM BranchesAreSelected == ScriptSpec => []BranchSelected
<1>1. ASSUME ScriptInit PROVE ScriptInv /\ (program.template = "if" => BranchInv)
  BY <1>1, ScriptStart, BranchStart
<1>2. ASSUME ScriptInv, program.template = "if" => BranchInv, [ScriptNext]_scriptVars
      PROVE  (ScriptInv /\ (program.template = "if" => BranchInv))'
  <2>1. ScriptInv'
    BY <1>2, ScriptKept
  <2>2. CASE ScriptNext
    <3>1. program' = program
      BY <2>2, SameProgram
    <3> QED
      BY <1>2, <2>1, <2>2, <3>1, BranchStep
  <2>3. CASE UNCHANGED scriptVars
    <3>1. program' = program /\ pc' = pc /\ stack' = stack /\ verdict' = verdict
      BY <2>3 DEF scriptVars
    <3>2. program.template = "if" => BranchInv'
      BY <1>2, <3>1, BranchArrives DEF BranchInv
    <3> QED
      BY <2>1, <3>1, <3>2
  <2> QED
    BY <1>2, <2>2, <2>3
<1>3. ASSUME program.template = "if" => BranchInv PROVE BranchSelected
  BY <1>3 DEF BranchSelected, BranchInv
<1> QED
  BY <1>1, <1>2, <1>3, PTL DEF ScriptSpec

\* Every script of the builders is unlocked exactly by what it was built for, a conditional
\* whose skipped branch is no deeper than two pushes runs what BranchSelected names, and no
\* script goes beyond the limits of the engine.
THEOREM EveryScriptHolds == ScriptSpec => []ScriptsHold
<1>1. ScriptTypeOK /\ P2pkhHolds /\ TimelockHolds /\ MultisigHolds /\ BranchSelected => ScriptsHold
  BY DEF ScriptsHold
<1> QED
  BY <1>1, ScriptsStayInLimits, SingleKeysUnlockExactly, MultisigsUnlockExactly, BranchesAreSelected, PTL
=============================================================================
