---------------------------- MODULE ServiceProofs ----------------------------
(***************************************************************************)
(* Theorems about the services beside the chain.                           *)
(* Relay: for any number of threads no proof claims a negative number of   *)
(* bytes; and as long as calls do not overlap (one thread), the relay      *)
(* implements BandwidthMeter.                                              *)
(* Faucet: its drips are covered, and those of an IP whose requests do not *)
(* overlap come a cooldown apart.                                          *)
(* Storage: a chunk that was acknowledged survives crashes but one inside  *)
(* the write of the index, and later uploads do not harm earlier ones.     *)
(* DNS: a name resolves along its aliases; an owner changes in a transfer, *)
(* or where registrations or writes of the file raced; and the file of     *)
(* requests that came one at a time says what the memory says.             *)
(* Identity: a handle resolves to a document that bears it unless two      *)
(* requests registered its DID at the same time; the score does not depend *)
(* on the order of the claims; and the same of the file as above.          *)
(* Relay directory: what was learnt stays known, whichever tasks overlap,  *)
(* and the best of it is answered.                                         *)
(* Economics: the difficulties of a mined chain pass the validation of the *)
(* whole chain, and keep to their limits; the supply is the sum of the     *)
(* rewards.                                                                *)
(***************************************************************************)
EXTENDS Relay, Faucet, Storage, DnsRegistry, Identity, RelayDirectory, Economics,
        SumTheorems, TLAPS

\* Min and Max of the community modules.
LEMMA Extremes ==
  ASSUME NEW S, IsFiniteSet(S), S \subseteq Nat, S # {}
  PROVE  /\ Min(S) \in S /\ \A x \in S : Min(S) <= x
         /\ Max(S) \in S /\ \A x \in S : Max(S) >= x
<1>1. \E x \in S : \A y \in S : x <= y
  BY Least
<1>2. \E x \in S : \A y \in S : x >= y
  BY Greatest
<1> QED
  BY <1>1, <1>2 DEF Min, Max

(* ---------------------------------- relay -------------------------------- *)


\* Marks lag behind the counters: a mark is a total read earlier, and totals only grow.
MarksLag ==
    /\ \A s \in Sessions : flushed[s] <= total[s]
    /\ \A th \in RelayThreads : relayPc[th] = "mark" => relayLocal[th].mark <= total[relayLocal[th].s]

RelayInv == RelayTypeOK /\ MarksLag

LEMMA RelayStart == RelayInit => RelayInv
<1> SUFFICES ASSUME RelayInit PROVE RelayInv
  OBVIOUS
<1>1. (CHOOSE s \in Sessions : TRUE) \in Sessions
  BY RelayAssumption
<1>2. relayLocal \in [RelayThreads -> Locals]
  BY <1>1 DEF RelayInit, Locals
<1> QED
  BY <1>2 DEF RelayInit, RelayInv, RelayTypeOK, MarksLag

LEMMA UnflushedType ==
  ASSUME RelayInv, NEW s \in Sessions
  PROVE  Unflushed(s) \in Nat /\ total[s] \in Nat /\ flushed[s] \in Nat
  BY DEF RelayInv, RelayTypeOK, MarksLag, Unflushed

LEMMA LocalType ==
  ASSUME RelayTypeOK, NEW th \in RelayThreads
  PROVE  /\ relayLocal[th] \in Locals /\ relayLocal[th].s \in Sessions /\ relayLocal[th].count \in Nat
         /\ relayLocal[th].mark \in Nat /\ relayLocal[th].todo \subseteq Sessions
  BY DEF RelayTypeOK, Locals

LEMMA RelayStep == RelayInv /\ [RelayNext]_relayVars => RelayInv'
<1> SUFFICES ASSUME RelayInv, [RelayNext]_relayVars PROVE RelayInv'
  OBVIOUS
<1> USE DEF RelayInv
<1>1. CASE UNCHANGED relayVars
  BY <1>1 DEF relayVars, RelayTypeOK, MarksLag
<1>2. ASSUME NEW th \in Handlers, NEW s \in Sessions, OpenSession(th, s) PROVE RelayInv'
  BY <1>2 DEF OpenSession, RelayTypeOK, MarksLag
<1>3. ASSUME NEW th \in Handlers, NEW s \in Sessions, NEW k \in Sizes, RecordBytes(th, s, k)
      PROVE RelayInv'
  <2>1. k \in Nat /\ th \in RelayThreads
    BY RelayAssumption DEF RelayThreads
  <2>2. Unflushed(s) + k \in Nat
    BY <2>1, UnflushedType
  <2>3. relayLocal' \in [RelayThreads -> Locals]
    BY <1>3, <2>2 DEF RecordBytes, RelayTypeOK, Locals
  <2>4. total' \in [Sessions -> Nat] /\ \A u \in Sessions : total[u] <= total'[u]
    BY <1>3, <2>1 DEF RecordBytes, RelayTypeOK
  <2>5. relayPc' \in [RelayThreads -> {"idle", "relock", "check", "flush", "arg", "emit", "mark", "submit"}]
    BY <1>3 DEF RecordBytes, Move, RelayTypeOK
  <2>6. RelayTypeOK'
    BY <1>3, <2>3, <2>4, <2>5 DEF RecordBytes, RelayTypeOK
  <2>7. \A u \in Sessions : flushed'[u] <= total'[u]
    BY <1>3, <2>4 DEF RecordBytes, RelayTypeOK, MarksLag
  <2>8. ASSUME NEW h \in RelayThreads, relayPc'[h] = "mark" PROVE relayLocal'[h].mark <= total'[relayLocal'[h].s]
    <3>1. relayPc[h] = "mark" /\ relayLocal'[h] = relayLocal[h]
      BY <1>3, <2>8 DEF RecordBytes, Move, RelayTypeOK
    <3>2. relayLocal[h].mark <= total[relayLocal[h].s]
      BY <3>1 DEF MarksLag
    <3> QED
      BY <2>4, <2>6, <3>1, <3>2, LocalType DEF RelayTypeOK
  <2> QED
    BY <2>6, <2>7, <2>8 DEF MarksLag
<1>4. ASSUME NEW th \in RelayThreads, Relock(th) PROVE RelayInv'
  BY <1>4 DEF Relock, Move, RelayTypeOK, MarksLag
<1>5. ASSUME NEW th \in Handlers, NEW s \in Sessions, CloseSession(th, s) PROVE RelayInv'
  BY <1>5 DEF CloseSession, Move, RelayTypeOK, MarksLag, Locals, RelayThreads
<1>6. ASSUME NEW th \in RelayThreads, CheckLeft(th) PROVE RelayInv'
  BY <1>6 DEF CheckLeft, Move, RelayTypeOK, MarksLag
<1>7. ASSUME NEW th \in Flushers, NEW due \in SUBSET Sessions, FlushLoop(th, due) PROVE RelayInv'
  BY <1>7 DEF FlushLoop, Move, RelayTypeOK, MarksLag, Locals, RelayThreads
<1>8. ASSUME NEW th \in RelayThreads, FlushOne(th) PROVE RelayInv'
  <2>1. relayLocal' \in [RelayThreads -> Locals]
    <3>1. CASE relayLocal[th].todo = {}
      BY <1>8, <3>1 DEF FlushOne, RelayTypeOK
    <3>2. CASE relayLocal[th].todo # {}
      <4>1. PICK s \in relayLocal[th].todo : relayLocal' = [relayLocal EXCEPT ![th].s = s, ![th].todo = @ \ {s}]
        BY <1>8, <3>2 DEF FlushOne
      <4>2. s \in Sessions /\ relayLocal[th].todo \ {s} \subseteq Sessions
        BY LocalType
      <4> QED
        BY <4>1, <4>2 DEF RelayTypeOK, Locals
    <3> QED
      BY <3>1, <3>2
  <2>2. \A h \in RelayThreads : relayPc'[h] = "mark" => relayPc[h] = "mark" /\ relayLocal'[h] = relayLocal[h]
    BY <1>8 DEF FlushOne, Move, RelayTypeOK
  <2>3. relayPc' \in [RelayThreads -> {"idle", "relock", "check", "flush", "arg", "emit", "mark", "submit"}]
    BY <1>8 DEF FlushOne, Move, RelayTypeOK
  <2> QED
    BY <1>8, <2>1, <2>2, <2>3 DEF FlushOne, RelayTypeOK, MarksLag
<1>9. ASSUME NEW th \in RelayThreads, EvalCount(th) PROVE RelayInv'
  <2>1. Unflushed(relayLocal[th].s) \in Nat
    BY LocalType, UnflushedType
  <2> QED
    BY <1>9, <2>1 DEF EvalCount, Move, RelayTypeOK, MarksLag, Locals
<1>10. ASSUME NEW th \in RelayThreads, SignProof(th) PROVE RelayInv'
  <2>1. total[relayLocal[th].s] \in Nat
    BY LocalType, UnflushedType
  <2> QED
    BY <1>10, <2>1 DEF SignProof, Move, RelayTypeOK, MarksLag, Locals
<1>11. ASSUME NEW th \in RelayThreads, MarkFlush(th) PROVE RelayInv'
  <2>1. relayLocal[th].mark \in Nat /\ relayLocal[th].mark <= total[relayLocal[th].s] /\ relayLocal[th].s \in Sessions
    BY <1>11, LocalType DEF MarkFlush, Move, MarksLag
  <2> QED
    BY <1>11, <2>1 DEF MarkFlush, Move, RelayTypeOK, MarksLag
<1>12. ASSUME NEW th \in RelayThreads, Submit(th) PROVE RelayInv'
  <2>1. relayLocal[th].s \in Sessions /\ relayLocal[th].count \in Nat
    BY LocalType
  <2>2. claimed' \in [Sessions -> Nat]
    BY <1>12, <2>1 DEF Submit, RelayTypeOK
  <2>3. relayLocal' \in [RelayThreads -> Locals]
    <3>1. \A l \in Locals : [l EXCEPT !.count = 0, !.mark = 0] \in Locals
      BY DEF Locals
    <3>2. relayLocal[th] \in Locals
      BY LocalType
    <3>3. relayLocal' = [relayLocal EXCEPT ![th] = [relayLocal[th] EXCEPT !.count = 0, !.mark = 0]]
      BY <1>12 DEF Submit, RelayTypeOK
    <3> QED
      BY <3>1, <3>2, <3>3 DEF RelayTypeOK
  <2>4. relayPc' \in [RelayThreads -> {"idle", "relock", "check", "flush", "arg", "emit", "mark", "submit"}]
    BY <1>12 DEF Submit, Move, RelayTypeOK
  <2>5. relayLock' \in RelayThreads \cup {NoOwner}
    BY <1>12 DEF Submit, RelayTypeOK
  <2>6. RelayTypeOK'
    BY <1>12, <2>2, <2>3, <2>4, <2>5 DEF Submit, RelayTypeOK
  <2>7. \A h \in RelayThreads : relayPc'[h] = "mark" => relayPc[h] = "mark" /\ relayLocal'[h] = relayLocal[h]
    BY <1>12 DEF Submit, Move, RelayTypeOK
  <2>8. total' = total /\ flushed' = flushed
    BY <1>12 DEF Submit
  <2> QED
    BY <2>6, <2>7, <2>8 DEF MarksLag
<1> QED
  BY <1>1, <1>2, <1>3, <1>4, <1>5, <1>6, <1>7, <1>8, <1>9, <1>10, <1>11, <1>12
  DEF RelayNext, RelayContinue

\* For any number of handler threads and flush daemons, every count that _emit_proof signs
\* is a natural number.
THEOREM RelayTypes == RelaySpec => []RelayTypeOK
<1>1. RelayInv => RelayTypeOK
  BY DEF RelayInv
<1> QED
  BY <1>1, RelayStart, RelayStep, PTL DEF RelaySpec

-----------------------------------------------------------------------------
(* One thread *)

\* Calls do not overlap: one thread runs them all.
Sequential == \E h : RelayThreads = {h}

\* What thread h is about to claim is what is not claimed yet.
ClaimsExact(h) ==
    /\ \A s \in Sessions :
          (relayPc[h] = "submit" /\ s = relayLocal[h].s) \/ claimed[s] = flushed[s]
    /\ relayPc[h] \in {"relock", "emit", "mark"} => relayLocal[h].count = Unflushed(relayLocal[h].s)
    /\ relayPc[h] = "mark" => relayLocal[h].mark = total[relayLocal[h].s]
    /\ relayPc[h] = "submit" => /\ flushed[relayLocal[h].s] = total[relayLocal[h].s]
                           /\ claimed[relayLocal[h].s] + relayLocal[h].count = total[relayLocal[h].s]

SequentialInv == RelayInv /\ \A h \in RelayThreads : ClaimsExact(h)

LEMMA SequentialStep ==
  ASSUME NEW h, RelayThreads = {h}, SequentialInv, [RelayNext]_relayVars
  PROVE  SequentialInv' /\ [Meter!Next]_<<total, claimed>>
<1>0. RelayInv /\ ClaimsExact(h) /\ RelayTypeOK /\ h \in RelayThreads
  BY DEF SequentialInv, RelayInv
<1>1. RelayInv'
  BY <1>0, RelayStep
<1>2. relayLocal[h].s \in Sessions /\ relayLocal[h].count \in Nat /\ relayLocal[h].mark \in Nat
  BY <1>0, LocalType
<1>3. \A s \in Sessions : total[s] \in Nat /\ flushed[s] \in Nat /\ claimed[s] \in Nat
                           /\ flushed[s] <= total[s]
  BY <1>0 DEF RelayInv, RelayTypeOK, MarksLag
<1> SUFFICES ClaimsExact(h)' /\ [Meter!Next]_<<total, claimed>>
  BY <1>1 DEF SequentialInv
<1>4. CASE UNCHANGED relayVars
  BY <1>0, <1>4 DEF relayVars, ClaimsExact, Unflushed
<1>5. ASSUME NEW s \in Sessions, OpenSession(h, s)
      PROVE  ClaimsExact(h)' /\ UNCHANGED <<total, claimed>>
  BY <1>0, <1>5 DEF OpenSession, ClaimsExact, Unflushed
<1>6. ASSUME NEW s \in Sessions, NEW k \in Sizes, RecordBytes(h, s, k)
      PROVE  ClaimsExact(h)' /\ Meter!Forward(s, k)
  <2>1. relayPc[h] = "idle" /\ total' = [total EXCEPT ![s] = @ + k] /\ flushed' = flushed
        /\ claimed' = claimed
    BY <1>6 DEF RecordBytes, Move
  <2>2. \A u \in Sessions : claimed'[u] = flushed'[u]
    BY <1>0, <2>1 DEF ClaimsExact
  <2>3. CASE Unflushed(s) + k >= FlushBytes
    <3>1. relayPc'[h] = "relock" /\ relayLocal'[h].s = s /\ relayLocal'[h].count = Unflushed(s) + k
      BY <1>0, <1>6, <2>3 DEF RecordBytes, Move, RelayTypeOK, Locals
    <3>2. k \in Nat
      BY RelayAssumption
    <3>3. total'[s] = total[s] + k
      BY <1>0, <2>1 DEF RelayTypeOK
    <3> QED
      BY <1>3, <2>1, <2>2, <3>1, <3>2, <3>3 DEF ClaimsExact, Unflushed, Meter!Forward
  <2>4. CASE ~ (Unflushed(s) + k >= FlushBytes)
    <3>1. relayPc'[h] = "idle"
      BY <1>6, <2>1, <2>4 DEF RecordBytes
    <3> QED
      BY <2>1, <2>2, <3>1 DEF ClaimsExact, Meter!Forward
  <2> QED
    BY <2>3, <2>4
<1>7. CASE Relock(h)
  BY <1>0, <1>7 DEF Relock, Move, RelayTypeOK, ClaimsExact, Unflushed
<1>8. ASSUME NEW s \in Sessions, CloseSession(h, s)
      PROVE  ClaimsExact(h)' /\ UNCHANGED <<total, claimed>>
  BY <1>0, <1>8 DEF CloseSession, Move, RelayTypeOK, ClaimsExact
<1>9. CASE CheckLeft(h)
  BY <1>0, <1>9 DEF CheckLeft, Move, RelayTypeOK, ClaimsExact
<1>10. ASSUME NEW due \in SUBSET Sessions, FlushLoop(h, due)
       PROVE  ClaimsExact(h)' /\ UNCHANGED <<total, claimed>>
  BY <1>0, <1>10 DEF FlushLoop, Move, RelayTypeOK, ClaimsExact
<1>11. CASE FlushOne(h)
  <2>1. relayPc[h] = "flush" /\ relayPc'[h] \in {"idle", "arg"} /\ UNCHANGED <<total, flushed, claimed>>
    BY <1>0, <1>11 DEF FlushOne, Move, RelayTypeOK
  <2> QED
    BY <1>0, <2>1 DEF ClaimsExact
<1>12. CASE EvalCount(h)
  <2>1. /\ relayPc[h] = "arg" /\ relayPc'[h] = "emit" /\ relayLocal'[h].s = relayLocal[h].s
        /\ relayLocal'[h].count = Unflushed(relayLocal[h].s) /\ UNCHANGED <<total, flushed, claimed>>
    BY <1>0, <1>12 DEF EvalCount, Move, RelayTypeOK, Locals
  <2> QED
    BY <1>0, <2>1 DEF ClaimsExact, Unflushed
<1>13. CASE SignProof(h)
  <2>1. /\ relayPc[h] = "emit" /\ relayPc'[h] = "mark" /\ relayLocal'[h].s = relayLocal[h].s
        /\ relayLocal'[h].count = relayLocal[h].count /\ relayLocal'[h].mark = total[relayLocal[h].s]
        /\ UNCHANGED <<total, flushed, claimed>>
    BY <1>0, <1>13 DEF SignProof, Move, RelayTypeOK, Locals
  <2> QED
    BY <1>0, <2>1 DEF ClaimsExact, Unflushed
<1>14. CASE MarkFlush(h)
  <2>1. /\ relayPc[h] = "mark" /\ relayPc'[h] = "submit" /\ relayLocal' = relayLocal
        /\ flushed' = [flushed EXCEPT ![relayLocal[h].s] = relayLocal[h].mark]
        /\ UNCHANGED <<total, claimed>>
    BY <1>0, <1>14 DEF MarkFlush, Move, RelayTypeOK
  <2>2. flushed'[relayLocal[h].s] = total[relayLocal[h].s]
    BY <1>0, <1>2, <2>1 DEF RelayTypeOK, ClaimsExact
  <2>3. claimed[relayLocal[h].s] + relayLocal[h].count = total[relayLocal[h].s]
    BY <1>0, <1>2, <1>3, <2>1 DEF ClaimsExact, Unflushed
  <2>4. \A s \in Sessions : s # relayLocal[h].s => claimed[s] = flushed'[s]
    BY <1>0, <2>1 DEF RelayTypeOK, ClaimsExact
  <2> QED
    BY <2>1, <2>2, <2>3, <2>4 DEF ClaimsExact
<1>15. CASE Submit(h)
  <2> DEFINE s == relayLocal[h].s
  <2>1. /\ relayPc[h] = "submit" /\ relayPc'[h] \in {"flush", "idle"}
        /\ claimed' = [claimed EXCEPT ![s] = @ + relayLocal[h].count]
        /\ UNCHANGED <<total, flushed>>
    BY <1>0, <1>15 DEF Submit, Move, RelayTypeOK
  <2>2. claimed[s] + relayLocal[h].count = total[s] /\ flushed[s] = total[s]
    BY <1>0, <2>1 DEF ClaimsExact
  <2>3. claimed' = [claimed EXCEPT ![s] = total[s]]
    BY <1>0, <1>2, <2>1, <2>2 DEF RelayTypeOK
  <2>4. \A u \in Sessions : claimed'[u] = flushed'[u]
    BY <1>0, <1>2, <2>1, <2>2, <2>3 DEF ClaimsExact, RelayTypeOK
  <2>5. ClaimsExact(h)'
    BY <2>1, <2>4 DEF ClaimsExact
  <2>6. CASE claimed[s] < total[s]
    BY <1>2, <2>1, <2>3, <2>5, <2>6 DEF Meter!Next, Meter!Claim
  <2>7. CASE ~ (claimed[s] < total[s])
    <3>1. claimed[s] = total[s]
      BY <1>2, <1>3, <2>2, <2>7
    <3>2. claimed' = claimed
      BY <1>0, <2>3, <3>1 DEF RelayTypeOK
    <3> QED
      BY <2>1, <2>5, <3>2
  <2> QED
    BY <2>6, <2>7
<1>16. Handlers \subseteq {h} /\ Flushers \subseteq {h}
  BY DEF RelayThreads
<1> QED
  BY <1>4, <1>5, <1>6, <1>7, <1>8, <1>9, <1>10, <1>11, <1>12, <1>13, <1>14, <1>15, <1>16
  DEF RelayNext, RelayContinue, Meter!Next

\* As long as calls do not overlap, every proof claims exactly the bytes of its session
\* that no earlier proof has claimed.
THEOREM SequentialRelayMeters == ASSUME Sequential PROVE RelaySpec => ImplementsMeter
<1>1. PICK h : RelayThreads = {h}
  BY DEF Sequential
<1>2. RelayInit => SequentialInv /\ Meter!Init
  <2> SUFFICES ASSUME RelayInit PROVE SequentialInv /\ Meter!Init
    OBVIOUS
  <2>1. RelayInv
    BY RelayStart
  <2>2. \A th \in RelayThreads : ClaimsExact(th)
    BY DEF RelayInit, ClaimsExact
  <2> QED
    BY <2>1, <2>2 DEF SequentialInv, RelayInit, Meter!Init
<1>3. SequentialInv /\ [RelayNext]_relayVars => SequentialInv' /\ [Meter!Next]_<<total, claimed>>
  BY <1>1, SequentialStep
<1> QED
  BY <1>2, <1>3, PTL DEF RelaySpec, ImplementsMeter, Meter!Spec

(* --------------------------------- faucet -------------------------------- *)

Requests == [ip : Ips, addr : Wallets, now : 0..FaucetEnd]

FaucetTypes ==
    /\ FaucetTypeOK
    /\ drips \in [Ips -> Nat]
    /\ faucetCall \in [FaucetThreads -> Requests \cup {Unasked}]
    /\ \A t \in FaucetThreads : faucetCall[t] # Unasked => faucetCall[t].now <= faucetClock

\* The drips of an IP whose requests did not overlap came a cooldown apart: the last one is
\* written down, and the one request that may be on its way was checked against it.
DripsApart ==
    \A i \in Ips \ overlapped :
        /\ \/ lastIp[i] = LongAgo /\ drips[i] = 0
           \/ lastIp[i] \in 0..faucetClock /\ drips[i] <= 1 + (lastIp[i] \div IpCooldown)
        /\ \A t \in FaucetThreads : faucetCall[t] # Unasked /\ faucetCall[t].ip = i =>
              /\ faucetCall[t].now - lastIp[i] >= IpCooldown
              /\ \A u \in FaucetThreads : faucetCall[u] # Unasked /\ faucetCall[u].ip = i => u = t

FaucetInv == FaucetTypes /\ FaucetSolvent /\ DripsApart

LEMMA FaucetBounds ==
  /\ Drip \in Nat \ {0} /\ IpCooldown \in Nat \ {0} /\ AddrCooldown \in Nat \ {0}
  /\ MaxHistory \in Nat \ {0} /\ FaucetFunds \in Nat /\ FaucetEnd \in Nat
  /\ LongAgo \in Int /\ LongAgo < 0 /\ LongAgo = -AddrCooldown
  BY FaucetAssumption DEF LongAgo

LEMMA DivMono ==
  ASSUME NEW a \in Nat, NEW b \in Nat, NEW C \in Nat \ {0}, a <= b
  PROVE  a \div C <= b \div C /\ a \div C \in Nat
  OBVIOUS

LEMMA DivStep ==
  ASSUME NEW a \in Nat, NEW b \in Nat, NEW C \in Nat \ {0}, b - a >= C
  PROVE  1 + (a \div C) <= b \div C /\ a \div C \in Nat /\ b \div C \in Nat
  OBVIOUS

LEMMA FaucetStart == FaucetInit => FaucetInv
<1> SUFFICES ASSUME FaucetInit PROVE FaucetInv
  OBVIOUS
<1>1. FaucetTypes
  <2>1. Len(history) = 0 /\ history \in Seq(Wallets)
    BY DEF FaucetInit
  <2> QED
    BY <2>1, FaucetBounds DEF FaucetInit, FaucetTypes, FaucetTypeOK, LongAgo
<1>2. FaucetSolvent
  <2>1. Drip * 0 = 0
    BY FaucetBounds
  <2> QED
    BY <2>1, FaucetBounds DEF FaucetInit, FaucetSolvent
<1> QED
  BY <1>1, <1>2 DEF FaucetInv, FaucetInit, DripsApart

LEMMA RememberType ==
  ASSUME NEW c \in Requests, history \in Seq(Wallets)
  PROVE  Remember(c) \in Seq(Wallets) /\ Len(Remember(c)) <= MaxHistory
<1> DEFINE s == <<c.addr>> \o history
           k == Min({Len(history) + 1, MaxHistory})
<1>1. s \in Seq(Wallets) /\ Len(s) = Len(history) + 1 /\ Len(s) \in Nat
  BY DEF Requests
<1>2. \E x \in {Len(history) + 1, MaxHistory} : \A y \in {Len(history) + 1, MaxHistory} : x <= y
  BY FaucetBounds
<1>3. k \in {Len(history) + 1, MaxHistory} /\ \A y \in {Len(history) + 1, MaxHistory} : k <= y
  BY <1>2 DEF Min
<1>4. k \in Nat /\ k <= Len(s) /\ k <= MaxHistory
  BY <1>1, <1>3, FaucetBounds
<1> HIDE DEF s, k
<1>5. SubSeq(s, 1, k) \in Seq(Wallets) /\ Len(SubSeq(s, 1, k)) = k
  BY <1>1, <1>4
<1> QED
  BY <1>4, <1>5, FaucetBounds DEF Remember, s, k

LEMMA FaucetStep == FaucetInv /\ [FaucetNext]_faucetVars => FaucetInv'
<1> SUFFICES ASSUME FaucetInv, [FaucetNext]_faucetVars PROVE FaucetInv'
  OBVIOUS
<1> USE DEF FaucetInv
<1>1. CASE UNCHANGED faucetVars
  BY <1>1 DEF faucetVars, FaucetTypes, FaucetTypeOK, FaucetSolvent, DripsApart
<1>2. ASSUME NEW t \in FaucetThreads, DripCheck(t) PROVE FaucetInv'
  <2>1. PICK ip \in Ips, addr \in Wallets :
          /\ faucetCall[t] = Unasked /\ faucetClock - lastIp[ip] >= IpCooldown
          /\ faucetCall' = [faucetCall EXCEPT ![t] = [ip |-> ip, addr |-> addr, now |-> faucetClock]]
          /\ overlapped' = IF \E u \in FaucetThreads : faucetCall[u] # Unasked /\ faucetCall[u].ip = ip
                           THEN overlapped \cup {ip} ELSE overlapped
          /\ UNCHANGED <<faucetClock, lastIp, lastAddr, faucetBalance, unconfirmed, history, drips>>
    BY <1>2 DEF DripCheck
  <2>2. [ip |-> ip, addr |-> addr, now |-> faucetClock] \in Requests
    BY <2>1 DEF FaucetTypes, FaucetTypeOK, Requests
  <2>3. FaucetTypes'
    BY <2>1, <2>2 DEF FaucetTypes, FaucetTypeOK
  <2>4. FaucetSolvent'
    BY <2>1 DEF FaucetSolvent
  <2>5. overlapped \subseteq overlapped'
    BY <2>1
  <2>6. ASSUME NEW i \in Ips \ overlapped', NEW v \in FaucetThreads, faucetCall'[v] # Unasked, faucetCall'[v].ip = i
        PROVE  /\ faucetCall'[v].now - lastIp'[i] >= IpCooldown
               /\ \A u \in FaucetThreads : faucetCall'[u] # Unasked /\ faucetCall'[u].ip = i => u = v
    <3>1. CASE i = ip
      <4>1. \A u \in FaucetThreads : u # t => faucetCall'[u] = Unasked \/ faucetCall'[u].ip # ip
        BY <2>1, <2>6, <3>1 DEF FaucetTypes
      <4>2. v = t
        BY <4>1, <2>6, <3>1
      <4> QED
        BY <2>1, <2>6, <3>1, <4>1, <4>2 DEF FaucetTypes
    <3>2. CASE i # ip
      <4>1. faucetCall'[t].ip = ip /\ \A u \in FaucetThreads : u # t => faucetCall'[u] = faucetCall[u]
        BY <2>1 DEF FaucetTypes
      <4>2. v # t
        BY <4>1, <3>2, <2>6
      <4> QED
        BY <2>1, <2>5, <2>6, <3>2, <4>1, <4>2 DEF DripsApart
    <3> QED
      BY <3>1, <3>2
  <2>7. DripsApart'
    BY <2>1, <2>5, <2>6 DEF DripsApart
  <2> QED
    BY <2>3, <2>4, <2>7
<1>3. ASSUME NEW t \in FaucetThreads, DripSend(t) PROVE FaucetInv'
  <2> DEFINE c == faucetCall[t]
  <2>1. c # Unasked /\ c \in Requests /\ c.now <= faucetClock /\ faucetClock \in 0..FaucetEnd
    BY <1>3 DEF DripSend, FaucetTypes, FaucetTypeOK
  <2>2. /\ c.ip \in Ips /\ c.addr \in Wallets /\ c.now \in 0..FaucetEnd /\ c.now \in LongAgo..FaucetEnd
        /\ c.now \in 0..faucetClock
    BY <2>1, FaucetBounds DEF Requests
  <2>3. /\ faucetCall' = [faucetCall EXCEPT ![t] = Unasked]
        /\ UNCHANGED <<faucetClock, faucetBalance, overlapped>>
    BY <1>3 DEF DripSend
  <2>4. faucetCall' \in [FaucetThreads -> Requests \cup {Unasked}]
        /\ \A u \in FaucetThreads : faucetCall'[u] # Unasked => u # t /\ faucetCall'[u] = faucetCall[u]
    BY <2>3 DEF FaucetTypes
  <2>5. CASE ChainAccepts /\ unconfirmed' = unconfirmed + 1 /\ RecordDrip(c)
             /\ history' = Remember(c) /\ drips' = [drips EXCEPT ![c.ip] = @ + 1]
    <3>1. Remember(c) \in Seq(Wallets) /\ Len(Remember(c)) <= MaxHistory
      BY <2>1, RememberType DEF FaucetTypes, FaucetTypeOK
    <3>2. lastIp' = [lastIp EXCEPT ![c.ip] = c.now] /\ lastAddr' = [lastAddr EXCEPT ![c.addr] = c.now]
      BY <2>5 DEF RecordDrip
    <3>3. FaucetTypes'
      <4> HIDE DEF c
      <4>1. lastIp' \in [Ips -> LongAgo..FaucetEnd] /\ lastAddr' \in [Wallets -> LongAgo..FaucetEnd]
        BY <3>2, <2>2 DEF FaucetTypes, FaucetTypeOK
      <4>2. FaucetTypeOK'
        <5>1. unconfirmed' \in Nat /\ history' \in Seq(Wallets) /\ Len(history') <= MaxHistory
          BY <2>5, <3>1 DEF FaucetTypes, FaucetTypeOK
        <5> QED
          BY <2>3, <5>1, <4>1 DEF FaucetTypes, FaucetTypeOK
      <4>3. drips' \in [Ips -> Nat]
        BY <2>5, <2>2 DEF FaucetTypes
      <4> QED
        BY <4>2, <4>3, <2>3, <2>4 DEF FaucetTypes
    <3>4. FaucetSolvent'
      BY <2>3, <2>5 DEF FaucetSolvent, ChainAccepts
    <3>5. DripsApart'
      <4> SUFFICES ASSUME NEW i \in Ips \ overlapped
                   PROVE  /\ \/ lastIp'[i] = LongAgo /\ drips'[i] = 0
                             \/ /\ lastIp'[i] \in 0..faucetClock
                                /\ drips'[i] <= 1 + (lastIp'[i] \div IpCooldown)
                          /\ \A v \in FaucetThreads : faucetCall'[v] # Unasked /\ faucetCall'[v].ip = i =>
                               /\ faucetCall'[v].now - lastIp'[i] >= IpCooldown
                               /\ \A u \in FaucetThreads : faucetCall'[u] # Unasked /\ faucetCall'[u].ip = i => u = v
        BY <2>3 DEF DripsApart
      <4>1. CASE i = c.ip
        <5>1. /\ lastIp'[i] = c.now /\ drips'[i] = drips[i] + 1 /\ drips[i] \in Nat
              /\ c.now - lastIp[i] >= IpCooldown
          <6>1. c.now - lastIp[i] >= IpCooldown
            BY <4>1, <2>1 DEF DripsApart
          <6> QED
            BY <6>1, <4>1, <3>2, <2>5, <2>2 DEF FaucetTypes, FaucetTypeOK
        <5>2. drips[i] + 1 <= 1 + (c.now \div IpCooldown)
          <6>1. CASE lastIp[i] = LongAgo /\ drips[i] = 0
            <7>1. c.now \div IpCooldown \in Nat
              BY <2>2, FaucetBounds, DivMono
            <7> QED
              BY <6>1, <7>1
          <6>2. CASE lastIp[i] \in 0..faucetClock /\ drips[i] <= 1 + (lastIp[i] \div IpCooldown)
            <7>1. /\ 1 + (lastIp[i] \div IpCooldown) <= c.now \div IpCooldown
                  /\ lastIp[i] \div IpCooldown \in Nat /\ c.now \div IpCooldown \in Nat
              <8>1. lastIp[i] \in Nat /\ c.now \in Nat
                BY <6>2, <2>2
              <8> QED
                BY <8>1, <5>1, FaucetBounds, DivStep
            <7> HIDE DEF c
            <7> QED
              BY <7>1, <6>2, <5>1
          <6> QED
            BY <6>1, <6>2 DEF DripsApart
        <5>3. \A v \in FaucetThreads : faucetCall'[v] # Unasked => faucetCall'[v].ip # i
          BY <2>4, <2>1, <4>1 DEF DripsApart
        <5> QED
          BY <5>1, <5>2, <5>3, <2>2
      <4>2. CASE i # c.ip
        <5>1. lastIp'[i] = lastIp[i] /\ drips'[i] = drips[i]
          BY <4>2, <3>2, <2>5, <2>2 DEF FaucetTypes, FaucetTypeOK
        <5> QED
          BY <5>1, <2>4 DEF DripsApart
      <4> QED
        BY <4>1, <4>2
    <3> QED
      BY <3>3, <3>4, <3>5
  <2>6. CASE ~ChainAccepts /\ UNCHANGED <<unconfirmed, lastIp, lastAddr, history, drips>>
    <3>1. FaucetTypes'
      BY <2>3, <2>4, <2>6 DEF FaucetTypes, FaucetTypeOK
    <3>2. DripsApart'
      BY <2>3, <2>4, <2>6 DEF DripsApart
    <3> QED
      BY <3>1, <3>2, <2>3, <2>6 DEF FaucetSolvent
  <2> QED
    BY <1>3, <2>5, <2>6 DEF DripSend
<1>4. CASE BlockConfirms
  <2>1. Drip * unconfirmed \in Nat /\ faucetBalance \in Int /\ Drip * 0 = 0
    BY FaucetBounds DEF FaucetTypes, FaucetTypeOK
  <2>2. faucetBalance - Drip * unconfirmed >= 0 /\ faucetBalance - Drip * unconfirmed \in Int
    BY <2>1 DEF FaucetSolvent
  <2>3. FaucetTypes'
    BY <1>4, <2>2 DEF BlockConfirms, FaucetTypes, FaucetTypeOK
  <2>4. FaucetSolvent'
    BY <1>4, <2>1, <2>2 DEF BlockConfirms, FaucetSolvent
  <2>5. DripsApart'
    BY <1>4 DEF BlockConfirms, DripsApart
  <2> QED
    BY <2>3, <2>4, <2>5
<1>5. CASE FaucetTick
  <2>1. faucetClock' = faucetClock + 1 /\ faucetClock' \in 0..FaucetEnd /\ faucetClock \in 0..faucetClock'
    BY <1>5, FaucetBounds DEF FaucetTick, FaucetTypes, FaucetTypeOK
  <2>2. FaucetTypes'
    BY <1>5, <2>1 DEF FaucetTick, FaucetTypes, FaucetTypeOK, Requests
  <2>3. DripsApart'
    BY <1>5, <2>1 DEF FaucetTick, DripsApart
  <2> QED
    BY <1>5, <2>2, <2>3 DEF FaucetTick, FaucetSolvent
<1> QED
  BY <1>1, <1>2, <1>3, <1>4, <1>5 DEF FaucetNext

\* For any threads, addresses and cooldowns the faucet's mempool never promises more than
\* its balance, and an IP whose requests do not overlap gets one drip per cooldown.
THEOREM FaucetIsConsistent == FaucetSpec => []FaucetConsistent
<1>1. FaucetInv => FaucetConsistent
  <2> SUFFICES ASSUME FaucetInv, NEW i \in Ips \ overlapped
               PROVE  drips[i] <= 1 + (faucetClock \div IpCooldown)
    BY DEF FaucetInv, FaucetTypes, FaucetConsistent, CooldownKept
  <2>1. faucetClock \in Nat /\ faucetClock \div IpCooldown \in Nat /\ drips[i] \in Nat
    <3>1. faucetClock \in Nat /\ drips[i] \in Nat
      BY FaucetBounds DEF FaucetInv, FaucetTypes, FaucetTypeOK
    <3> QED
      BY <3>1, FaucetBounds, DivMono
  <2>2. CASE drips[i] = 0
    BY <2>1, <2>2
  <2>3. CASE lastIp[i] \in 0..faucetClock /\ drips[i] <= 1 + (lastIp[i] \div IpCooldown)
    <3>1. lastIp[i] \div IpCooldown <= faucetClock \div IpCooldown /\ lastIp[i] \div IpCooldown \in Nat
      <4>1. lastIp[i] \in Nat /\ lastIp[i] <= faucetClock
        BY <2>1, <2>3
      <4> QED
        BY <4>1, <2>1, FaucetBounds, DivMono
    <3> QED
      BY <3>1, <2>1, <2>3
  <2> QED
    BY <2>2, <2>3 DEF FaucetInv, DripsApart
<1> QED
  BY <1>1, FaucetStart, FaucetStep, PTL DEF FaucetSpec

(* --------------------------------- storage ------------------------------- *)

UploadShape(p, u) ==
    /\ {"at", "nodes", "i", "j", "map"} = DOMAIN p
    /\ p.i \in Nat \ {0} /\ p.j \in Nat
    /\ p.map \in [Range(Plain[u]) -> Seq(StoreNode)]
    /\ \A c \in Range(Plain[u]) : Len(p.map[c]) <= Replication

StorageTypes ==
    /\ snUp \subseteq StoreNode
    /\ snDisk \in [StoreNode -> [Chunks -> (Uploads \X Nat) \cup {NoKey}]]
    /\ snIndex \in [StoreNode -> SUBSET Chunks] /\ \A n \in StoreNode : IsFiniteSet(snIndex[n])
    /\ snBytes \in [StoreNode -> Nat]
    /\ DOMAIN upload = Uploads /\ \A u \in Uploads : UploadShape(upload[u], u)
    /\ proofTasks \in [StoreNode -> Nat] /\ snEarned \in [StoreNode -> Nat] /\ snPaid \in [StoreNode -> Nat]

SavedIndex(n) == [chunks |-> snIndex[n], bytes |-> snBytes[n]]

\* Every change of the memory is saved unless a crash has torn the file, which stops the
\* node, and the bytes cover the index.
IndexSaved ==
    /\ DOMAIN snSaved = StoreNode
    /\ \A n \in StoreNode : snSaved[n] = SavedIndex(n) \/ (snSaved[n] = NoKey /\ n \notin snUp)
    /\ \A n \in StoreNode : snBytes[n] >= SumFunctionOnSet(ChunkSize, snIndex[n])

\* A chunk in the index has its file, unless it was deleted; and who acknowledged a chunk
\* has it in the index, unless it was deleted.
IndexHeld ==
    /\ \A n \in StoreNode : \A c \in snIndex[n] : <<n, c>> \notin removed => snDisk[n][c] # NoKey
    /\ \A u \in Uploads : \A c \in Range(Plain[u]) : \A n \in Range(upload[u].map[c]) :
          <<n, c>> \notin removed => c \in snIndex[n]

StorageInv == StorageTypes /\ IndexSaved /\ IndexHeld /\ EarnedWasPaid

LEMMA StoredChunk ==
  ASSUME NEW u \in Uploads, NEW i \in DOMAIN Plain[u]
  PROVE  /\ Plain[u][i] \in Chunks /\ Plain[u][i] \in Range(Plain[u]) /\ i \in Nat \ {0}
         /\ KeyOf(u, i) \in Uploads \X Nat /\ KeyOf(u, i) # NoKey
         /\ DOMAIN Plain[u] = 1..Len(Plain[u])
<1>1. Plain[u] \in Seq(Chunks) /\ KeyOf(u, i) # NoKey
  BY StorageAssumption
<1> QED
  BY <1>1 DEF KeyOf, Range

LEMMA UploadedChunk ==
  ASSUME NEW u \in Uploads, NEW c \in Range(Plain[u])
  PROVE  c \in Chunks
  BY DEF Chunks

\* The bytes of an index with one chunk more or less.
LEMMA BytesOfIndex ==
  ASSUME NEW S, S \subseteq Chunks, IsFiniteSet(S), NEW c \in Chunks
  PROVE  /\ SumFunctionOnSet(ChunkSize, S) \in Nat /\ ChunkSize[c] \in Nat
         /\ IsFiniteSet(S \cup {c}) /\ IsFiniteSet(S \ {c})
         /\ c \notin S => SumFunctionOnSet(ChunkSize, S \cup {c}) = ChunkSize[c] + SumFunctionOnSet(ChunkSize, S)
         /\ c \in S => SumFunctionOnSet(ChunkSize, S) = ChunkSize[c] + SumFunctionOnSet(ChunkSize, S \ {c})
         /\ SumFunctionOnSet(ChunkSize, S \ {c}) \in Nat
<1>1. \A x \in Chunks : ChunkSize[x] \in Nat /\ ChunkSize[x] \in Int
  BY StorageAssumption
<1>2. IsFiniteSet(S \cup {c}) /\ IsFiniteSet(S \ {c})
  BY FS_AddElement, FS_Subset
<1>3. SumFunctionOnSet(ChunkSize, S) \in Nat /\ SumFunctionOnSet(ChunkSize, S \ {c}) \in Nat
  <2>1. (\A x \in S : ChunkSize[x] \in Nat) /\ \A x \in S \ {c} : ChunkSize[x] \in Nat
    BY <1>1
  <2> QED
    BY <2>1, <1>2, SumNat
<1>4. ASSUME c \in S
      PROVE SumFunctionOnSet(ChunkSize, S) = ChunkSize[c] + SumFunctionOnSet(ChunkSize, S \ {c})
  <2>1. \A x \in S : ChunkSize[x] \in Int
    BY <1>1
  <2> QED
    BY <2>1, <1>4, SumRemove
<1>5. ASSUME c \notin S
      PROVE SumFunctionOnSet(ChunkSize, S \cup {c}) = ChunkSize[c] + SumFunctionOnSet(ChunkSize, S)
  <2>1. (\A x \in S \cup {c} : ChunkSize[x] \in Int) /\ c \in S \cup {c}
    BY <1>1
  <2>2. (S \cup {c}) \ {c} = S
    BY <1>5
  <2>3. SumFunctionOnSet(ChunkSize, S \cup {c})
        = ChunkSize[c] + SumFunctionOnSet(ChunkSize, (S \cup {c}) \ {c})
    BY <2>1, <1>2, SumRemove
  <2> QED
    BY <2>2, <2>3
<1> QED
  BY <1>1, <1>2, <1>3, <1>4, <1>5

LEMMA StorageStart == StorageInit => StorageInv
<1> SUFFICES ASSUME StorageInit PROVE StorageInv
  OBVIOUS
<1>1. Replication \in Nat
  BY StorageAssumption
<1>2. \A u \in Uploads : UploadShape(upload[u], u)
  <2> TAKE u \in Uploads
  <2>1. upload[u] = [at |-> "new", nodes |-> <<>>, i |-> 1, j |-> 1, map |-> [c \in Range(Plain[u]) |-> <<>>]]
    BY DEF StorageInit
  <2>2. <<>> \in Seq(StoreNode) /\ Len(<<>>) = 0
    OBVIOUS
  <2> QED
    BY <1>1, <2>1, <2>2 DEF UploadShape
<1>3. StorageTypes
  BY <1>2, FS_EmptySet DEF StorageInit, StorageTypes
<1>4. IndexSaved
  BY SumEmpty DEF StorageInit, IndexSaved, SavedIndex
<1>5. IndexHeld
  <2>1. \A u \in Uploads : \A c \in Range(Plain[u]) : Range(upload[u].map[c]) = {}
    <3>1. Range(<<>>) = {}
      BY DEF Range
    <3>2. \A u \in Uploads : \A c \in Range(Plain[u]) : upload[u].map[c] = <<>>
      BY DEF StorageInit
    <3> QED
      BY <3>1, <3>2
  <2>2. \A n \in StoreNode : snIndex[n] = {}
    BY DEF StorageInit
  <2> QED
    BY <2>1, <2>2 DEF IndexHeld
<1> QED
  BY <1>3, <1>4, <1>5 DEF StorageInit, StorageInv, EarnedWasPaid

\* A step of a node that stores a chunk, or has it already.
LEMMA StoreChunkStep ==
  ASSUME StorageInv, NEW n \in StoreNode, NEW c \in Chunks, NEW key \in Uploads \X Nat, key # NoKey,
         StoreChunk(n, c, key)
  PROVE  /\ snUp' = snUp /\ (removed' = removed \/ removed' = removed \ {<<n, c>>})
         /\ snDisk' \in [StoreNode -> [Chunks -> (Uploads \X Nat) \cup {NoKey}]]
         /\ snIndex' \in [StoreNode -> SUBSET Chunks] /\ \A m \in StoreNode : IsFiniteSet(snIndex'[m])
         /\ snBytes' \in [StoreNode -> Nat]
         /\ IndexSaved'
         /\ \A m \in StoreNode : snIndex[m] \subseteq snIndex'[m]
         /\ c \in snIndex'[n]
         /\ \A m \in StoreNode : \A d \in snIndex'[m] : <<m, d>> \notin removed' => snDisk'[m][d] # NoKey
<1> USE DEF StorageInv
<1>1. CASE c \in snIndex[n]
  BY <1>1 DEF StoreChunk, nodeVars, StorageTypes, IndexSaved, SavedIndex, IndexHeld
<1>2. CASE c \notin snIndex[n]
  <2>1. /\ snDisk' = [snDisk EXCEPT ![n][c] = key]
        /\ snIndex' = [snIndex EXCEPT ![n] = @ \cup {c}]
        /\ snBytes' = [snBytes EXCEPT ![n] = @ + ChunkSize[c]]
        /\ snSaved' = [snSaved EXCEPT ![n] = [chunks |-> snIndex'[n], bytes |-> snBytes'[n]]]
        /\ snUp' = snUp /\ removed' = removed \ {<<n, c>>}
    BY <1>2 DEF StoreChunk, SaveIndex
  <2>2. /\ SumFunctionOnSet(ChunkSize, snIndex[n]) \in Nat /\ ChunkSize[c] \in Nat
        /\ IsFiniteSet(snIndex[n] \cup {c})
        /\ SumFunctionOnSet(ChunkSize, snIndex[n] \cup {c})
           = ChunkSize[c] + SumFunctionOnSet(ChunkSize, snIndex[n])
    <3>1. snIndex[n] \subseteq Chunks /\ IsFiniteSet(snIndex[n])
      BY DEF StorageTypes
    <3> QED
      BY <3>1, <1>2, BytesOfIndex
  <2>3. /\ snDisk' \in [StoreNode -> [Chunks -> (Uploads \X Nat) \cup {NoKey}]]
        /\ snIndex' \in [StoreNode -> SUBSET Chunks]
        /\ snBytes' \in [StoreNode -> Nat]
    BY <2>1, <2>2 DEF StorageTypes
  <2>4. \A m \in StoreNode : IsFiniteSet(snIndex'[m])
    BY <2>1, <2>2 DEF StorageTypes
  <2>5. \A m \in StoreNode : snBytes'[m] >= SumFunctionOnSet(ChunkSize, snIndex'[m])
    <3>1. snIndex'[n] = snIndex[n] \cup {c} /\ snBytes'[n] = snBytes[n] + ChunkSize[c] /\ snBytes[n] \in Nat
      BY <2>1 DEF StorageTypes
    <3>2. snBytes'[n] >= SumFunctionOnSet(ChunkSize, snIndex'[n])
      BY <3>1, <2>2 DEF IndexSaved
    <3>3. \A m \in StoreNode \ {n} : snIndex'[m] = snIndex[m] /\ snBytes'[m] = snBytes[m]
      BY <2>1 DEF StorageTypes
    <3> QED
      BY <3>2, <3>3 DEF IndexSaved
  <2>6. IndexSaved'
    <3>1. DOMAIN snSaved' = StoreNode /\ snSaved'[n] = SavedIndex(n)'
      BY <2>1 DEF IndexSaved, SavedIndex
    <3>2. \A m \in StoreNode \ {n} : snSaved'[m] = snSaved[m] /\ SavedIndex(m)' = SavedIndex(m)
      BY <2>1 DEF IndexSaved, SavedIndex, StorageTypes
    <3> QED
      BY <2>1, <2>5, <3>1, <3>2 DEF IndexSaved
  <2>7. \A m \in StoreNode : \A d \in snIndex'[m] : <<m, d>> \notin removed' => snDisk'[m][d] # NoKey
    <3> SUFFICES ASSUME NEW m \in StoreNode, NEW d \in snIndex'[m], <<m, d>> \notin removed' PROVE snDisk'[m][d] # NoKey
      OBVIOUS
    <3>1. CASE m = n /\ d = c
      BY <2>1, <3>1 DEF StorageTypes
    <3>2. CASE m # n \/ d # c
      <4>1. <<m, d>> \notin removed /\ d \in snIndex[m] /\ d \in Chunks /\ snDisk'[m][d] = snDisk[m][d]
        BY <2>1, <2>3, <3>2 DEF StorageTypes
      <4> QED
        BY <4>1 DEF IndexHeld
    <3> QED
      BY <3>1, <3>2
  <2>8. \A m \in StoreNode : snIndex[m] \subseteq snIndex'[m]
    BY <2>1 DEF StorageTypes
  <2>9. c \in snIndex'[n]
    BY <2>1 DEF StorageTypes
  <2> QED
    BY <2>1, <2>3, <2>4, <2>6, <2>7, <2>8, <2>9
<1> QED
  BY <1>1, <1>2

\* A crash in the write of the index.
LEMMA CrashInSaveStep ==
  ASSUME IndexSaved, snUp \subseteq StoreNode, NEW n \in StoreNode, CrashInSave(n), UNCHANGED <<snIndex, snBytes>>
  PROVE  IndexSaved' /\ snUp' \subseteq StoreNode
<1>1. \A m : SavedIndex(m)' = SavedIndex(m)
  BY DEF SavedIndex
<1>2. snUp' = snUp \ {n} /\ (snSaved' = snSaved \/ snSaved' = [snSaved EXCEPT ![n] = NoKey])
  BY DEF CrashInSave
<1> QED
  BY <1>1, <1>2 DEF IndexSaved

LEMMA CrashInStoreStep ==
  ASSUME StorageInv, NEW n \in StoreNode, NEW c \in Chunks, NEW key \in Uploads \X Nat, key # NoKey,
         CrashInStore(n, c, key)
  PROVE  /\ snUp' \subseteq StoreNode
         /\ snDisk' \in [StoreNode -> [Chunks -> (Uploads \X Nat) \cup {NoKey}]]
         /\ UNCHANGED <<snIndex, snBytes, removed>> /\ IndexSaved'
         /\ \A m \in StoreNode : \A d \in snIndex[m] : snDisk'[m][d] = snDisk[m][d]
<1>1. /\ c \notin snIndex[n]
      /\ snDisk' = [snDisk EXCEPT ![n][c] = key]
      /\ CrashInSave(n)
      /\ UNCHANGED <<snIndex, snBytes, removed>>
  BY DEF CrashInStore
<1>2. IndexSaved' /\ snUp' \subseteq StoreNode
  BY <1>1, CrashInSaveStep DEF StorageInv, StorageTypes
<1> QED
  BY <1>1, <1>2 DEF StorageInv, StorageTypes

\* A step of the client that adds at most S to the nodes of chunk c of u.
MapsGrow(u, c, S) ==
    /\ DOMAIN upload' = Uploads /\ \A v \in Uploads : UploadShape(upload'[v], v)
    /\ \A v \in Uploads : \A d \in Range(Plain[v]) :
          Range(upload'[v].map[d]) \subseteq
            Range(upload[v].map[d]) \cup (IF v = u /\ d = c THEN S ELSE {})

\* What a post makes of the node_map: the chunk may have one node more.
LEMMA PostedShape ==
  ASSUME StorageInv, NEW u \in Uploads, NEW n \in StoreNode, NEW c, Posting(u, n, c),
         NEW placed \in {<<>>, <<n>>}, Posted(u, c, placed)
  PROVE  MapsGrow(u, c, Range(placed))
<1> DEFINE p == upload[u]
           old == IF p.j = 1 THEN <<>> ELSE p.map[c]
<1>0. DOMAIN upload = Uploads /\ \A v \in Uploads : UploadShape(upload[v], v)
  BY DEF StorageInv, StorageTypes
<1>1. /\ p.i <= Len(Plain[u]) /\ c = Plain[u][p.i] /\ n = p.nodes[p.j]
      /\ p.j = 1 \/ Len(p.map[c]) < Replication
  BY DEF Posting
<1>2. c \in Range(Plain[u])
  <2>1. p.i \in Nat \ {0} /\ Plain[u] \in Seq(Chunks)
    BY <1>0, StorageAssumption DEF UploadShape
  <2>2. p.i \in DOMAIN Plain[u]
    BY <2>1, <1>1
  <2> QED
    BY <2>2, <1>1 DEF Range
<1>3. /\ old \in Seq(StoreNode) /\ Len(old) < Replication /\ Replication \in Nat
      /\ Range(old) \subseteq Range(p.map[c])
  <2>1. p.map[c] \in Seq(StoreNode)
    BY <1>0, <1>2 DEF UploadShape
  <2>2. Replication \in Nat /\ Replication >= 1
    BY StorageAssumption
  <2>3. CASE p.j = 1
    <3>1. Range(<<>>) = {} /\ <<>> \in Seq(StoreNode) /\ Len(<<>>) = 0
      BY DEF Range
    <3>2. old = <<>>
      BY <2>3
    <3> HIDE DEF old, p
    <3> QED
      BY <2>2, <3>1, <3>2
  <2>4. CASE p.j # 1
    <3>1. old = p.map[c] /\ Len(p.map[c]) < Replication
      BY <1>1, <2>4
    <3> HIDE DEF old, p
    <3> QED
      BY <2>1, <2>2, <3>1
  <2> QED
    BY <2>3, <2>4
<1>4. /\ old \o placed \in Seq(StoreNode) /\ Len(old \o placed) <= Replication
      /\ Range(old \o placed) \subseteq Range(old) \cup Range(placed)
  <2>1. placed \in Seq(StoreNode) /\ Len(placed) <= 1 /\ Len(placed) \in Nat
    <3>1. <<n>> \in Seq(StoreNode) /\ Len(<<n>>) = 1
      OBVIOUS
    <3>2. <<>> \in Seq(StoreNode) /\ Len(<<>>) = 0
      OBVIOUS
    <3> QED
      <4>1. CASE placed = <<>>
        BY <3>2, <4>1
      <4>2. CASE placed = <<n>>
        BY <3>1, <4>2
      <4> QED
        BY <4>1, <4>2
  <2> QED
    BY <2>1, <1>3 DEF Range
<1>5. upload' = [upload EXCEPT ![u] = [p EXCEPT !.j = p.j + 1, !.map = [p.map EXCEPT ![c] = old \o placed]]]
  BY <1>0, <1>2 DEF Posted, UploadShape
<1> DEFINE q == [p EXCEPT !.j = p.j + 1, !.map = [p.map EXCEPT ![c] = old \o placed]]
           m2 == [p.map EXCEPT ![c] = old \o placed]
<1>6. m2 \in [Range(Plain[u]) -> Seq(StoreNode)] /\ \A d \in Range(Plain[u]) : Len(m2[d]) <= Replication
  <2> HIDE DEF old
  <2> QED
    BY <1>0, <1>2, <1>4 DEF UploadShape
<1>7. /\ DOMAIN q = {"at", "nodes", "i", "j", "map"}
      /\ q.i = p.i /\ q.j = p.j + 1 /\ q.map = m2
  <2>1. DOMAIN p = {"at", "nodes", "i", "j", "map"}
    BY <1>0 DEF UploadShape
  <2> HIDE DEF p, old, m2
  <2> QED
    BY <2>1 DEF m2
<1>8. UploadShape(q, u) /\ q.map = m2
  <2>1. p.i \in Nat \ {0} /\ p.j + 1 \in Nat
    BY <1>0 DEF UploadShape
  <2> HIDE DEF q, m2, p
  <2> QED
    BY <1>6, <1>7, <2>1 DEF UploadShape
<1>9. DOMAIN upload' = Uploads /\ upload'[u] = q /\ \A v \in Uploads \ {u} : upload'[v] = upload[v]
  BY <1>0, <1>5
<1>10. \A d \in Range(Plain[u]) :
          Range(m2[d]) \subseteq Range(p.map[d]) \cup (IF d = c THEN Range(placed) ELSE {})
  <2>1. m2[c] = old \o placed /\ \A d \in Range(Plain[u]) \ {c} : m2[d] = p.map[d]
    BY <1>0, <1>2 DEF UploadShape
  <2> HIDE DEF m2, old
  <2> QED
    BY <2>1, <1>3, <1>4
<1> QED
  <2> HIDE DEF q, m2, p, old
  <2>1. \A v \in Uploads : UploadShape(upload'[v], v)
    BY <1>0, <1>8, <1>9
  <2>2. \A v \in Uploads : \A d \in Range(Plain[v]) :
               Range(upload'[v].map[d]) \subseteq
                 Range(upload[v].map[d]) \cup (IF v = u /\ d = c THEN Range(placed) ELSE {})
    BY <1>8, <1>9, <1>10 DEF p
  <2> QED
    BY <1>9, <2>1, <2>2 DEF MapsGrow

\* The client goes on without any node: the shapes and the node maps stay.
LEMMA UploadMoves ==
  ASSUME StorageInv, NEW u \in Uploads,
         \/ BeginUpload(u) \/ NextChunk(u) \/ FinishUpload(u)
  PROVE  /\ DOMAIN upload' = Uploads /\ \A v \in Uploads : UploadShape(upload'[v], v)
         /\ \A v \in Uploads : upload'[v].map = upload[v].map
         /\ UNCHANGED <<nodeVars, proofVars>>
<1>0. DOMAIN upload = Uploads /\ \A v \in Uploads : UploadShape(upload[v], v)
  BY DEF StorageInv, StorageTypes
<1>1. CASE BeginUpload(u)
  <2>1. PICK ns : upload' = [upload EXCEPT ![u].at = "placing", ![u].nodes = ns]
    BY <1>1 DEF BeginUpload
  <2>2. DOMAIN upload' = Uploads /\ \A v \in Uploads \ {u} : upload'[v] = upload[v]
    BY <1>0, <2>1
  <2>3. UploadShape(upload'[u], u) /\ upload'[u].map = upload[u].map
    BY <1>0, <2>1 DEF UploadShape
  <2> QED
    BY <1>0, <1>1, <2>2, <2>3 DEF BeginUpload
<1>2. CASE NextChunk(u)
  <2>1. DOMAIN upload' = Uploads /\ \A v \in Uploads \ {u} : upload'[v] = upload[v]
    BY <1>0, <1>2 DEF NextChunk
  <2>2. UploadShape(upload'[u], u) /\ upload'[u].map = upload[u].map
    BY <1>0, <1>2 DEF NextChunk, UploadShape
  <2> QED
    BY <1>0, <1>2, <2>1, <2>2 DEF NextChunk
<1>3. CASE FinishUpload(u)
  <2>1. DOMAIN upload' = Uploads /\ \A v \in Uploads \ {u} : upload'[v] = upload[v]
    BY <1>0, <1>3 DEF FinishUpload
  <2>2. UploadShape(upload'[u], u) /\ upload'[u].map = upload[u].map
    BY <1>0, <1>3 DEF FinishUpload, UploadShape
  <2> QED
    BY <1>0, <1>3, <2>1, <2>2 DEF FinishUpload
<1> QED
  BY <1>1, <1>2, <1>3

\* What PostChunk does, whichever of its outcomes it has.
LEMMA PostChunkIs ==
  ASSUME StorageInv, NEW u \in Uploads, PostChunk(u)
  PROVE  \E n \in StoreNode, c \in Chunks, key \in Uploads \X Nat, placed \in Seq(StoreNode) :
           /\ key # NoKey /\ Posting(u, n, c) /\ Posted(u, c, placed) /\ UNCHANGED proofVars
           /\ \/ StoreChunk(n, c, key) /\ placed \in {<<>>, <<n>>}
              \/ CrashInStore(n, c, key) /\ placed = <<>>
              \/ UNCHANGED nodeVars /\ placed = <<>>
<1>1. PICK n \in StoreNode, c \in Chunks :
        /\ Posting(u, n, c) /\ UNCHANGED proofVars
        /\ LET key == KeyOf(u, upload[u].i) IN
           \/ n \in snUp /\ StoreChunk(n, c, key) /\ Posted(u, c, <<n>>) /\ UNCHANGED faults
           \/ n \in snUp /\ Fault /\ StoreChunk(n, c, key) /\ PostLost(u, c)
           \/ n \in snUp /\ Fault /\ CrashInStore(n, c, key) /\ PostLost(u, c)
           \/ n \notin snUp /\ PostLost(u, c) /\ UNCHANGED <<nodeVars, faults>>
  BY DEF PostChunk
<1> DEFINE key == KeyOf(u, upload[u].i)
<1>2. key \in Uploads \X Nat /\ key # NoKey
  <2>1. upload[u].i \in Nat \ {0} /\ Plain[u] \in Seq(Chunks)
    BY StorageAssumption DEF StorageInv, StorageTypes, UploadShape
  <2>2. upload[u].i \in DOMAIN Plain[u]
    BY <1>1, <2>1 DEF Posting
  <2> QED
    BY <2>2, StoredChunk
<1> HIDE DEF key
<1>3. \/ StoreChunk(n, c, key) /\ Posted(u, c, <<n>>)
      \/ StoreChunk(n, c, key) /\ Posted(u, c, <<>>)
      \/ CrashInStore(n, c, key) /\ Posted(u, c, <<>>)
      \/ UNCHANGED nodeVars /\ Posted(u, c, <<>>)
  BY <1>1 DEF key, PostLost
<1>4. <<>> \in Seq(StoreNode) /\ <<n>> \in Seq(StoreNode)
  OBVIOUS
<1> QED
  BY <1>1, <1>2, <1>3, <1>4

LEMMA StorageStep == StorageInv /\ [StorageNext]_storageVars => StorageInv'
<1> SUFFICES ASSUME StorageInv, [StorageNext]_storageVars PROVE StorageInv'
  OBVIOUS
<1>0. StorageTypes /\ IndexSaved /\ IndexHeld /\ EarnedWasPaid
  BY DEF StorageInv
<1>1. CASE UNCHANGED storageVars
  BY <1>0, <1>1 DEF storageVars, nodeVars, proofVars, StorageInv, StorageTypes, IndexSaved, SavedIndex, IndexHeld, EarnedWasPaid
<1>2. ASSUME NEW u \in Uploads, BeginUpload(u) \/ NextChunk(u) \/ FinishUpload(u) PROVE StorageInv'
  <2>1. /\ DOMAIN upload' = Uploads /\ \A v \in Uploads : UploadShape(upload'[v], v)
        /\ \A v \in Uploads : upload'[v].map = upload[v].map
        /\ UNCHANGED <<nodeVars, proofVars>>
    BY <1>2, UploadMoves
  <2> QED
    BY <1>0, <2>1 DEF nodeVars, proofVars, StorageInv, StorageTypes, IndexSaved, SavedIndex, IndexHeld, EarnedWasPaid
<1>3. ASSUME NEW u \in Uploads, PostChunk(u) PROVE StorageInv'
  <2>1. PICK n \in StoreNode, c \in Chunks, key \in Uploads \X Nat, placed \in Seq(StoreNode) :
           /\ key # NoKey /\ Posting(u, n, c) /\ Posted(u, c, placed) /\ UNCHANGED proofVars
           /\ \/ StoreChunk(n, c, key) /\ placed \in {<<>>, <<n>>}
              \/ CrashInStore(n, c, key) /\ placed = <<>>
              \/ UNCHANGED nodeVars /\ placed = <<>>
    BY <1>3, PostChunkIs
  <2>2. placed \in {<<>>, <<n>>}
    BY <2>1
  <2>3. /\ DOMAIN upload' = Uploads /\ \A v \in Uploads : UploadShape(upload'[v], v)
        /\ \A v \in Uploads : \A d \in Range(Plain[v]) :
             Range(upload'[v].map[d]) \subseteq
               Range(upload[v].map[d]) \cup (IF v = u /\ d = c THEN Range(placed) ELSE {})
    <3>1. Posting(u, n, c) /\ Posted(u, c, placed)
      BY <2>1
    <3>2. MapsGrow(u, c, Range(placed))
      BY <2>2, <3>1, PostedShape
    <3> QED
      BY <3>2 DEF MapsGrow
  <2>4. Range(<<>>) = {} /\ Range(<<n>>) = {n}
    BY DEF Range
  <2>5. EarnedWasPaid' /\ UNCHANGED <<proofTasks, snEarned, snPaid>>
    BY <1>0, <2>1 DEF EarnedWasPaid, proofVars
  <2>6. CASE StoreChunk(n, c, key)
    <3>1. /\ snUp' = snUp /\ (removed' = removed \/ removed' = removed \ {<<n, c>>})
          /\ snDisk' \in [StoreNode -> [Chunks -> (Uploads \X Nat) \cup {NoKey}]]
          /\ snIndex' \in [StoreNode -> SUBSET Chunks] /\ \A m \in StoreNode : IsFiniteSet(snIndex'[m])
          /\ snBytes' \in [StoreNode -> Nat]
          /\ IndexSaved'
          /\ \A m \in StoreNode : snIndex[m] \subseteq snIndex'[m]
          /\ c \in snIndex'[n]
          /\ \A m \in StoreNode : \A d \in snIndex'[m] : <<m, d>> \notin removed' => snDisk'[m][d] # NoKey
      BY <2>1, <2>6, StoreChunkStep
    <3>2. StorageTypes'
      BY <1>0, <2>3, <2>5, <3>1 DEF StorageTypes
    <3>3. ASSUME NEW v \in Uploads, NEW d \in Range(Plain[v]), NEW m \in Range(upload'[v].map[d]),
                 <<m, d>> \notin removed'
          PROVE  d \in snIndex'[m]
      <4>1. CASE m \in Range(upload[v].map[d])
        <5>1. m \in StoreNode
          <6>1. upload[v].map[d] \in Seq(StoreNode)
            BY <1>0 DEF StorageTypes, UploadShape
          <6> QED
            BY <6>1, <4>1 DEF Range
        <5>2. CASE <<m, d>> \in removed
          <6>1. m = n /\ d = c
            BY <3>1, <3>3, <5>2
          <6> QED
            BY <3>1, <6>1
        <5>3. CASE <<m, d>> \notin removed
          BY <1>0, <3>1, <4>1, <5>1, <5>3 DEF IndexHeld
        <5> QED
          BY <5>2, <5>3
      <4>2. CASE m \notin Range(upload[v].map[d])
        <5>1. d = c /\ m \in Range(placed)
          BY <2>3, <3>3, <4>2
        <5> QED
          BY <5>1, <2>2, <2>4, <3>1
      <4> QED
        BY <4>1, <4>2
    <3>4. IndexHeld'
      BY <3>1, <3>3 DEF IndexHeld
    <3> QED
      BY <2>5, <3>1, <3>2, <3>4 DEF StorageInv
  <2>7. CASE (CrashInStore(n, c, key) \/ UNCHANGED nodeVars) /\ placed = <<>>
    <3>1. /\ snUp' \subseteq StoreNode
          /\ snDisk' \in [StoreNode -> [Chunks -> (Uploads \X Nat) \cup {NoKey}]]
          /\ UNCHANGED <<snIndex, snBytes, removed>> /\ IndexSaved'
          /\ \A m \in StoreNode : \A d \in snIndex[m] : snDisk'[m][d] = snDisk[m][d]
      <4>1. CASE CrashInStore(n, c, key)
        BY <2>1, <4>1, CrashInStoreStep
      <4>2. CASE UNCHANGED nodeVars
        BY <1>0, <4>2 DEF nodeVars, StorageTypes, IndexSaved, SavedIndex
      <4> QED
        BY <2>7, <4>1, <4>2
    <3>2. \A v \in Uploads : \A d \in Range(Plain[v]) : Range(upload'[v].map[d]) \subseteq Range(upload[v].map[d])
      BY <2>3, <2>4, <2>7
    <3>3. StorageTypes'
      BY <1>0, <2>3, <2>5, <3>1 DEF StorageTypes
    <3>4. IndexHeld'
      <4>1. \A m \in StoreNode : \A d \in snIndex'[m] : <<m, d>> \notin removed' => snDisk'[m][d] # NoKey
        BY <1>0, <3>1 DEF IndexHeld
      <4>2. \A v \in Uploads : \A d \in Range(Plain[v]) : \A m \in Range(upload'[v].map[d]) :
              <<m, d>> \notin removed' => d \in snIndex'[m]
        BY <1>0, <3>1, <3>2 DEF IndexHeld
      <4> QED
        BY <4>1, <4>2 DEF IndexHeld
    <3> QED
      BY <2>5, <3>1, <3>3, <3>4 DEF StorageInv
  <2> QED
    BY <2>1, <2>6, <2>7
<1>4. ASSUME NEW n \in StoreNode, StopStorage(n) PROVE StorageInv'
  BY <1>0, <1>4 DEF StopStorage, proofVars, StorageInv, StorageTypes, IndexSaved, SavedIndex, IndexHeld, EarnedWasPaid
<1>5. ASSUME NEW n \in StoreNode, StartStorage(n) PROVE StorageInv'
  <2>1. snIndex' = snIndex /\ snBytes' = snBytes
    BY <1>0, <1>5 DEF StartStorage, StorageTypes, IndexSaved, SavedIndex
  <2>2. UNCHANGED <<snDisk, snSaved, removed, upload, snPaid>> /\ snUp' = snUp \cup {n} /\ snSaved[n] # NoKey
    BY <1>5 DEF StartStorage
  <2>3. proofTasks' \in [StoreNode -> Nat] /\ snEarned' \in [StoreNode -> Nat] /\ EarnedWasPaid'
    BY <1>0, <1>5 DEF StartStorage, StorageTypes, EarnedWasPaid
  <2> QED
    BY <1>0, <2>1, <2>2, <2>3 DEF StorageInv, StorageTypes, IndexSaved, SavedIndex, IndexHeld
<1>6. ASSUME NEW n \in StoreNode, StorageProofSent(n) PROVE StorageInv'
  <2>1. UNCHANGED <<nodeVars, upload>>
    BY <1>6 DEF StorageProofSent
  <2>2. /\ proofTasks' \in [StoreNode -> Nat] /\ snEarned' \in [StoreNode -> Nat]
        /\ snPaid' \in [StoreNode -> Nat] /\ EarnedWasPaid'
    <3>1. proofTasks[n] \in Nat /\ proofTasks[n] > 0 /\ proofTasks' = [proofTasks EXCEPT ![n] = @ - 1]
      BY <1>0, <1>6 DEF StorageProofSent, SubmitStorageProof, StorageTypes
    <3>2. proofTasks' \in [StoreNode -> Nat]
      BY <1>0, <3>1 DEF StorageTypes
    <3>3. \/ snPaid' = [snPaid EXCEPT ![n] = @ + 1] /\ snEarned' = [snEarned EXCEPT ![n] = @ + 1]
          \/ snPaid' = [snPaid EXCEPT ![n] = @ + 1] /\ snEarned' = snEarned
          \/ snPaid' = snPaid /\ snEarned' = snEarned
      BY <1>6 DEF StorageProofSent, SubmitStorageProof
    <3>4. snEarned' \in [StoreNode -> Nat] /\ snPaid' \in [StoreNode -> Nat] /\ EarnedWasPaid'
      <4>1. snEarned \in [StoreNode -> Nat] /\ snPaid \in [StoreNode -> Nat]
        BY <1>0 DEF StorageTypes
      <4>2. \A m \in StoreNode : snEarned[m] <= snPaid[m]
        BY <1>0 DEF EarnedWasPaid
      <4>3. CASE snPaid' = [snPaid EXCEPT ![n] = @ + 1] /\ snEarned' = [snEarned EXCEPT ![n] = @ + 1]
        BY <4>1, <4>2, <4>3 DEF EarnedWasPaid
      <4>4. CASE snPaid' = [snPaid EXCEPT ![n] = @ + 1] /\ snEarned' = snEarned
        BY <4>1, <4>2, <4>4 DEF EarnedWasPaid
      <4>5. CASE snPaid' = snPaid /\ snEarned' = snEarned
        BY <4>1, <4>2, <4>5 DEF EarnedWasPaid
      <4> QED
        BY <3>3, <4>3, <4>4, <4>5
    <3> QED
      BY <3>2, <3>4
  <2> QED
    BY <1>0, <2>1, <2>2 DEF nodeVars, StorageInv, StorageTypes, IndexSaved, SavedIndex, IndexHeld
<1>7. ASSUME NEW n \in StoreNode, NEW c \in Chunks, DeleteChunk(n, c) PROVE StorageInv'
  <2>1. /\ c \in snIndex[n]
        /\ snDisk' = [snDisk EXCEPT ![n][c] = NoKey]
        /\ snBytes' = [snBytes EXCEPT ![n] = BytesAfterDelete(n, c)]
        /\ snIndex' = [snIndex EXCEPT ![n] = @ \ {c}]
        /\ removed' = removed \cup {<<n, c>>}
        /\ snSaved' = [snSaved EXCEPT ![n] = [chunks |-> snIndex'[n], bytes |-> snBytes'[n]]]
        /\ UNCHANGED <<snUp, upload, proofTasks, snEarned, snPaid>>
    BY <1>7 DEF DeleteChunk, SaveIndex, proofVars
  <2>2. /\ ChunkSize[c] \in Nat /\ IsFiniteSet(snIndex[n] \ {c})
        /\ SumFunctionOnSet(ChunkSize, snIndex[n] \ {c}) \in Nat
        /\ SumFunctionOnSet(ChunkSize, snIndex[n]) = ChunkSize[c] + SumFunctionOnSet(ChunkSize, snIndex[n] \ {c})
    <3>1. snIndex[n] \subseteq Chunks /\ IsFiniteSet(snIndex[n])
      BY <1>0 DEF StorageTypes
    <3> QED
      BY <3>1, <2>1, BytesOfIndex
  <2>3. snBytes[n] \in Nat /\ snBytes[n] >= SumFunctionOnSet(ChunkSize, snIndex[n])
    BY <1>0 DEF StorageTypes, IndexSaved
  <2>4. /\ BytesAfterDelete(n, c) \in Nat
        /\ BytesAfterDelete(n, c) >= SumFunctionOnSet(ChunkSize, snIndex[n] \ {c})
    <3> DEFINE r == snBytes[n] - ChunkSize[c]
    <3>1. r \in Nat /\ r >= SumFunctionOnSet(ChunkSize, snIndex[n] \ {c})
      BY <2>2, <2>3
    <3> HIDE DEF r
    <3>2. r \in {0, r} /\ \A y \in {0, r} : r >= y
      BY <3>1
    <3>3. \A x \in {0, r} : (\A y \in {0, r} : x >= y) => x = r
      BY <3>1
    <3>4. Max({0, r}) = r
      BY <3>2, <3>3 DEF Max
    <3>5. BytesAfterDelete(n, c) = IF snDisk[n][c] # NoKey THEN r ELSE snBytes[n]
      BY <3>4 DEF BytesAfterDelete, r
    <3> QED
      BY <3>1, <3>5, <2>2, <2>3
  <2>5. StorageTypes'
    <3>1. snDisk' \in [StoreNode -> [Chunks -> (Uploads \X Nat) \cup {NoKey}]]
      BY <1>0, <2>1 DEF StorageTypes
    <3>2. /\ snIndex' \in [StoreNode -> SUBSET Chunks] /\ \A m \in StoreNode : IsFiniteSet(snIndex'[m])
          /\ snBytes' \in [StoreNode -> Nat]
      BY <1>0, <2>1, <2>2, <2>4 DEF StorageTypes
    <3> QED
      BY <1>0, <2>1, <3>1, <3>2 DEF StorageTypes
  <2>6. IndexSaved'
    <3>1. DOMAIN snSaved' = StoreNode /\ snSaved'[n] = SavedIndex(n)'
      BY <1>0, <2>1 DEF IndexSaved, SavedIndex
    <3>2. snIndex'[n] = snIndex[n] \ {c} /\ snBytes'[n] = BytesAfterDelete(n, c)
      BY <1>0, <2>1 DEF StorageTypes
    <3>3. \A m \in StoreNode \ {n} : snIndex'[m] = snIndex[m] /\ snBytes'[m] = snBytes[m] /\ snSaved'[m] = snSaved[m]
      BY <1>0, <2>1 DEF StorageTypes, IndexSaved
    <3>4. \A m \in StoreNode : snBytes'[m] >= SumFunctionOnSet(ChunkSize, snIndex'[m])
      BY <1>0, <2>4, <3>2, <3>3 DEF IndexSaved
    <3>5. \A m \in StoreNode : snSaved'[m] = SavedIndex(m)' \/ (snSaved'[m] = NoKey /\ m \notin snUp')
      BY <1>0, <2>1, <3>1, <3>3 DEF IndexSaved, SavedIndex
    <3> QED
      BY <3>1, <3>4, <3>5 DEF IndexSaved
  <2>7. IndexHeld'
    <3>1. ASSUME NEW m \in StoreNode, NEW d \in Chunks, <<m, d>> \notin removed'
          PROVE  (d \in snIndex'[m] <=> d \in snIndex[m]) /\ snDisk'[m][d] = snDisk[m][d] /\ <<m, d>> \notin removed
      <4>1. m # n \/ d # c
        BY <3>1, <2>1
      <4> QED
        BY <1>0, <2>1, <3>1, <4>1 DEF StorageTypes
    <3>2. \A m \in StoreNode : snIndex'[m] \subseteq Chunks
      BY <2>5 DEF StorageTypes
    <3>3. \A v \in Uploads : \A d \in Range(Plain[v]) : \A m \in Range(upload[v].map[d]) : m \in StoreNode /\ d \in Chunks
      <4> TAKE v \in Uploads
      <4> TAKE d \in Range(Plain[v])
      <4>1. upload[v].map[d] \in Seq(StoreNode)
        BY <1>0 DEF StorageTypes, UploadShape
      <4> QED
        BY <4>1, UploadedChunk DEF Range
    <3> QED
      BY <1>0, <2>1, <3>1, <3>2, <3>3 DEF IndexHeld
  <2> QED
    BY <1>0, <2>1, <2>5, <2>6, <2>7 DEF StorageInv, EarnedWasPaid
<1>8. ASSUME NEW n \in StoreNode, NEW c \in Chunks, CrashInDelete(n, c) PROVE StorageInv'
  <2>1. /\ snDisk' = [snDisk EXCEPT ![n][c] = NoKey] /\ removed' = removed \cup {<<n, c>>}
        /\ CrashInSave(n)
        /\ UNCHANGED <<snIndex, snBytes, upload, proofTasks, snEarned, snPaid>>
    BY <1>8 DEF CrashInDelete, proofVars
  <2>4. IndexSaved' /\ snUp' \subseteq StoreNode
    BY <1>0, <2>1, CrashInSaveStep DEF StorageTypes
  <2>2. StorageTypes'
    <3>1. snDisk' \in [StoreNode -> [Chunks -> (Uploads \X Nat) \cup {NoKey}]]
      BY <1>0, <2>1 DEF StorageTypes
    <3> QED
      BY <1>0, <2>1, <2>4, <3>1 DEF StorageTypes
  <2>3. IndexHeld'
    <3>1. ASSUME NEW m \in StoreNode, NEW d \in snIndex[m], <<m, d>> \notin removed'
          PROVE  snDisk'[m][d] = snDisk[m][d] /\ <<m, d>> \notin removed
      BY <1>0, <2>1, <3>1 DEF StorageTypes
    <3> QED
      BY <1>0, <2>1, <3>1 DEF IndexHeld
  <2> QED
    BY <1>0, <2>1, <2>2, <2>3, <2>4 DEF StorageInv, EarnedWasPaid
<1>9. ASSUME NEW n \in StoreNode, NEW c \in Chunks, HandleChallenge(n, c) PROVE StorageInv'
  <2>1. proofTasks' \in [StoreNode -> Nat] /\ UNCHANGED <<nodeVars, upload, snEarned, snPaid>>
    BY <1>0, <1>9 DEF HandleChallenge, StorageTypes
  <2> QED
    BY <1>0, <2>1 DEF nodeVars, StorageInv, StorageTypes, IndexSaved, SavedIndex, IndexHeld, EarnedWasPaid
<1> QED
  BY <1>1, <1>2, <1>3, <1>4, <1>5, <1>6, <1>7, <1>8, <1>9 DEF StorageNext

LEMMA StorageAlways == StorageSpec => []StorageInv
  BY StorageStart, StorageStep, PTL DEF StorageSpec

\* For any nodes, uploads and number of faults a node's bytes cover its index, a chunk that
\* was acknowledged survives crashes unless its file is deleted or a crash inside the write
\* of the index tears that, and nothing is earned that was not paid.
THEOREM StorageIsConsistent == StorageSpec => []StorageConsistent
<1>1. StorageInv => StorageConsistent
  <2> SUFFICES ASSUME StorageInv PROVE StorageConsistent
    OBVIOUS
  <2>0. StorageTypes /\ IndexSaved /\ IndexHeld /\ EarnedWasPaid
    BY DEF StorageInv
  <2>1. \A u \in Uploads : \A c \in Range(Plain[u]) :
          Range(upload[u].map[c]) \subseteq StoreNode /\ Len(upload[u].map[c]) <= Replication
    <3> TAKE u \in Uploads
    <3> TAKE c \in Range(Plain[u])
    <3>1. upload[u].map[c] \in Seq(StoreNode) /\ Len(upload[u].map[c]) <= Replication
      BY <2>0 DEF StorageTypes, UploadShape
    <3> QED
      BY <3>1 DEF Range
  <2>2. StorageTypeOK
    <3>1. \A n \in StoreNode : \A c \in Chunks : snDisk[n][c] = NoKey \/ snDisk[n][c] \in Uploads \X Nat
      BY <2>0 DEF StorageTypes
    <3> QED
      BY <2>0, <2>1, <3>1 DEF StorageTypeOK, StorageTypes, IndexSaved
  <2>3. AcknowledgedSurvives
    <3> SUFFICES ASSUME NEW u \in Uploads, NEW c \in Range(Plain[u]), NEW n \in Range(upload[u].map[c]),
                        <<n, c>> \notin removed
                 PROVE  /\ snDisk[n][c] # NoKey
                        /\ (snSaved[n] = NoKey /\ n \notin snUp) \/ c \in snSaved[n].chunks
      BY DEF AcknowledgedSurvives
    <3>1. n \in StoreNode
      BY <2>1
    <3>2. c \in snIndex[n]
      BY <2>0 DEF IndexHeld
    <3>3. (snSaved[n] = NoKey /\ n \notin snUp) \/ snSaved[n].chunks = snIndex[n]
      BY <2>0, <3>1 DEF IndexSaved, SavedIndex
    <3> QED
      BY <2>0, <3>1, <3>2, <3>3 DEF IndexHeld
  <2> QED
    BY <2>0, <2>2, <2>3 DEF StorageConsistent
<1> QED
  BY <1>1, StorageAlways, PTL

\* A file in the index is deleted or kept, never replaced.
LEMMA FilesKept ==
  ASSUME StorageInv, [StorageNext]_storageVars, NEW n \in StoreNode, NEW c \in Chunks,
         c \in snIndex[n], snDisk'[n][c] # NoKey
  PROVE  snDisk'[n][c] = snDisk[n][c]
<1>0. StorageTypes /\ IndexSaved /\ IndexHeld
  BY DEF StorageInv
<1>1. CASE UNCHANGED snDisk
  BY <1>1
<1>2. ASSUME NEW u \in Uploads, PostChunk(u) PROVE snDisk'[n][c] = snDisk[n][c]
  <2>1. PICK m \in StoreNode, d \in Chunks, key \in Uploads \X Nat :
           key # NoKey /\ (StoreChunk(m, d, key) \/ CrashInStore(m, d, key) \/ UNCHANGED nodeVars)
    BY <1>2, PostChunkIs
  <2>2. CASE StoreChunk(m, d, key)
    <3>1. UNCHANGED snDisk \/ (d \notin snIndex[m] /\ snDisk' = [snDisk EXCEPT ![m][d] = key])
      BY <2>2 DEF StoreChunk, nodeVars
    <3> QED
      BY <3>1, <1>0 DEF StorageTypes
  <2>3. CASE CrashInStore(m, d, key)
    BY <2>1, <2>3, CrashInStoreStep
  <2> QED
    BY <2>1, <2>2, <2>3 DEF nodeVars
<1>3. ASSUME NEW m \in StoreNode, NEW d \in Chunks, DeleteChunk(m, d) \/ CrashInDelete(m, d)
      PROVE  snDisk'[n][c] = snDisk[n][c]
  <2>1. snDisk' = [snDisk EXCEPT ![m][d] = NoKey]
    BY <1>3 DEF DeleteChunk, CrashInDelete
  <2> QED
    BY <1>0, <2>1 DEF StorageTypes
<1>4. CASE UNCHANGED storageVars
  BY <1>1, <1>4 DEF storageVars, nodeVars
<1>5. ASSUME NEW u \in Uploads, BeginUpload(u) \/ NextChunk(u) \/ FinishUpload(u) PROVE UNCHANGED snDisk
  BY <1>5 DEF BeginUpload, NextChunk, FinishUpload, nodeVars
<1>6. ASSUME NEW m \in StoreNode, StopStorage(m) \/ StartStorage(m) \/ StorageProofSent(m) PROVE UNCHANGED snDisk
  BY <1>6 DEF StopStorage, StartStorage, StorageProofSent, nodeVars
<1>7. ASSUME NEW m \in StoreNode, NEW d \in Chunks, HandleChallenge(m, d) PROVE UNCHANGED snDisk
  BY <1>7 DEF HandleChallenge, nodeVars
<1> QED
  BY <1>1, <1>2, <1>3, <1>4, <1>5, <1>6, <1>7 DEF StorageNext

\* The client has done with an upload: its node map stays.
LEMMA DoneStays ==
  ASSUME StorageInv, [StorageNext]_storageVars, NEW u \in Uploads, upload[u].at = "done"
  PROVE  upload'[u] = upload[u]
<1>0. DOMAIN upload = Uploads
  BY DEF StorageInv, StorageTypes
<1>1. CASE UNCHANGED upload
  BY <1>1
<1>2. ASSUME NEW v \in Uploads, BeginUpload(v) \/ NextChunk(v) \/ FinishUpload(v) PROVE upload'[u] = upload[u]
  BY <1>0, <1>2 DEF BeginUpload, NextChunk, FinishUpload
<1>3. ASSUME NEW v \in Uploads, PostChunk(v) PROVE upload'[u] = upload[u]
  <2>1. PICK n \in StoreNode, c \in Chunks, placed \in Seq(StoreNode) : Posting(v, n, c) /\ Posted(v, c, placed)
    BY <1>3, PostChunkIs
  <2>2. v # u
    BY <2>1 DEF Posting
  <2> QED
    BY <1>0, <2>1, <2>2 DEF Posted
<1>4. CASE UNCHANGED storageVars
  BY <1>1, <1>4 DEF storageVars
<1>5. ASSUME NEW n \in StoreNode, StopStorage(n) \/ StartStorage(n) \/ StorageProofSent(n) PROVE UNCHANGED upload
  BY <1>5 DEF StopStorage, StartStorage, StorageProofSent
<1>6. ASSUME NEW n \in StoreNode, NEW c \in Chunks, DeleteChunk(n, c) \/ CrashInDelete(n, c) \/ HandleChallenge(n, c)
      PROVE  UNCHANGED upload
  BY <1>6 DEF DeleteChunk, CrashInDelete, HandleChallenge
<1> QED
  BY <1>1, <1>2, <1>3, <1>4, <1>5, <1>6 DEF StorageNext

\* For any nodes, uploads and faults: as long as the same nodes hold its chunks, an upload
\* that can be restored stays so.
THEOREM LaterUploadsDoNoHarm == StorageSpec => LaterUploadsHarmless
<1> DEFINE Harmless == \A u \in Uploads :
              /\ upload[u].at = "done" /\ Restores(u)
              /\ \A c \in Range(Plain[u]) : Holders(u, c)' = Holders(u, c)
              => Restores(u)'
<1>1. StorageInv /\ [StorageNext]_storageVars => Harmless
  <2> SUFFICES ASSUME StorageInv, [StorageNext]_storageVars, NEW u \in Uploads,
                      upload[u].at = "done", Restores(u),
                      \A c \in Range(Plain[u]) : Holders(u, c)' = Holders(u, c),
                      NEW i \in DOMAIN Plain[u]
               PROVE  FetchChunk(Plain[u][i], upload[u].map[Plain[u][i]])' = KeyOf(u, i)
    BY DEF Restores
  <2> DEFINE c == Plain[u][i]
             ns == upload[u].map[c]
             now(n) == IF c \in snIndex[n] THEN snDisk[n][c] ELSE NoKey
             next(n) == IF c \in snIndex'[n] THEN snDisk'[n][c] ELSE NoKey
             have == {j \in DOMAIN ns : ns[j] \in snUp /\ now(ns[j]) # NoKey}
             later == {j \in DOMAIN ns : ns[j] \in snUp' /\ next(ns[j]) # NoKey}
  <2>1. /\ c \in Chunks /\ c \in Range(Plain[u]) /\ KeyOf(u, i) # NoKey
        /\ ns \in Seq(StoreNode)
    BY StoredChunk DEF StorageInv, StorageTypes, UploadShape
  <2>2. upload'[u] = upload[u]
    BY DoneStays
  <2>3. FetchChunk(c, ns) = KeyOf(u, i)
    BY DEF Restores
  <2>4. FetchChunk(c, ns) = IF have = {} THEN NoKey ELSE now(ns[Min(have)])
    BY DEF FetchChunk, RetrieveChunk
  <2>5. FetchChunk(c, upload[u].map[c])' = IF later = {} THEN NoKey ELSE next(ns[Min(later)])
    BY <2>2 DEF FetchChunk, RetrieveChunk
  <2>6. later = have
    <3>1. Holders(u, c)' = Holders(u, c)
      BY <2>1
    <3>2. Holders(u, c) = {n \in Range(ns) : n \in snUp /\ now(n) # NoKey}
      BY DEF Holders, RetrieveChunk
    <3>3. Holders(u, c)' = {n \in Range(ns) : n \in snUp' /\ next(n) # NoKey}
      BY <2>2 DEF Holders, RetrieveChunk
    <3>4. \A j \in DOMAIN ns : ns[j] \in Range(ns)
      BY DEF Range
    <3>5. {n \in Range(ns) : n \in snUp /\ now(n) # NoKey} = {n \in Range(ns) : n \in snUp' /\ next(n) # NoKey}
      BY <3>1, <3>2, <3>3
    <3> HIDE DEF ns, c, now, next
    <3> QED
      BY <3>4, <3>5
  <2>7. have # {}
    BY <2>1, <2>3, <2>4
  <2>8. Min(have) \in have
    <3>1. have \subseteq Nat
      BY <2>1
    <3> HIDE DEF have
    <3>2. \E x \in have : \A y \in have : x <= y
      BY <3>1, <2>7, Least
    <3> QED
      BY <3>2 DEF Min
  <2> DEFINE n == ns[Min(have)]
  <2>9. n \in StoreNode /\ now(n) # NoKey /\ next(n) # NoKey
    <3>1. Min(have) \in DOMAIN ns /\ now(n) # NoKey
      BY <2>8
    <3>2. Min(have) \in later
      BY <2>6, <2>8
    <3>3. next(n) # NoKey
      BY <3>2
    <3> HIDE DEF have, ns
    <3> QED
      BY <2>1, <3>1, <3>3
  <2>10. c \in snIndex[n] /\ snDisk'[n][c] # NoKey /\ now(n) = snDisk[n][c] /\ next(n) = snDisk'[n][c]
    <3> HIDE DEF n, c
    <3> QED
      BY <2>9
  <2>11. snDisk'[n][c] = snDisk[n][c]
    <3> HIDE DEF n, c
    <3> QED
      BY <2>1, <2>9, <2>10, FilesKept
  <2> HIDE DEF have, later, now, next
  <2> QED
    BY <2>3, <2>4, <2>5, <2>6, <2>7, <2>10, <2>11
<1> QED
  BY <1>1, StorageAlways, PTL DEF StorageSpec, LaterUploadsHarmless

(* ----------------------------------- DNS --------------------------------- *)

\* A record with a value of its kind: an alias is a name.
GoodRecord(r) == r \in DnsRecord /\ (r.type = "cname" => r.value \in DnsNames)

\* What the memory holds, a copy of it, or a whole file.
WellFormed(s) ==
    /\ s = [entries |-> s.entries, records |-> s.records, objs |-> s.objs, owners |-> s.owners]
    /\ s.objs \in Seq(DnsRecord) /\ \A i \in DOMAIN s.objs : GoodRecord(s.objs[i])
    /\ s.entries \subseteq DnsNames /\ s.records \in [DnsNames -> SUBSET DOMAIN s.objs]
    /\ s.owners \in [DnsNames -> DnsOwners \cup {Nobody}]
    /\ \A n \in DnsNames : s.records[n] # {} => n \in s.entries

DnsTypes ==
    /\ dnsObj \in Seq(DnsRecord)
    /\ \A i \in DOMAIN dnsObj : GoodRecord(dnsObj[i])
    /\ dnsEntries \subseteq DnsNames /\ dnsRecords \in [DnsNames -> SUBSET DOMAIN dnsObj]
    /\ dnsOwners \in [DnsNames -> DnsOwners \cup {Nobody}]
    /\ \A n \in DnsNames : dnsRecords[n] # {} => n \in dnsEntries
    /\ dnsExpired \subseteq DOMAIN dnsObj
    /\ dnsCache \in [Keys -> {Nobody} \cup SUBSET DOMAIN dnsObj]
    /\ requests \in 0..MaxRequests /\ dnsUp \in BOOLEAN /\ dnsRaced \in BOOLEAN

\* A request between its checks and its save; ids are the objects that its list may keep.
DnsAsked(ids) ==
    [op : {"register", "add", "transfer"}, name : DnsNames, to : DnsOwners,
     at : {"checked", "tested", "listed", "set"}, record : {r \in DnsRecord : GoodRecord(r)},
     new : BOOLEAN, kept : SUBSET ids, alone : BOOLEAN]

DnsSaving == [at : {"changed"}, alone : BOOLEAN]
DnsWriting(c) == c \in [at : {"open"}, alone : BOOLEAN, copy : {c.copy}] /\ WellFormed(c.copy)

\* A registration that has set its list finds it.
DnsListed(c, names) == c.at = "listed" \/ (c.at = "set" /\ c.op = "register") => c.name \in names

DnsCallOK(c, ids, names) ==
    \/ c = DnsIdle
    \/ c \in DnsAsked(ids) /\ DnsListed(c, names)
    \/ c \in DnsSaving
    \/ DnsWriting(c)

DnsCalls == DOMAIN dnsCall = DnsThreads /\ \A t \in DnsThreads : DnsCallOK(dnsCall[t], DOMAIN dnsObj, dnsEntries)

\* A request that changes the registry alone does so alone.
DnsCompany ==
    \A t \in DnsThreads : \A u \in DnsThreads \ {t} : Changing(t) /\ dnsCall[t].alone => ~Changing(u)

\* And what it is going to write is what the memory holds.
DnsCopies ==
    \A t \in DnsThreads : dnsCall[t].at = "open" /\ dnsCall[t].alone => dnsCall[t].copy = Memory

DnsFile ==
    /\ dnsSaved # TornFile => WellFormed(dnsSaved)
    /\ RestartKeepsAnswers

DnsInv == DnsTypes /\ DnsCalls /\ DnsCompany /\ DnsCopies /\ DnsFile

LEMMA DnsStart == DnsInit => DnsInv
<1> SUFFICES ASSUME DnsInit PROVE DnsInv
  OBVIOUS
<1>1. <<>> \in Seq(DnsRecord) /\ Len(<<>>) = 0 /\ DOMAIN <<>> = {}
  OBVIOUS
<1>2. DnsTypes
  <2>1. dnsObj \in Seq(DnsRecord) /\ DOMAIN dnsObj = {} /\ dnsEntries \subseteq DnsNames /\ dnsExpired \subseteq DOMAIN dnsObj
    BY <1>1 DEF DnsInit
  <2>2. /\ dnsRecords \in [DnsNames -> SUBSET DOMAIN dnsObj] /\ dnsOwners \in [DnsNames -> DnsOwners \cup {Nobody}]
        /\ \A n \in DnsNames : dnsRecords[n] = {}
    BY DEF DnsInit
  <2>3. dnsCache \in [Keys -> {Nobody} \cup SUBSET DOMAIN dnsObj]
    BY DEF DnsInit
  <2>4. requests \in 0..MaxRequests /\ dnsUp \in BOOLEAN /\ dnsRaced \in BOOLEAN
    <3>1. MaxRequests \in Nat
      BY DnsAssumption
    <3>2. requests = 0 /\ dnsUp = TRUE /\ dnsRaced = FALSE
      BY DEF DnsInit
    <3>3. requests \in 0..MaxRequests
      BY <3>1, <3>2
    <3> QED
      BY <3>2, <3>3
  <2> QED
    BY <2>1, <2>2, <2>3, <2>4 DEF DnsTypes
<1>3. WellFormed(dnsSaved) /\ dnsSaved = Memory
  BY <1>1 DEF DnsInit, WellFormed, Memory
<1>4. \A t \in DnsThreads : dnsCall[t] = DnsIdle /\ dnsCall[t].at = "idle" /\ ~ Changing(t)
  BY DEF DnsInit, DnsIdle, Changing
<1>5. DnsCalls /\ DnsCompany /\ DnsCopies
  BY <1>4 DEF DnsInit, DnsCalls, DnsCallOK, DnsCompany, DnsCopies
<1> QED
  BY <1>2, <1>3, <1>5 DEF DnsInv, DnsFile, RestartKeepsAnswers

(* The recursion along aliases. *)

Level(type, g, left) ==
    [n \in DnsNames |->
        LET found == Resolve(n, type)
            alias == Resolve(n, "cname")
        IN  IF left = 0 THEN {}
            ELSE IF found # {} \/ type = "cname" \/ alias = {} THEN found
            ELSE g[left - 1][FirstValue(alias)]]

IsFollow(type, g, k) == g = [left \in 0..k |-> Level(type, g, left)]

LEMMA FollowExists == ASSUME NEW type, NEW k \in Nat PROVE \E g : IsFollow(type, g, k)
<1> DEFINE G == {m \in Nat : \E g : IsFollow(type, g, m)}
<1>1. 0 \in G
  <2> DEFINE g == [left \in 0..0 |-> [n \in DnsNames |-> {}]]
  <2>1. \A left \in 0..0 : Level(type, g, left) = [n \in DnsNames |-> {}]
    BY DEF Level
  <2>2. g = [left \in 0..0 |-> Level(type, g, left)]
    <3> HIDE DEF g
    <3>1. g = [left \in 0..0 |-> [n \in DnsNames |-> {}]]
      BY DEF g
    <3> QED
      BY <2>1, <3>1
  <2> QED
    BY <2>2 DEF IsFollow
<1>2. ASSUME NEW m \in Nat, m \in G PROVE m + 1 \in G
  <2>1. PICK g : IsFollow(type, g, m)
    BY <1>2
  <2> DEFINE h == [left \in 0..(m + 1) |-> Level(type, g, left)]
  <2>2. \A left \in 0..m : h[left] = g[left]
    BY <2>1 DEF IsFollow
  <2>3. \A left \in 0..(m + 1) : Level(type, g, left) = Level(type, h, left)
    <3> TAKE left \in 0..(m + 1)
    <3>1. CASE left = 0
      BY <3>1 DEF Level
    <3>2. CASE left # 0
      <4>1. left - 1 \in 0..m
        BY <3>2
      <4>2. g[left - 1] = h[left - 1]
        BY <4>1, <2>2
      <4> HIDE DEF h
      <4> QED
        BY <4>2 DEF Level
    <3> QED
      BY <3>1, <3>2
  <2>4. h = [left \in 0..(m + 1) |-> Level(type, h, left)]
    <3> HIDE DEF h
    <3>1. h = [left \in 0..(m + 1) |-> Level(type, g, left)]
      BY DEF h
    <3> QED
      BY <2>3, <3>1
  <2>5. IsFollow(type, h, m + 1)
    <3> HIDE DEF h
    <3> QED
      BY <2>4 DEF IsFollow
  <2>6. m + 1 \in Nat
    OBVIOUS
  <2> HIDE DEF h
  <2> QED
    BY <2>5, <2>6
<1>3. k \in G
  <2> HIDE DEF G
  <2> QED
    BY <1>1, <1>2, NatSetInduction
<1> QED
  BY <1>3

LEMMA FollowIs == ASSUME NEW type PROVE IsFollow(type, FollowAliases(type), CnameDepth + 1)
<1>1. FollowAliases(type) = CHOOSE g : IsFollow(type, g, CnameDepth + 1)
  BY DEF FollowAliases, IsFollow, Level
<1>2. \E g : IsFollow(type, g, CnameDepth + 1)
  BY FollowExists, DnsAssumption
<1> QED
  BY <1>1, <1>2

\* One level of the recursion.
LEMMA FollowLevel ==
  ASSUME NEW type, NEW left \in 0..(CnameDepth + 1), NEW n \in DnsNames
  PROVE  FollowAliases(type)[left][n] =
            IF left = 0 THEN {}
            ELSE IF Resolve(n, type) # {} \/ type = "cname" \/ Resolve(n, "cname") = {} THEN Resolve(n, type)
            ELSE FollowAliases(type)[left - 1][FirstValue(Resolve(n, "cname"))]
<1> DEFINE f == FollowAliases(type)
<1>1. f = [l \in 0..(CnameDepth + 1) |-> Level(type, f, l)]
  BY FollowIs DEF IsFollow
<1> HIDE DEF f
<1>2. f[left] = Level(type, f, left)
  BY <1>1
<1>3. f[left][n] = IF left = 0 THEN {}
            ELSE IF Resolve(n, type) # {} \/ type = "cname" \/ Resolve(n, "cname") = {} THEN Resolve(n, type)
            ELSE f[left - 1][FirstValue(Resolve(n, "cname"))]
  BY <1>2 DEF Level
<1> QED
  BY <1>3 DEF f

\* What is found are objects of the registry, and an alias leads to a name.
LEMMA AliasesFound ==
  ASSUME DnsTypes, NEW n \in DnsNames, NEW type
  PROVE  /\ Normal[n] \in DnsNames /\ Normal[Normal[n]] = Normal[n]
         /\ Resolve(n, type) \subseteq DOMAIN dnsObj
         /\ Resolve(Normal[n], type) = Resolve(n, type)
         /\ Resolve(n, "cname") # {} => FirstValue(Resolve(n, "cname")) \in DnsNames
<1>1. Normal[n] \in DnsNames /\ Normal[Normal[n]] = Normal[n]
  BY DnsAssumption
<1>2. Resolve(n, type) \subseteq DOMAIN dnsObj
  BY <1>1 DEF Resolve, OfType, DnsTypes
<1>3. ASSUME Resolve(n, "cname") # {} PROVE FirstValue(Resolve(n, "cname")) \in DnsNames
  <2> DEFINE S == Resolve(n, "cname")
  <2>1. S \subseteq DOMAIN dnsObj /\ \A i \in S : dnsObj[i].type = "cname"
    BY <1>1 DEF Resolve, OfType, DnsTypes
  <2>2. IsFiniteSet(DOMAIN dnsObj) /\ DOMAIN dnsObj \subseteq Nat
    BY RangeFinite DEF DnsTypes
  <2>3. IsFiniteSet(S) /\ S \subseteq Nat
    BY <2>1, <2>2, FS_Subset
  <2> HIDE DEF S
  <2>4. Min(S) \in S
    BY <2>3, <1>3, Extremes DEF S
  <2> QED
    BY <2>1, <2>4 DEF S, FirstValue, DnsTypes, GoodRecord
<1> QED
  BY <1>1, <1>2, <1>3 DEF Resolve

LEMMA FollowType ==
  ASSUME DnsTypes, NEW type, NEW n \in DnsNames
  PROVE  ResolveRecursive(n, type) \subseteq DOMAIN dnsObj
<1> DEFINE G == {k \in Nat : k \in 0..(CnameDepth + 1) =>
                    \A m \in DnsNames : FollowAliases(type)[k][m] \subseteq DOMAIN dnsObj}
<1>1. 0 \in G
  <2>1. 0 \in 0..(CnameDepth + 1)
    BY DnsAssumption
  <2>2. \A m \in DnsNames : FollowAliases(type)[0][m] = {}
    BY <2>1, FollowLevel
  <2> QED
    BY <2>2
<1>2. ASSUME NEW k \in Nat, k \in G PROVE k + 1 \in G
  <2> SUFFICES ASSUME k + 1 \in 0..(CnameDepth + 1), NEW m \in DnsNames
               PROVE  FollowAliases(type)[k + 1][m] \subseteq DOMAIN dnsObj
    OBVIOUS
  <2>1. k \in 0..(CnameDepth + 1) /\ k + 1 # 0 /\ k + 1 - 1 = k
    BY DnsAssumption
  <2>2. \A p \in DnsNames : FollowAliases(type)[k][p] \subseteq DOMAIN dnsObj
    BY <1>2, <2>1
  <2>3. FollowAliases(type)[k + 1][m] =
            IF k + 1 = 0 THEN {}
            ELSE IF Resolve(m, type) # {} \/ type = "cname" \/ Resolve(m, "cname") = {} THEN Resolve(m, type)
            ELSE FollowAliases(type)[k + 1 - 1][FirstValue(Resolve(m, "cname"))]
    BY FollowLevel
  <2>4. Resolve(m, type) \subseteq DOMAIN dnsObj
    BY AliasesFound
  <2>5. Resolve(m, "cname") # {} => FirstValue(Resolve(m, "cname")) \in DnsNames
    BY AliasesFound
  <2> QED
    BY <2>1, <2>2, <2>3, <2>4, <2>5
<1>3. CnameDepth + 1 \in G
  <2>1. CnameDepth + 1 \in Nat
    BY DnsAssumption
  <2> HIDE DEF G
  <2> QED
    BY <1>1, <1>2, <2>1, NatSetInduction
<1>4. CnameDepth + 1 \in 0..(CnameDepth + 1) /\ Normal[n] \in DnsNames
  BY DnsAssumption
<1> QED
  BY <1>3, <1>4 DEF ResolveRecursive

(* Aliases: the end of a chain from n. *)

IsEnd(c, i, n) ==
    /\ c \in AliasChains(i) /\ c[0] = Normal[n]
    /\ \A j \in 0..i : (Resolve(c[j], "address") # {}) <=> (j = i)

\* Following k + 1 levels finds the end of the chain with at most k aliases, if there is one.
EndFound(k, n) ==
    LET found == FollowAliases("address")[k + 1][n] IN
    \/ found = {} /\ \A i \in 0..k : \A c \in AliasChains(i) : ~ IsEnd(c, i, n)
    \/ \E i \in 0..k : \E c \in AliasChains(i) : IsEnd(c, i, n) /\ found = Resolve(c[i], "address")

\* A name that has an address record is its own end.
LEMMA DirectEnd ==
  ASSUME DnsTypes, NEW k \in 0..CnameDepth, NEW n \in DnsNames, Resolve(n, "address") # {}
  PROVE  EndFound(k, n)
<1> DEFINE c == [j \in 0..0 |-> Normal[n]]
<1>1. Normal[n] \in DnsNames /\ Resolve(Normal[n], "address") = Resolve(n, "address")
  BY AliasesFound
<1>2. c \in AliasChains(0) /\ c[0] = Normal[n]
  BY <1>1 DEF AliasChains
<1>3. IsEnd(c, 0, n)
  BY <1>1, <1>2 DEF IsEnd
<1>4. FollowAliases("address")[k + 1][n] = Resolve(n, "address")
  <2>1. k + 1 \in 0..(CnameDepth + 1) /\ k + 1 # 0
    BY DnsAssumption
  <2> QED
    BY <2>1, FollowLevel
<1>5. 0 \in 0..k
  BY DnsAssumption
<1> HIDE DEF c
<1> QED
  BY <1>1, <1>2, <1>3, <1>4, <1>5 DEF EndFound

\* A chain from a name without an address record goes on with its alias.
LEMMA ChainGoesOn ==
  ASSUME DnsTypes, NEW n \in DnsNames, Resolve(n, "address") = {}, NEW i \in Nat,
         NEW c \in AliasChains(i), IsEnd(c, i, n)
  PROVE  /\ i # 0 /\ Resolve(n, "cname") # {}
         /\ \E d \in AliasChains(i - 1) : /\ IsEnd(d, i - 1, FirstValue(Resolve(n, "cname")))
                                          /\ d[i - 1] = c[i]
<1> DEFINE m == FirstValue(Resolve(n, "cname"))
           d == [j \in 0..(i - 1) |-> c[j + 1]]
<1>1. /\ Resolve(Normal[n], "address") = Resolve(n, "address")
      /\ Resolve(Normal[n], "cname") = Resolve(n, "cname")
  BY AliasesFound
<1>2. /\ c \in [0..i -> DnsNames] /\ c[0] = Normal[n]
      /\ \A j \in 1..i : Alias(c[j - 1]) = c[j]
      /\ \A j \in 0..i : (Resolve(c[j], "address") # {}) <=> (j = i)
  BY DEF IsEnd, AliasChains
<1>3. i # 0
  <2>1. 0 \in 0..i
    OBVIOUS
  <2> QED
    BY <1>1, <1>2, <2>1
<1>4. 1 \in 1..i /\ Alias(c[0]) = c[1] /\ c[1] \in DnsNames
  <2>1. 1 \in 1..i /\ 1 \in 0..i /\ 1 - 1 = 0
    BY <1>3
  <2> QED
    BY <1>2, <2>1
<1>5. Resolve(n, "cname") # {} /\ c[1] = Normal[m]
  BY <1>1, <1>2, <1>4, DnsAssumption DEF Alias
<1>6. d \in [0..(i - 1) -> DnsNames]
  BY <1>2
<1>7. \A j \in 1..(i - 1) : Alias(d[j - 1]) = d[j]
  <2> TAKE j \in 1..(i - 1)
  <2>1. j + 1 \in 1..i /\ j - 1 \in 0..(i - 1) /\ j \in 0..(i - 1) /\ j + 1 - 1 = j /\ j - 1 + 1 = j
    OBVIOUS
  <2>2. d[j - 1] = c[j] /\ d[j] = c[j + 1]
    BY <2>1
  <2>3. Alias(c[j + 1 - 1]) = c[j + 1]
    BY <1>2, <2>1
  <2> QED
    BY <2>1, <2>2, <2>3
<1>8. \A j \in 0..(i - 1) : (Resolve(d[j], "address") # {}) <=> (j = i - 1)
  <2> TAKE j \in 0..(i - 1)
  <2>1. j + 1 \in 0..i /\ d[j] = c[j + 1] /\ (j + 1 = i <=> j = i - 1)
    OBVIOUS
  <2> HIDE DEF d
  <2> QED
    BY <1>2, <2>1
<1>9. d[0] = Normal[m] /\ d[i - 1] = c[i]
  BY <1>3, <1>5
<1>10. d \in AliasChains(i - 1) /\ IsEnd(d, i - 1, m)
  <2> HIDE DEF d, m
  <2> QED
    BY <1>6, <1>7, <1>8, <1>9 DEF IsEnd, AliasChains
<1> HIDE DEF d
<1> QED
  BY <1>3, <1>5, <1>9, <1>10

\* And an end for the alias is one for the name.
LEMMA ChainLonger ==
  ASSUME DnsTypes, NEW n \in DnsNames, Resolve(n, "address") = {}, Resolve(n, "cname") # {}, NEW i \in Nat,
         NEW d \in AliasChains(i), IsEnd(d, i, FirstValue(Resolve(n, "cname")))
  PROVE  \E c \in AliasChains(i + 1) : IsEnd(c, i + 1, n) /\ c[i + 1] = d[i]
<1> DEFINE m == FirstValue(Resolve(n, "cname"))
           c == [j \in 0..(i + 1) |-> IF j = 0 THEN Normal[n] ELSE d[j - 1]]
<1>1. /\ Resolve(Normal[n], "address") = Resolve(n, "address") /\ Normal[n] \in DnsNames
      /\ Resolve(Normal[n], "cname") = Resolve(n, "cname")
  BY AliasesFound
<1>2. /\ d \in [0..i -> DnsNames] /\ d[0] = Normal[m]
      /\ \A j \in 1..i : Alias(d[j - 1]) = d[j]
      /\ \A j \in 0..i : (Resolve(d[j], "address") # {}) <=> (j = i)
  BY DEF IsEnd, AliasChains
<1>3. c[0] = Normal[n] /\ \A j \in 1..(i + 1) : c[j] = d[j - 1] /\ j - 1 \in 0..i
  OBVIOUS
<1>4. c \in [0..(i + 1) -> DnsNames]
  <2>1. \A j \in 0..(i + 1) : c[j] \in DnsNames
    BY <1>1, <1>2, <1>3
  <2> QED
    BY <2>1
<1>5. Alias(c[0]) = d[0]
  BY <1>1, <1>2, <1>3 DEF Alias
<1>6. ASSUME NEW j \in 1..(i + 1) PROVE Alias(c[j - 1]) = c[j]
  <2>1. CASE j = 1
    BY <2>1, <1>3, <1>5
  <2>2. CASE j # 1
    <3>1. j - 1 \in 1..i /\ j - 1 \in 1..(i + 1) /\ j \in 1..(i + 1)
      BY <2>2
    <3>2. c[j - 1] = d[j - 1 - 1] /\ c[j] = d[j - 1]
      BY <1>3, <3>1
    <3> HIDE DEF c
    <3> QED
      BY <1>2, <3>1, <3>2
  <2> QED
    BY <2>1, <2>2
<1>7. ASSUME NEW j \in 0..(i + 1) PROVE (Resolve(c[j], "address") # {}) <=> (j = i + 1)
  <2>1. CASE j = 0
    BY <2>1, <1>1, <1>3
  <2>2. CASE j # 0
    <3>1. j \in 1..(i + 1) /\ (j - 1 = i <=> j = i + 1)
      BY <2>2
    <3>2. c[j] = d[j - 1] /\ j - 1 \in 0..i
      BY <1>3, <3>1
    <3> HIDE DEF c
    <3> QED
      BY <1>2, <3>1, <3>2
  <2> QED
    BY <2>1, <2>2
<1>8. c[i + 1] = d[i]
  OBVIOUS
<1>9. c \in AliasChains(i + 1) /\ IsEnd(c, i + 1, n)
  <2> HIDE DEF c
  <2> QED
    BY <1>3, <1>4, <1>6, <1>7 DEF IsEnd, AliasChains
<1> HIDE DEF c
<1> QED
  BY <1>8, <1>9

LEMMA EndsFound == ASSUME DnsTypes, NEW n \in DnsNames PROVE EndFound(CnameDepth, n)
<1> DEFINE G == {k \in Nat : k \in 0..CnameDepth => \A p \in DnsNames : EndFound(k, p)}
           F == FollowAliases("address")
<1>1. ASSUME NEW k \in 0..CnameDepth, NEW p \in DnsNames, Resolve(p, "address") = {}
      PROVE  F[k + 1][p] = IF Resolve(p, "cname") = {} THEN {} ELSE F[k][FirstValue(Resolve(p, "cname"))]
  <2>1. k + 1 \in 0..(CnameDepth + 1) /\ k + 1 # 0 /\ k + 1 - 1 = k
    BY DnsAssumption
  <2>2. F[k + 1][p] =
            IF k + 1 = 0 THEN {}
            ELSE IF Resolve(p, "address") # {} \/ "address" = "cname" \/ Resolve(p, "cname") = {}
                 THEN Resolve(p, "address")
            ELSE F[k + 1 - 1][FirstValue(Resolve(p, "cname"))]
    BY <2>1, FollowLevel
  <2> QED
    BY <1>1, <2>1, <2>2
<1>2. 0 \in G
  <2> SUFFICES ASSUME NEW p \in DnsNames PROVE EndFound(0, p)
    OBVIOUS
  <2>0. 0 \in 0..CnameDepth /\ 0 \in 0..(CnameDepth + 1)
    BY DnsAssumption
  <2>1. CASE Resolve(p, "address") # {}
    BY <2>0, <2>1, DirectEnd
  <2>2. CASE Resolve(p, "address") = {}
    <3>1. F[0 + 1][p] = {}
      <4>1. F[0 + 1][p] = IF Resolve(p, "cname") = {} THEN {} ELSE F[0][FirstValue(Resolve(p, "cname"))]
        BY <1>1, <2>0, <2>2
      <4>2. \A m \in DnsNames : F[0][m] = {}
        BY <2>0, FollowLevel
      <4>3. Resolve(p, "cname") # {} => FirstValue(Resolve(p, "cname")) \in DnsNames
        BY AliasesFound
      <4> QED
        BY <4>1, <4>2, <4>3
    <3>2. \A i \in 0..0 : \A c \in AliasChains(i) : ~ IsEnd(c, i, p)
      BY <2>2, ChainGoesOn
    <3> QED
      BY <3>1, <3>2 DEF EndFound
  <2> QED
    BY <2>1, <2>2
<1>3. ASSUME NEW k \in Nat, k \in G PROVE k + 1 \in G
  <2> SUFFICES ASSUME k + 1 \in 0..CnameDepth, NEW p \in DnsNames PROVE EndFound(k + 1, p)
    OBVIOUS
  <2>1. k \in 0..CnameDepth
    BY DnsAssumption
  <2>2. \A m \in DnsNames : EndFound(k, m)
    BY <1>3, <2>1
  <2>3. CASE Resolve(p, "address") # {}
    BY <2>3, DirectEnd
  <2>4. CASE Resolve(p, "address") = {} /\ Resolve(p, "cname") = {}
    <3>1. F[k + 1 + 1][p] = {}
      BY <2>4, <1>1
    <3>2. \A i \in 0..(k + 1) : \A c \in AliasChains(i) : ~ IsEnd(c, i, p)
      BY <2>4, ChainGoesOn
    <3> QED
      BY <3>1, <3>2 DEF EndFound
  <2>5. CASE Resolve(p, "address") = {} /\ Resolve(p, "cname") # {}
    <3> DEFINE m == FirstValue(Resolve(p, "cname"))
    <3>1. m \in DnsNames /\ F[k + 1 + 1][p] = F[k + 1][m]
      BY <2>5, <1>1, AliasesFound
    <3>2. CASE F[k + 1][m] = {} /\ \A i \in 0..k : \A c \in AliasChains(i) : ~ IsEnd(c, i, m)
      <4>1. ASSUME NEW i \in 0..(k + 1), NEW c \in AliasChains(i), IsEnd(c, i, p) PROVE FALSE
        <5>1. i \in Nat
          OBVIOUS
        <5>2. i # 0 /\ \E d \in AliasChains(i - 1) : IsEnd(d, i - 1, m)
          BY <5>1, <2>5, <4>1, ChainGoesOn
        <5>3. i - 1 \in 0..k
          BY <5>2
        <5> QED
          BY <3>2, <5>2, <5>3
      <4>2. F[k + 1 + 1][p] = {}
        BY <3>1, <3>2
      <4> QED
        BY <4>1, <4>2 DEF EndFound
    <3>3. CASE \E i \in 0..k : \E c \in AliasChains(i) : IsEnd(c, i, m) /\ F[k + 1][m] = Resolve(c[i], "address")
      <4>1. PICK i \in 0..k : \E c \in AliasChains(i) : IsEnd(c, i, m) /\ F[k + 1][m] = Resolve(c[i], "address")
        BY <3>3
      <4>2. PICK d \in AliasChains(i) : IsEnd(d, i, m) /\ F[k + 1][m] = Resolve(d[i], "address")
        BY <4>1
      <4>3. i \in Nat /\ i + 1 \in 0..(k + 1)
        OBVIOUS
      <4>4. PICK c \in AliasChains(i + 1) : IsEnd(c, i + 1, p) /\ c[i + 1] = d[i]
        BY <2>5, <4>2, <4>3, ChainLonger
      <4>5. F[k + 1 + 1][p] = Resolve(c[i + 1], "address")
        BY <3>1, <4>2, <4>4
      <4> QED
        BY <4>3, <4>4, <4>5 DEF EndFound
    <3>4. EndFound(k, m)
      BY <2>2, <3>1
    <3> QED
      BY <3>2, <3>3, <3>4 DEF EndFound
  <2> QED
    BY <2>3, <2>4, <2>5
<1>4. CnameDepth \in G
  <2>1. CnameDepth \in Nat
    BY DnsAssumption
  <2> HIDE DEF G
  <2> QED
    BY <1>2, <1>3, <2>1, NatSetInduction
<1> QED
  BY <1>4, DnsAssumption

LEMMA AliasesHold == DnsTypes => AliasesResolve
<1> SUFFICES ASSUME DnsTypes, NEW n \in DnsNames
             PROVE  LET ends == {c \in UNION {AliasChains(i) : i \in 0..CnameDepth} :
                            c[0] = Normal[n] /\ \A i \in DOMAIN c :
                                (Resolve(c[i], "address") # {}) <=> (i = Cardinality(DOMAIN c) - 1)}
                        found == ResolveRecursive(n, "address")
                    IN  IF ends = {} THEN found = {}
                        ELSE \E c \in ends : found = Resolve(c[Cardinality(DOMAIN c) - 1], "address")
  BY DEF AliasesResolve
<1> DEFINE ends == {c \in UNION {AliasChains(i) : i \in 0..CnameDepth} :
                    c[0] = Normal[n] /\ \A i \in DOMAIN c :
                        (Resolve(c[i], "address") # {}) <=> (i = Cardinality(DOMAIN c) - 1)}
           found == ResolveRecursive(n, "address")
<1>1. \A i \in 0..CnameDepth : \A c \in AliasChains(i) : DOMAIN c = 0..i /\ Cardinality(DOMAIN c) - 1 = i
  <2> TAKE i \in 0..CnameDepth
  <2> TAKE c \in AliasChains(i)
  <2>1. DOMAIN c = 0..i
    BY DEF AliasChains
  <2>2. Cardinality(0..i) = i + 1
    BY FS_Interval
  <2> QED
    BY <2>1, <2>2
<1>2. Normal[n] \in DnsNames /\ Normal[Normal[n]] = Normal[n]
  BY DnsAssumption
<1>3. \A i \in 0..CnameDepth : \A c \in AliasChains(i) : IsEnd(c, i, Normal[n]) <=> c \in ends
  <2> TAKE i \in 0..CnameDepth
  <2> TAKE c \in AliasChains(i)
  <2>1. DOMAIN c = 0..i /\ Cardinality(DOMAIN c) - 1 = i
    BY <1>1
  <2>2. c \in UNION {AliasChains(k) : k \in 0..CnameDepth}
    OBVIOUS
  <2>3. c \in ends <=> (c[0] = Normal[n] /\ \A j \in 0..i : (Resolve(c[j], "address") # {}) <=> (j = i))
    BY <2>1, <2>2
  <2> HIDE DEF ends
  <2> QED
    BY <2>3, <1>2 DEF IsEnd
<1>4. EndFound(CnameDepth, Normal[n]) /\ found = FollowAliases("address")[CnameDepth + 1][Normal[n]]
  BY <1>2, EndsFound DEF ResolveRecursive
<1>5. ends \subseteq UNION {AliasChains(i) : i \in 0..CnameDepth}
  OBVIOUS
<1> HIDE DEF ends, found
<1>6. CASE found = {} /\ \A i \in 0..CnameDepth : \A c \in AliasChains(i) : ~ IsEnd(c, i, Normal[n])
  <2>1. ends = {}
    BY <1>3, <1>5, <1>6
  <2> QED
    BY <1>6, <2>1 DEF ends, found
<1>7. CASE \E i \in 0..CnameDepth : \E c \in AliasChains(i) :
              IsEnd(c, i, Normal[n]) /\ found = Resolve(c[i], "address")
  <2>1. PICK i \in 0..CnameDepth : \E c \in AliasChains(i) :
              IsEnd(c, i, Normal[n]) /\ found = Resolve(c[i], "address")
    BY <1>7
  <2>2. PICK c \in AliasChains(i) : IsEnd(c, i, Normal[n]) /\ found = Resolve(c[i], "address")
    BY <2>1
  <2>3. c \in ends /\ found = Resolve(c[Cardinality(DOMAIN c) - 1], "address")
    BY <1>1, <1>3, <2>2
  <2>4. ends # {} /\ \E e \in ends : found = Resolve(e[Cardinality(DOMAIN e) - 1], "address")
    BY <2>3
  <2> QED
    BY <2>4 DEF ends, found
<1> QED
  BY <1>4, <1>6, <1>7 DEF EndFound
(* The steps. *)

\* The step at which a thread is tells what its call looks like.
LEMMA DnsShapes ==
  ASSUME DnsCalls, NEW t \in DnsThreads
  PROVE  /\ dnsCall[t].at \in {"checked", "tested", "listed", "set"} => dnsCall[t] \in DnsAsked(DOMAIN dnsObj)
         /\ dnsCall[t].at = "changed" => dnsCall[t] \in DnsSaving
         /\ dnsCall[t].at = "open" => DnsWriting(dnsCall[t])
         /\ Changing(t) => dnsCall[t].alone \in BOOLEAN
<1>1. DnsCallOK(dnsCall[t], DOMAIN dnsObj, dnsEntries)
  BY DEF DnsCalls
<1>2. \A c : DnsWriting(c) => c.at = "open"
  BY DEF DnsWriting
<1> QED
  BY <1>1, <1>2 DEF DnsCallOK, DnsIdle, DnsAsked, DnsSaving, DnsWriting, Changing

\* What calls look like stays so when objects are added.
LEMMA DnsCallGrows ==
  ASSUME NEW ids, NEW more, ids \subseteq more, NEW names, NEW all, names \subseteq all,
         NEW c, DnsCallOK(c, ids, names)
  PROVE  DnsCallOK(c, more, all)
  BY DEF DnsCallOK, DnsAsked, DnsListed

LEMMA DnsCallDisturbed ==
  ASSUME NEW ids, NEW names, NEW c, DnsCallOK(c, ids, names), c.at \in {"listed", "set", "changed", "open"}
  PROVE  /\ DnsCallOK([c EXCEPT !.alone = FALSE], ids, names)
         /\ [c EXCEPT !.alone = FALSE].at = c.at /\ [c EXCEPT !.alone = FALSE].alone = FALSE
<1> DEFINE d == [c EXCEPT !.alone = FALSE]
<1>1. CASE c \in DnsAsked(ids) /\ DnsListed(c, names)
  BY <1>1 DEF DnsCallOK, DnsAsked, DnsListed
<1>2. CASE c \in DnsSaving
  BY <1>2 DEF DnsCallOK, DnsSaving
<1>3. CASE DnsWriting(c)
  <2> DEFINE q == c.copy
  <2>1. c \in [at : {"open"}, alone : BOOLEAN, copy : {q}] /\ WellFormed(q)
    BY <1>3 DEF DnsWriting
  <2> HIDE DEF q
  <2>2. d \in [at : {"open"}, alone : BOOLEAN, copy : {q}] /\ d.alone = FALSE /\ d.at = c.at
    BY <2>1
  <2> HIDE DEF d
  <2>3. d.copy = q
    BY <2>2
  <2> QED
    BY <2>1, <2>2, <2>3 DEF DnsCallOK, DnsWriting, d
<1> QED
  BY <1>1, <1>2, <1>3 DEF DnsCallOK, DnsIdle

\* A request that begins to change the registry takes the others' being alone.
LEMMA DnsBegins ==
  ASSUME DnsInv, NEW t \in DnsThreads, ~ Changing(t), NEW c, Begins(t, c), DOMAIN dnsObj \subseteq DOMAIN dnsObj',
         dnsEntries \subseteq dnsEntries',
         \/ c \in DnsAsked(DOMAIN dnsObj') /\ c.at \in {"listed", "set"} /\ DnsListed(c, dnsEntries')
         \/ c \in DnsSaving
  PROVE  DnsCalls' /\ DnsCompany' /\ DnsCopies' /\ Changing(t)'
<1> DEFINE d == [c EXCEPT !.alone = \A v \in DnsThreads \ {t} : ~ Changing(v)]
<1>1. /\ DnsCallOK(d, DOMAIN dnsObj', dnsEntries') /\ d.at \in {"listed", "set", "changed"}
      /\ d.alone = (\A v \in DnsThreads \ {t} : ~ Changing(v))
  <2> DEFINE b == \A v \in DnsThreads \ {t} : ~ Changing(v)
  <2>1. b \in BOOLEAN /\ d = [c EXCEPT !.alone = b]
    OBVIOUS
  <2> HIDE DEF b, d
  <2> QED
    BY <2>1 DEF DnsCallOK, DnsAsked, DnsSaving, DnsListed, b
<1>2. /\ DOMAIN dnsCall' = DnsThreads /\ dnsCall'[t] = d
      /\ \A u \in DnsThreads \ {t} :
            dnsCall'[u] = IF Changing(u) THEN [dnsCall[u] EXCEPT !.alone = FALSE] ELSE dnsCall[u]
  BY DEF Begins
<1> HIDE DEF d
<1>3. ASSUME NEW u \in DnsThreads \ {t}
      PROVE  /\ DnsCallOK(dnsCall'[u], DOMAIN dnsObj', dnsEntries') /\ dnsCall'[u].at = dnsCall[u].at
             /\ Changing(u) => dnsCall'[u].alone = FALSE
             /\ Changing(u)' <=> Changing(u)
  <2>1. DnsCallOK(dnsCall[u], DOMAIN dnsObj', dnsEntries')
    BY DnsCallGrows DEF DnsInv, DnsCalls
  <2>2. CASE Changing(u)
    <3>1. dnsCall'[u] = [dnsCall[u] EXCEPT !.alone = FALSE] /\ dnsCall[u].at \in {"listed", "set", "changed", "open"}
      BY <1>2, <2>2 DEF Changing
    <3> QED
      BY <2>1, <2>2, <3>1, DnsCallDisturbed DEF Changing
  <2>3. CASE ~ Changing(u)
    BY <1>2, <2>1, <2>3 DEF Changing
  <2> QED
    BY <2>2, <2>3
<1>4. DnsCalls'
  BY <1>1, <1>2, <1>3 DEF DnsCalls
<1>5. Changing(t)'
  BY <1>1, <1>2 DEF Changing
<1>6. DnsCompany'
  <2> SUFFICES ASSUME NEW v \in DnsThreads, NEW u \in DnsThreads \ {v}, Changing(v)', dnsCall'[v].alone
               PROVE  ~ Changing(u)'
    BY DEF DnsCompany
  <2>1. v = t
    BY <1>3
  <2>2. ~ Changing(u)
    BY <1>1, <1>2, <2>1
  <2> QED
    BY <1>3, <2>1, <2>2
<1>7. DnsCopies'
  <2> SUFFICES ASSUME NEW v \in DnsThreads, dnsCall'[v].at = "open", dnsCall'[v].alone PROVE FALSE
    BY DEF DnsCopies
  <2>1. v # t
    BY <1>1, <1>2
  <2>2. Changing(v)
    BY <1>3, <2>1 DEF Changing
  <2> QED
    BY <1>3, <2>1, <2>2
<1> QED
  BY <1>4, <1>5, <1>6, <1>7

\* One that is about it goes on; nobody else who writes is alone.
LEMMA DnsGoesOn ==
  ASSUME DnsInv, NEW t \in DnsThreads, Changing(t), NEW c, dnsCall' = [dnsCall EXCEPT ![t] = c],
         DOMAIN dnsObj \subseteq DOMAIN dnsObj', dnsEntries \subseteq dnsEntries', DnsCallOK(c, DOMAIN dnsObj', dnsEntries'),
         c.at \in {"set", "changed"}, c.alone = dnsCall[t].alone
  PROVE  DnsCalls' /\ DnsCompany' /\ DnsCopies' /\ Changing(t)'
<1>1. DOMAIN dnsCall' = DnsThreads /\ dnsCall'[t] = c /\ \A u \in DnsThreads \ {t} : dnsCall'[u] = dnsCall[u]
  BY DEF DnsInv, DnsCalls
<1>2. \A u \in DnsThreads : Changing(u)' <=> Changing(u)
  BY <1>1 DEF Changing
<1>3. DnsCalls'
  BY <1>1, DnsCallGrows DEF DnsInv, DnsCalls
<1>4. DnsCompany'
  BY <1>1, <1>2 DEF DnsInv, DnsCompany
<1>5. DnsCopies'
  <2> SUFFICES ASSUME NEW v \in DnsThreads, dnsCall'[v].at = "open", dnsCall'[v].alone PROVE FALSE
    BY DEF DnsCopies
  <2>1. v # t /\ dnsCall'[v] = dnsCall[v]
    BY <1>1
  <2>2. Changing(v)
    BY <2>1 DEF Changing
  <2> QED
    BY <2>1, <2>2 DEF DnsInv, DnsCompany
<1> QED
  BY <1>2, <1>3, <1>4, <1>5

\* A thread that changes nothing comes or goes.
LEMMA DnsIsQuiet ==
  ASSUME DnsInv, NEW t \in DnsThreads, ~ Changing(t), NEW c, dnsCall' = [dnsCall EXCEPT ![t] = c],
         DnsCallOK(c, DOMAIN dnsObj, dnsEntries), c.at \in {"idle", "checked", "tested"},
         UNCHANGED <<memory, dnsSaved, dnsRaced, dnsUp>>
  PROVE  DnsCalls' /\ DnsCompany' /\ DnsCopies' /\ DnsFile'
<1>1. DOMAIN dnsCall' = DnsThreads /\ dnsCall'[t] = c /\ \A u \in DnsThreads \ {t} : dnsCall'[u] = dnsCall[u]
  BY DEF DnsInv, DnsCalls
<1>2. \A u \in DnsThreads : Changing(u)' <=> Changing(u)
  BY <1>1 DEF Changing
<1>3. Memory' = Memory /\ dnsObj' = dnsObj /\ dnsEntries' = dnsEntries
  BY DEF Memory, memory
<1>4. DnsCalls'
  BY <1>1, <1>3 DEF DnsInv, DnsCalls
<1>5. DnsCompany'
  BY <1>1, <1>2 DEF DnsInv, DnsCompany
<1>6. DnsCopies'
  BY <1>1, <1>3 DEF DnsInv, DnsCopies
<1>7. DnsFile'
  BY <1>2, <1>3 DEF DnsInv, DnsFile, RestartKeepsAnswers
<1> QED
  BY <1>4, <1>5, <1>6, <1>7

\* A file is not looked at while a request is changing the registry.
LEMMA DnsFileLater ==
  ASSUME DnsInv, NEW t \in DnsThreads, Changing(t)', dnsSaved' = dnsSaved \/ dnsSaved' = TornFile
  PROVE  DnsFile'
  BY DEF DnsInv, DnsFile, RestartKeepsAnswers

LEMMA RequestChecked ==
  ASSUME DnsInv, NEW t \in DnsThreads, CheckRequest(t)
  PROVE  DnsInv'
<1>1. PICK ask \in DnsAsks :
        dnsCall' = [dnsCall EXCEPT ![t] =
               [op |-> ask.op, name |-> ask.name, to |-> ask.to, at |-> "checked",
                record |-> Create(ask.type, ask.owner, ask.target), new |-> FALSE, kept |-> {},
                alone |-> TRUE]]
  BY DEF CheckRequest
<1>2. ask \in [op : {"register", "add", "transfer"}, name : DnsNames, owner : DnsOwners,
               signer : DnsOwners, type : RecordType, target : DnsNames, to : DnsOwners]
  BY DnsAssumption
<1> DEFINE r == Create(ask.type, ask.owner, ask.target)
           c == [op |-> ask.op, name |-> ask.name, to |-> ask.to, at |-> "checked",
                 record |-> r, new |-> FALSE, kept |-> {}, alone |-> TRUE]
<1>3. r \in DnsRecord /\ GoodRecord(r)
  BY <1>2 DEF Create, DnsRecord, GoodRecord
<1> HIDE DEF r
<1>4. c \in DnsAsked(DOMAIN dnsObj) /\ c.at = "checked"
  BY <1>2, <1>3 DEF DnsAsked
<1>5. ~ Changing(t)
  BY DEF CheckRequest, Changing, DnsIdle
<1>6. dnsCall' = [dnsCall EXCEPT ![t] = c] /\ DnsCallOK(c, DOMAIN dnsObj, dnsEntries)
  BY <1>1, <1>4 DEF DnsCallOK, DnsListed, r
<1> HIDE DEF c
<1>7. UNCHANGED <<memory, dnsSaved, dnsRaced, dnsUp, dnsExpired, dnsCache>> /\ requests < MaxRequests /\ requests' = requests + 1
  BY DEF CheckRequest
<1>8. DnsCalls' /\ DnsCompany' /\ DnsCopies' /\ DnsFile'
  BY <1>4, <1>5, <1>6, <1>7, DnsIsQuiet
<1>9. DnsTypes'
  <2>1. requests' \in 0..MaxRequests
    BY <1>7, DnsAssumption DEF DnsInv, DnsTypes
  <2> QED
    BY <1>7, <2>1 DEF DnsInv, DnsTypes, memory
<1> QED
  BY <1>8, <1>9 DEF DnsInv

LEMMA NameTested ==
  ASSUME DnsInv, NEW t \in DnsThreads, TestName(t)
  PROVE  DnsInv'
<1> DEFINE c == dnsCall[t]
           d == [c EXCEPT !.at = "tested", !.new = c.name \notin dnsEntries,
                          !.kept = dnsRecords[c.name] \ OfType(dnsRecords[c.name], c.record.type)]
<1>1. c.at = "checked" /\ c \in DnsAsked(DOMAIN dnsObj)
  BY DnsShapes DEF TestName, At, DnsInv
<1>2. d \in DnsAsked(DOMAIN dnsObj) /\ d.at = "tested"
  <2> DEFINE k == dnsRecords[c.name] \ OfType(dnsRecords[c.name], c.record.type)
             b == c.name \notin dnsEntries
  <2>1. k \in SUBSET DOMAIN dnsObj /\ b \in BOOLEAN
    BY <1>1 DEF DnsInv, DnsTypes, DnsAsked
  <2>2. d = [c EXCEPT !.at = "tested", !.new = b, !.kept = k]
    OBVIOUS
  <2> HIDE DEF k, b, c, d
  <2> QED
    BY <1>1, <2>1, <2>2 DEF DnsAsked
<1>3. ~ Changing(t)
  BY <1>1 DEF Changing
<1>4. dnsCall' = [dnsCall EXCEPT ![t] = d] /\ UNCHANGED <<memory, answers, dnsSaved, dnsRaced>>
  BY DEF TestName
<1> HIDE DEF c, d
<1>5. DnsCalls' /\ DnsCompany' /\ DnsCopies' /\ DnsFile'
  BY <1>2, <1>3, <1>4, DnsIsQuiet DEF DnsCallOK, DnsListed, answers
<1>6. DnsTypes'
  BY <1>4 DEF DnsInv, DnsTypes, memory, answers
<1> QED
  BY <1>5, <1>6 DEF DnsInv

LEMMA ListSet ==
  ASSUME DnsInv, NEW t \in DnsThreads, SetList(t)
  PROVE  DnsInv'
<1> DEFINE c == dnsCall[t]
           d == [c EXCEPT !.at = "listed"]
<1>1. c.at = "tested" /\ c \in DnsAsked(DOMAIN dnsObj)
  BY DnsShapes DEF SetList, At, DnsInv
<1>2. /\ Begins(t, d) /\ dnsEntries' = dnsEntries \cup {c.name}
      /\ dnsRecords' = [dnsRecords EXCEPT ![c.name] = IF c.new THEN {} ELSE c.kept]
      /\ UNCHANGED <<dnsObj, dnsOwners, answers, dnsSaved, dnsRaced>>
  BY DEF SetList
<1>3. ~ Changing(t)
  BY <1>1 DEF Changing
<1> HIDE DEF c
<1>4. d \in DnsAsked(DOMAIN dnsObj) /\ d.at = "listed"
  BY <1>1 DEF DnsAsked
<1>5. c.name \in DnsNames /\ c.kept \in SUBSET DOMAIN dnsObj
  BY <1>1 DEF DnsAsked
<1>10. DnsListed(d, dnsEntries')
  BY <1>1, <1>2 DEF DnsListed, DnsAsked
<1> HIDE DEF d
<1>6. DnsCalls' /\ DnsCompany' /\ DnsCopies' /\ Changing(t)'
  BY <1>2, <1>3, <1>4, <1>10, DnsBegins
<1>7. DnsFile'
  BY <1>2, <1>6, DnsFileLater
<1>8. DnsTypes'
  <2> USE DEF DnsInv, DnsTypes, answers
  <2>1. /\ dnsRecords' \in [DnsNames -> SUBSET DOMAIN dnsObj] /\ dnsEntries' \subseteq DnsNames
        /\ \A n \in DnsNames : dnsRecords'[n] # {} => n \in dnsEntries'
    BY <1>2, <1>5
  <2> QED
    BY <1>2, <2>1
<1> QED
  BY <1>6, <1>7, <1>8 DEF DnsInv

LEMMA NewOwnerSet ==
  ASSUME DnsInv, NEW t \in DnsThreads, SetNewOwner(t)
  PROVE  DnsInv'
<1> DEFINE c == dnsCall[t]
           d == [c EXCEPT !.at = "set"]
<1>1. c.at = "listed" /\ c \in DnsAsked(DOMAIN dnsObj)
  BY DnsShapes DEF SetNewOwner, Goes, At, DnsInv
<1>2. /\ dnsCall' = [dnsCall EXCEPT ![t] = d] /\ RegisterName(c)
      /\ UNCHANGED <<dnsObj, dnsEntries, dnsRecords, answers, dnsSaved, dnsRaced>>
  BY DEF SetNewOwner, Goes
<1>3. Changing(t)
  BY <1>1 DEF Changing
<1>4. d \in DnsAsked(DOMAIN dnsObj) /\ d.at = "set" /\ d.alone = c.alone
  <2> HIDE DEF c
  <2> QED
    BY <1>1 DEF DnsAsked
<1>5. c.name \in DnsNames /\ c.record.owner \in DnsOwners
  BY <1>1 DEF DnsAsked, DnsRecord
<1>6. DnsCalls' /\ DnsCompany' /\ DnsCopies' /\ Changing(t)'
  <2>1. DnsCallOK(d, DOMAIN dnsObj', dnsEntries') /\ DOMAIN dnsObj \subseteq DOMAIN dnsObj'
    <3>1. DnsListed(c, dnsEntries)
      BY <1>1 DEF DnsInv, DnsCalls, DnsCallOK, DnsIdle, DnsSaving, DnsWriting
    <3> QED
      BY <1>1, <1>2, <1>4, <3>1 DEF DnsCallOK, DnsListed
  <2>2. dnsEntries' = dnsEntries
    BY <1>2
  <2> HIDE DEF d
  <2> QED
    BY <1>2, <1>3, <1>4, <2>1, <2>2, DnsGoesOn
<1>7. DnsFile'
  BY <1>2, <1>6, DnsFileLater
<1>8. DnsTypes'
  <2>1. dnsOwners' \in [DnsNames -> DnsOwners \cup {Nobody}]
    BY <1>2, <1>5 DEF RegisterName, DnsInv, DnsTypes
  <2> QED
    BY <1>2, <2>1 DEF DnsInv, DnsTypes, answers
<1> QED
  BY <1>6, <1>7, <1>8 DEF DnsInv

\* A record that is appended is an object of its own.
LEMMA RecordAppended ==
  ASSUME DnsTypes, NEW c, c.name \in DnsNames, GoodRecord(c.record), AppendRecord(c),
         c.name \in dnsEntries, UNCHANGED answers, UNCHANGED dnsRaced
  PROVE  DnsTypes' /\ DOMAIN dnsObj \subseteq DOMAIN dnsObj'
<1> DEFINE r == c.record
           k == Len(dnsObj) + 1
<1>1. r \in DnsRecord /\ dnsObj' = Append(dnsObj, r) /\ dnsObj \in Seq(DnsRecord)
  BY DEF AppendRecord, GoodRecord, DnsTypes
<1> HIDE DEF r
<1>2. /\ dnsObj' \in Seq(DnsRecord) /\ DOMAIN dnsObj' = DOMAIN dnsObj \cup {k} /\ dnsObj'[k] = r
      /\ \A i \in DOMAIN dnsObj : dnsObj'[i] = dnsObj[i]
  BY <1>1
<1>3. \A i \in DOMAIN dnsObj' : GoodRecord(dnsObj'[i])
  BY <1>2 DEF DnsTypes, r
<1>4. /\ dnsRecords' = [dnsRecords EXCEPT ![c.name] = @ \cup {k}]
      /\ UNCHANGED <<dnsEntries, dnsOwners>>
  BY DEF AppendRecord
<1> HIDE DEF k
<1>5. /\ dnsRecords' \in [DnsNames -> SUBSET DOMAIN dnsObj']
      /\ \A n \in DnsNames : dnsRecords'[n] # {} => n \in dnsEntries'
  BY <1>2, <1>4 DEF DnsTypes
<1>6. dnsExpired' \subseteq DOMAIN dnsObj' /\ dnsCache' \in [Keys -> {Nobody} \cup SUBSET DOMAIN dnsObj']
  BY <1>2 DEF DnsTypes, answers
<1> QED
  BY <1>2, <1>3, <1>4, <1>5, <1>6 DEF DnsTypes, answers

LEMMA RegistrationAppended ==
  ASSUME DnsInv, NEW t \in DnsThreads, RegisterAppends(t)
  PROVE  DnsInv'
<1> DEFINE c == dnsCall[t]
           d == Saves(c.alone)
<1>1. c.at = "set" /\ c \in DnsAsked(DOMAIN dnsObj) /\ Changing(t)
  BY DnsShapes DEF RegisterAppends, At, DnsInv, Changing
<1>2. /\ dnsCall' = [dnsCall EXCEPT ![t] = d] /\ AppendRecord(c)
      /\ UNCHANGED <<answers, dnsSaved, dnsRaced>>
  BY DEF RegisterAppends
<1>3. c.name \in DnsNames /\ GoodRecord(c.record) /\ c.alone \in BOOLEAN
  BY <1>1 DEF DnsAsked
<1>4. d \in DnsSaving /\ d.at = "changed" /\ d.alone = c.alone
  BY <1>3 DEF Saves, DnsSaving
<1>5. c.name \in dnsEntries /\ dnsEntries' = dnsEntries
  <2>1. DnsListed(c, dnsEntries) /\ c.op = "register"
    BY <1>1 DEF DnsInv, DnsCalls, DnsCallOK, DnsIdle, DnsSaving, DnsWriting, RegisterAppends
  <2> QED
    BY <1>1, <1>2, <2>1 DEF DnsListed, AppendRecord
<1>6. DnsTypes' /\ DOMAIN dnsObj \subseteq DOMAIN dnsObj'
  <2> HIDE DEF c, d
  <2> QED
    BY <1>2, <1>3, <1>5, RecordAppended DEF DnsInv
<1>7. DnsCalls' /\ DnsCompany' /\ DnsCopies' /\ Changing(t)'
  <2> HIDE DEF d
  <2> QED
    BY <1>1, <1>2, <1>4, <1>5, <1>6, DnsGoesOn DEF DnsCallOK
<1>8. DnsFile'
  BY <1>2, <1>7, DnsFileLater
<1> QED
  BY <1>6, <1>7, <1>8 DEF DnsInv

LEMMA RecordAdded ==
  ASSUME DnsInv, NEW t \in DnsThreads, AddRecord(t)
  PROVE  DnsInv'
<1> DEFINE c == dnsCall[t]
           d == Saves(TRUE)
<1>1. c.at = "checked" /\ c \in DnsAsked(DOMAIN dnsObj) /\ c.name \in dnsEntries
  BY DnsShapes DEF AddRecord, At, DnsInv
<1>2. Begins(t, d) /\ AppendRecord(c) /\ UNCHANGED <<answers, dnsSaved, dnsRaced>>
  BY DEF AddRecord
<1>3. ~ Changing(t)
  BY <1>1 DEF Changing
<1>4. c.name \in DnsNames /\ GoodRecord(c.record) /\ d \in DnsSaving
  BY <1>1 DEF DnsAsked, Saves, DnsSaving
<1>5. DnsTypes' /\ DOMAIN dnsObj \subseteq DOMAIN dnsObj' /\ dnsEntries' = dnsEntries
  <2>1. dnsEntries' = dnsEntries
    BY <1>2 DEF AppendRecord
  <2> HIDE DEF c, d
  <2> QED
    BY <1>1, <1>2, <1>4, <2>1, RecordAppended DEF DnsInv
<1> HIDE DEF c, d
<1>6. DnsCalls' /\ DnsCompany' /\ DnsCopies' /\ Changing(t)'
  BY <1>2, <1>3, <1>4, <1>5, DnsBegins
<1>7. DnsFile'
  BY <1>2, <1>6, DnsFileLater
<1> QED
  BY <1>5, <1>6, <1>7 DEF DnsInv

LEMMA AddFailed ==
  ASSUME DnsInv, NEW t \in DnsThreads, AddFails(t)
  PROVE  DnsInv'
<1>1. ~ Changing(t) /\ dnsCall' = [dnsCall EXCEPT ![t] = DnsIdle] /\ DnsIdle.at = "idle"
  BY DEF AddFails, At, Changing, DnsIdle
<1>2. UNCHANGED <<memory, answers, dnsSaved, dnsRaced>>
  BY DEF AddFails
<1>3. DnsCalls' /\ DnsCompany' /\ DnsCopies' /\ DnsFile'
  BY <1>1, <1>2, DnsIsQuiet DEF DnsCallOK, answers
<1> QED
  BY <1>2, <1>3 DEF DnsInv, DnsTypes, memory, answers

LEMMA OwnerSet ==
  ASSUME DnsInv, NEW t \in DnsThreads, SetOwner(t)
  PROVE  DnsInv'
<1> DEFINE c == dnsCall[t]
           d == [c EXCEPT !.at = "set"]
<1>1. c.at = "checked" /\ c \in DnsAsked(DOMAIN dnsObj) /\ c.op = "transfer"
  BY DnsShapes DEF SetOwner, At, DnsInv
<1>2. /\ Begins(t, d) /\ dnsOwners' = [dnsOwners EXCEPT ![c.name] = c.to]
      /\ UNCHANGED <<dnsObj, dnsEntries, dnsRecords, answers, dnsSaved, dnsRaced>>
  BY DEF SetOwner
<1>3. ~ Changing(t)
  BY <1>1 DEF Changing
<1> HIDE DEF c
<1>4. d \in DnsAsked(DOMAIN dnsObj) /\ d.at = "set" /\ DnsListed(d, dnsEntries')
  BY <1>1 DEF DnsAsked, DnsListed
<1>5. c.name \in DnsNames /\ c.to \in DnsOwners
  BY <1>1 DEF DnsAsked
<1> HIDE DEF d
<1>6. DnsCalls' /\ DnsCompany' /\ DnsCopies' /\ Changing(t)'
  BY <1>2, <1>3, <1>4, DnsBegins
<1>7. DnsFile'
  BY <1>2, <1>6, DnsFileLater
<1>8. DnsTypes'
  <2>1. dnsOwners' \in [DnsNames -> DnsOwners \cup {Nobody}]
    BY <1>2, <1>5 DEF DnsInv, DnsTypes
  <2> QED
    BY <1>2, <2>1 DEF DnsInv, DnsTypes, answers
<1> QED
  BY <1>6, <1>7, <1>8 DEF DnsInv

LEMMA RecordsMoved ==
  ASSUME DnsInv, NEW t \in DnsThreads, MoveRecords(t)
  PROVE  DnsInv'
<1> DEFINE c == dnsCall[t]
           d == Saves(c.alone)
<1>1. c.at = "set" /\ c \in DnsAsked(DOMAIN dnsObj) /\ Changing(t)
  BY DnsShapes DEF MoveRecords, At, DnsInv, Changing
<1>2. /\ dnsCall' = [dnsCall EXCEPT ![t] = d]
      /\ dnsObj' = [i \in DOMAIN dnsObj |->
                    IF i \in dnsRecords[c.name] THEN [dnsObj[i] EXCEPT !.owner = c.to] ELSE dnsObj[i]]
      /\ UNCHANGED <<dnsEntries, dnsRecords, dnsOwners, answers, dnsSaved, dnsRaced>>
  BY DEF MoveRecords
<1>3. c.to \in DnsOwners /\ c.alone \in BOOLEAN
  BY <1>1 DEF DnsAsked
<1>4. d \in DnsSaving /\ d.at = "changed" /\ d.alone = c.alone
  BY <1>3 DEF Saves, DnsSaving
<1>5. DOMAIN dnsObj' = DOMAIN dnsObj
  BY <1>2
<1>6. DnsTypes'
  <2> USE DEF DnsInv, DnsTypes
  <2>1. \A i \in DOMAIN dnsObj : dnsObj[i] \in DnsRecord /\ GoodRecord(dnsObj[i])
    OBVIOUS
  <2>2. \A i \in DOMAIN dnsObj :
           [dnsObj[i] EXCEPT !.owner = c.to] \in DnsRecord /\ GoodRecord([dnsObj[i] EXCEPT !.owner = c.to])
    <3> TAKE i \in DOMAIN dnsObj
    <3> DEFINE r == dnsObj[i]
               o == c.to
    <3>1. r \in DnsRecord /\ GoodRecord(r) /\ o \in DnsOwners
      BY <1>3, <2>1
    <3> HIDE DEF r, o
    <3>2. [r EXCEPT !.owner = o] \in DnsRecord /\ GoodRecord([r EXCEPT !.owner = o])
      BY <3>1 DEF DnsRecord, GoodRecord
    <3> QED
      BY <3>2 DEF r, o
  <2>3. \A i \in DOMAIN dnsObj : dnsObj'[i] \in DnsRecord /\ GoodRecord(dnsObj'[i])
    BY <1>2, <2>1, <2>2
  <2>4. DOMAIN dnsObj = 1..Len(dnsObj) /\ Len(dnsObj) \in Nat
    OBVIOUS
  <2>5. dnsObj' \in Seq(DnsRecord)
    <3>1. dnsObj' \in [1..Len(dnsObj) -> DnsRecord]
      BY <1>2, <2>3, <2>4
    <3> QED
      BY <2>4, <3>1
  <2> QED
    BY <1>2, <1>5, <2>3, <2>5 DEF answers
<1>7. DnsCalls' /\ DnsCompany' /\ DnsCopies' /\ Changing(t)'
  <2> HIDE DEF d
  <2> QED
    BY <1>1, <1>2, <1>4, <1>5, DnsGoesOn DEF DnsCallOK
<1>8. DnsFile'
  BY <1>2, <1>7, DnsFileLater
<1> QED
  BY <1>6, <1>7, <1>8 DEF DnsInv

\* What is in memory may be written and read again.
LEMMA MemoryWellFormed ==
  ASSUME DnsTypes
  PROVE  WellFormed(Memory)
<1> DEFINE m == Memory
<1>1. m = [entries |-> dnsEntries, records |-> dnsRecords, objs |-> dnsObj, owners |-> dnsOwners]
  BY DEF Memory
<1>2. m.entries = dnsEntries /\ m.records = dnsRecords /\ m.objs = dnsObj /\ m.owners = dnsOwners
  BY <1>1
<1> HIDE DEF m
<1>3. WellFormed(m)
  BY <1>1, <1>2 DEF DnsTypes, WellFormed
<1> QED
  BY <1>3 DEF m

LEMMA FileOpened ==
  ASSUME DnsInv, NEW t \in DnsThreads, OpenFile(t)
  PROVE  DnsInv'
<1> DEFINE b == dnsCall[t].alone
           q == Memory
           d == [at |-> "open", alone |-> b, copy |-> q]
<1>1. dnsCall[t].at = "changed" /\ b \in BOOLEAN /\ Changing(t)
  BY DnsShapes DEF OpenFile, At, DnsInv, Changing
<1>2. /\ dnsCall' = [dnsCall EXCEPT ![t] = d] /\ dnsSaved' = TornFile /\ UNCHANGED <<memory, answers, dnsRaced>>
  BY DEF OpenFile
<1>3. WellFormed(q) /\ q = Memory
  BY MemoryWellFormed DEF DnsInv
<1>4. Memory' = Memory /\ dnsObj' = dnsObj /\ dnsEntries' = dnsEntries
  BY <1>2 DEF Memory, memory
<1> HIDE DEF b, q
<1>5. d.at = "open" /\ d.alone = b /\ d.copy = q /\ DnsWriting(d)
  BY <1>1, <1>3 DEF DnsWriting
<1>6. /\ DOMAIN dnsCall' = DnsThreads /\ dnsCall'[t] = d
      /\ \A u \in DnsThreads \ {t} : dnsCall'[u] = dnsCall[u]
  BY <1>2 DEF DnsInv, DnsCalls
<1> HIDE DEF d
<1>7. \A u \in DnsThreads : (Changing(u)' <=> Changing(u)) /\ (Changing(u) => dnsCall'[u].alone = dnsCall[u].alone)
  BY <1>1, <1>5, <1>6 DEF Changing, b
<1>8. DnsCalls'
  BY <1>4, <1>5, <1>6 DEF DnsInv, DnsCalls, DnsCallOK
<1>9. DnsCompany'
  BY <1>7 DEF DnsInv, DnsCompany
<1>10. DnsCopies'
  BY <1>3, <1>4, <1>5, <1>6 DEF DnsInv, DnsCopies
<1>11. DnsFile'
  BY <1>1, <1>2, <1>7, DnsFileLater
<1>12. DnsTypes'
  BY <1>2 DEF DnsInv, DnsTypes, memory, answers
<1> QED
  BY <1>8, <1>9, <1>10, <1>11, <1>12 DEF DnsInv

\* The thread has ended, and none that changes the registry has come.
LEMMA DnsEnds ==
  ASSUME DnsInv, NEW t \in DnsThreads, dnsCall' = [dnsCall EXCEPT ![t] = DnsIdle], UNCHANGED memory
  PROVE  /\ DnsCalls' /\ DnsCompany' /\ DnsCopies' /\ ~ Changing(t)'
         /\ \A u \in DnsThreads \ {t} : Changing(u)' <=> Changing(u)
<1>1. DOMAIN dnsCall' = DnsThreads /\ dnsCall'[t] = DnsIdle /\ \A u \in DnsThreads \ {t} : dnsCall'[u] = dnsCall[u]
  BY DEF DnsInv, DnsCalls
<1>2. DnsIdle.at = "idle"
  BY DEF DnsIdle
<1>3. Memory' = Memory /\ dnsObj' = dnsObj /\ dnsEntries' = dnsEntries
  BY DEF Memory, memory
<1>4. DnsCalls'
  BY <1>1, <1>3 DEF DnsInv, DnsCalls, DnsCallOK
<1>5. ~ Changing(t)' /\ \A u \in DnsThreads \ {t} : Changing(u)' <=> Changing(u)
  BY <1>1, <1>2 DEF Changing
<1>6. DnsCompany'
  <2> SUFFICES ASSUME NEW v \in DnsThreads, NEW u \in DnsThreads \ {v}, Changing(v)', dnsCall'[v].alone
               PROVE  ~ Changing(u)'
    BY DEF DnsCompany
  <2>1. v # t /\ Changing(v) /\ dnsCall[v].alone
    BY <1>1, <1>5
  <2>2. ~ Changing(u)
    BY <2>1 DEF DnsInv, DnsCompany
  <2> QED
    BY <1>5, <2>2
<1>7. DnsCopies'
  BY <1>1, <1>2, <1>3 DEF DnsInv, DnsCopies
<1> QED
  BY <1>4, <1>5, <1>6, <1>7

LEMMA FileWritten ==
  ASSUME DnsInv, NEW t \in DnsThreads, WriteFile(t)
  PROVE  DnsInv'
<1> DEFINE c == dnsCall[t]
<1>1. c.at = "open" /\ DnsWriting(c) /\ Changing(t)
  BY DnsShapes DEF WriteFile, At, DnsInv, Changing
<1>2. /\ dnsCall' = [dnsCall EXCEPT ![t] = DnsIdle] /\ dnsRaced' = ~ c.alone /\ UNCHANGED <<memory, answers>>
      /\ dnsSaved' \in {c.copy} \cup (IF c.alone THEN {} ELSE {TornFile})
  BY DEF WriteFile
<1>3. c.alone \in BOOLEAN /\ WellFormed(c.copy)
  BY <1>1 DEF DnsWriting
<1>4. DnsCalls' /\ DnsCompany' /\ DnsCopies'
  BY <1>2, DnsEnds
<1>5. c.alone => c.copy = Memory
  BY <1>1 DEF DnsInv, DnsCopies
<1>6. Memory' = Memory
  BY <1>2 DEF Memory, memory
<1> HIDE DEF c
<1>7. DnsFile'
  BY <1>2, <1>3, <1>5, <1>6 DEF DnsFile, RestartKeepsAnswers
<1>8. DnsTypes'
  BY <1>2, <1>3 DEF DnsInv, DnsTypes, memory, answers
<1> QED
  BY <1>4, <1>7, <1>8 DEF DnsInv

LEMMA SaveBroken ==
  ASSUME DnsInv, NEW t \in DnsThreads, SaveBreaks(t)
  PROVE  DnsInv'
<1>1. /\ dnsCall' = [dnsCall EXCEPT ![t] = DnsIdle] /\ dnsRaced' = TRUE /\ UNCHANGED <<memory, answers, dnsSaved>>
  BY DEF SaveBreaks
<1>2. DnsCalls' /\ DnsCompany' /\ DnsCopies'
  BY <1>1, DnsEnds
<1>3. DnsFile'
  BY <1>1 DEF DnsInv, DnsFile, RestartKeepsAnswers
<1>4. DnsTypes'
  BY <1>1 DEF DnsInv, DnsTypes, memory, answers
<1> QED
  BY <1>2, <1>3, <1>4 DEF DnsInv

\* What is asked of the resolver, and time, leave requests and file alone.
LEMMA DnsLeftAlone ==
  ASSUME DnsInv, UNCHANGED <<memory, dnsSaved, dnsCall, requests, dnsUp, dnsRaced>>,
         dnsExpired' \subseteq DOMAIN dnsObj, dnsCache' \in [Keys -> {Nobody} \cup SUBSET DOMAIN dnsObj]
  PROVE  DnsInv'
<1>1. Memory' = Memory /\ \A t \in DnsThreads : Changing(t)' <=> Changing(t)
  BY DEF Memory, memory, Changing
<1>2. DnsTypes'
  BY DEF DnsInv, DnsTypes, memory
<1>3. DnsCalls' /\ DnsCompany' /\ DnsCopies' /\ DnsFile'
  BY <1>1 DEF DnsInv, DnsCalls, DnsCompany, DnsCopies, DnsFile, RestartKeepsAnswers, memory
<1> QED
  BY <1>2, <1>3 DEF DnsInv

LEMMA RegistryReloads ==
  ASSUME DnsInv, RestartDns
  PROVE  DnsInv'
<1> DEFINE s == dnsSaved
<1>1. WellFormed(s)
  BY DEF DnsInv, DnsFile, RestartDns
<1>2. /\ dnsObj' = s.objs /\ dnsEntries' = s.entries /\ dnsRecords' = s.records /\ dnsOwners' = s.owners
      /\ dnsExpired' = dnsExpired \cap DOMAIN s.objs /\ dnsCache' = [k \in Keys |-> Nobody]
      /\ dnsCall' = [t \in DnsThreads |-> DnsIdle] /\ dnsRaced' = FALSE
      /\ UNCHANGED <<dnsSaved, requests, dnsUp>>
  BY DEF RestartDns
<1> HIDE DEF s
<1>3. DnsTypes'
  BY <1>1, <1>2 DEF WellFormed, DnsInv, DnsTypes
<1>4. Memory' = s
  BY <1>1, <1>2 DEF WellFormed, Memory
<1>5. \A t \in DnsThreads : dnsCall'[t] = DnsIdle /\ dnsCall'[t].at = "idle" /\ ~ Changing(t)'
  BY <1>2 DEF DnsIdle, Changing
<1>6. DnsCalls' /\ DnsCompany' /\ DnsCopies'
  BY <1>2, <1>5 DEF DnsCalls, DnsCallOK, DnsCompany, DnsCopies
<1>7. DnsFile'
  BY <1>1, <1>2, <1>4 DEF DnsFile, RestartKeepsAnswers, s
<1> QED
  BY <1>3, <1>6, <1>7 DEF DnsInv

LEMMA RegistryStops ==
  ASSUME DnsInv, StopForGood
  PROVE  DnsInv'
<1>1. /\ dnsUp' = FALSE /\ dnsCall' = [t \in DnsThreads |-> DnsIdle]
      /\ UNCHANGED <<memory, dnsSaved, dnsExpired, dnsCache, requests, dnsRaced>>
  BY DEF StopForGood
<1>2. \A t \in DnsThreads : dnsCall'[t] = DnsIdle /\ dnsCall'[t].at = "idle" /\ ~ Changing(t)'
  BY <1>1 DEF DnsIdle, Changing
<1>3. DnsCalls' /\ DnsCompany' /\ DnsCopies'
  BY <1>1, <1>2 DEF DnsCalls, DnsCallOK, DnsCompany, DnsCopies
<1>4. DnsFile' /\ DnsTypes'
  BY <1>1 DEF DnsInv, DnsFile, RestartKeepsAnswers, DnsTypes, memory
<1> QED
  BY <1>3, <1>4 DEF DnsInv

LEMMA DnsStep == DnsInv /\ [DnsNext]_dnsVars => DnsInv'
<1> SUFFICES ASSUME DnsInv, [DnsNext]_dnsVars PROVE DnsInv'
  OBVIOUS
<1>1. CASE UNCHANGED dnsVars
  BY <1>1, DnsLeftAlone DEF dnsVars, memory, DnsInv, DnsTypes
<1>2. ASSUME NEW t \in DnsThreads, Request(t) PROVE DnsInv'
  BY <1>2, RequestChecked, NameTested, ListSet, NewOwnerSet, RegistrationAppended, RecordAdded, AddFailed,
     OwnerSet, RecordsMoved, FileOpened, FileWritten, SaveBroken DEF Request
<1>3. ASSUME NEW n \in DnsNames, NEW type \in QueryTypes, LookUp(n, type) PROVE DnsInv'
  <2> DEFINE k == <<Normal[n], type>>
             found == ResolveRecursive(n, type)
  <2>1. found \in SUBSET DOMAIN dnsObj
    BY FollowType DEF DnsInv
  <2>2. dnsCache' = [dnsCache EXCEPT ![k] = found]
    BY <1>3 DEF LookUp
  <2> HIDE DEF k, found
  <2>3. dnsCache' \in [Keys -> {Nobody} \cup SUBSET DOMAIN dnsObj]
    BY <2>1, <2>2 DEF DnsInv, DnsTypes
  <2> QED
    BY <1>3, <2>3, DnsLeftAlone DEF LookUp, DnsInv, DnsTypes
<1>4. ASSUME NEW names \in {DnsNames} \cup {{n} : n \in DnsNames}, FlushCache(names) PROVE DnsInv'
  <2>1. dnsCache' \in [Keys -> {Nobody} \cup SUBSET DOMAIN dnsObj]
    BY <1>4 DEF FlushCache, DnsInv, DnsTypes
  <2> QED
    BY <1>4, <2>1, DnsLeftAlone DEF FlushCache, DnsInv, DnsTypes
<1>5. ASSUME NEW k \in Keys, CacheAge(k) PROVE DnsInv'
  <2>1. dnsCache' \in [Keys -> {Nobody} \cup SUBSET DOMAIN dnsObj]
    BY <1>5 DEF CacheAge, DnsInv, DnsTypes
  <2> QED
    BY <1>5, <2>1, DnsLeftAlone DEF CacheAge, DnsInv, DnsTypes
<1>6. ASSUME NEW i \in DOMAIN dnsObj, RecordExpires(i) PROVE DnsInv'
  BY <1>6, DnsLeftAlone DEF RecordExpires, DnsInv, DnsTypes
<1> QED
  BY <1>1, <1>2, <1>3, <1>4, <1>5, <1>6, RegistryReloads, RegistryStops DEF DnsNext

LEMMA DnsAlways == DnsSpec => []DnsInv
  BY DnsStart, DnsStep, PTL DEF DnsSpec

\* For any names, owners, threads, fees, aliases and bounds, and whichever steps of requests
\* interleave: the registry keeps its types, every name resolves to the end of its chain of
\* aliases, and the file of requests that came one at a time answers as the memory does after
\* a restart.  Of the file that requests wrote at the same time it says nothing.
THEOREM DnsIsConsistent == DnsSpec => []DnsConsistent
<1>1. DnsInv => DnsTypeOK /\ RestartKeepsAnswers
  BY DEF DnsInv, DnsTypes, DnsFile, DnsTypeOK
<1>2. DnsInv => AliasesResolve
  BY AliasesHold DEF DnsInv
<1>3. DnsInv => DnsConsistent
  BY <1>1, <1>2 DEF DnsConsistent
<1> QED
  BY <1>3, DnsAlways, PTL

\* An owner changes by a transfer, by a registration that found the name free when it looked
\* (several that looked at the same time all succeed, and the last one has the name), or by a
\* restart with a file that requests wrote at the same time or were about to write.
THEOREM OwnersChangeByTransfer == DnsSpec => OwnerChangesByTransfer
<1> DEFINE Change(n) == \E t \in DnsThreads :
                  /\ dnsCall'[t] # dnsCall[t]
                  /\ \/ At(t, "checked") /\ dnsCall[t].op = "transfer"
                     \/ At(t, "listed") /\ dnsCall[t].new
                  /\ dnsCall[t].name = n
           Reload == RestartDns /\ (dnsRaced \/ \E t \in DnsThreads : Changing(t))
<1>1. ASSUME DnsInv, DnsNext, NEW n \in DnsNames, dnsOwners'[n] # dnsOwners[n] PROVE Change(n) \/ Reload
  <2>1. ASSUME NEW t \in DnsThreads, SetNewOwner(t) PROVE Change(n)
    <3> DEFINE c == dnsCall[t]
               d == [c EXCEPT !.at = "set"]
    <3>1. At(t, "listed") /\ c.at = "listed" /\ c \in DnsAsked(DOMAIN dnsObj) /\ RegisterName(c)
      BY <1>1, <2>1, DnsShapes DEF SetNewOwner, Goes, At, DnsInv
    <3>2. dnsCall'[t] = d
      BY <1>1, <2>1 DEF SetNewOwner, Goes, DnsInv, DnsCalls
    <3> HIDE DEF c
    <3>3. d.at = "set"
      BY <3>1 DEF DnsAsked
    <3> HIDE DEF d
    <3>4. c.new /\ c.name = n
      BY <1>1, <3>1 DEF RegisterName, DnsInv, DnsTypes
    <3>5. dnsCall'[t] # c
      BY <3>1, <3>2, <3>3
    <3> QED
      BY <3>1, <3>4, <3>5 DEF c
  <2>2. ASSUME NEW t \in DnsThreads, SetOwner(t) PROVE Change(n)
    <3> DEFINE c == dnsCall[t]
               d == [c EXCEPT !.at = "set"]
    <3>1. /\ At(t, "checked") /\ c.at = "checked" /\ c \in DnsAsked(DOMAIN dnsObj) /\ c.op = "transfer"
          /\ dnsOwners' = [dnsOwners EXCEPT ![c.name] = c.to] /\ Begins(t, d)
      BY <1>1, <2>2, DnsShapes DEF SetOwner, At, DnsInv
    <3> HIDE DEF c
    <3>2. d.at = "set" /\ d \in DnsAsked(DOMAIN dnsObj)
      BY <3>1 DEF DnsAsked
    <3> HIDE DEF d
    <3>3. dnsCall'[t].at = "set"
      <4> DEFINE b == \A v \in DnsThreads \ {t} : ~ Changing(v)
      <4>1. dnsCall'[t] = [d EXCEPT !.alone = b]
        BY <3>1 DEF Begins
      <4> HIDE DEF b
      <4> QED
        BY <3>2, <4>1 DEF DnsAsked
    <3>4. c.name = n
      BY <1>1, <3>1 DEF DnsInv, DnsTypes
    <3>5. dnsCall'[t] # c
      BY <3>1, <3>3
    <3> QED
      BY <3>1, <3>4, <3>5 DEF c
  <2>3. ASSUME RestartDns PROVE Reload
    <3> SUFFICES ASSUME ~ dnsRaced, \A t \in DnsThreads : ~ Changing(t) PROVE FALSE
      BY <2>3
    <3>1. dnsSaved = Memory
      BY <1>1 DEF DnsInv, DnsFile, RestartKeepsAnswers, DnsNext
    <3>2. dnsSaved.owners = dnsOwners
      BY <3>1 DEF Memory
    <3> QED
      BY <1>1, <2>3, <3>2 DEF RestartDns
  <2>4. \/ \E t \in DnsThreads : SetNewOwner(t) \/ SetOwner(t)
        \/ RestartDns
    BY <1>1 DEF DnsNext, Request, CheckRequest, TestName, SetList, RegisterAppends, AddRecord, AddFails, MoveRecords,
                OpenFile, WriteFile, SaveBreaks, LookUp, FlushCache, CacheAge, RecordExpires, StopForGood,
                AppendRecord, memory
  <2> QED
    BY <2>1, <2>2, <2>3, <2>4
<1>2. ASSUME DnsInv, [DnsNext]_dnsVars, NEW n \in DnsNames, Known(n) /\ dnsOwners'[n] # dnsOwners[n]
      PROVE  Change(n) \/ Reload
  <2>1. ~ UNCHANGED dnsVars
    BY <1>2 DEF dnsVars
  <2> HIDE DEF Change, Reload
  <2> QED
    BY <1>1, <1>2, <2>1
<1>3. DnsInv /\ [DnsNext]_dnsVars =>
    [\A n \in DnsNames :
        Known(n) /\ dnsOwners'[n] # dnsOwners[n] =>
            \/ \E t \in DnsThreads :
                  /\ dnsCall'[t] # dnsCall[t]
                  /\ \/ At(t, "checked") /\ dnsCall[t].op = "transfer"
                     \/ At(t, "listed") /\ dnsCall[t].new
                  /\ dnsCall[t].name = n
            \/ RestartDns /\ (dnsRaced \/ \E t \in DnsThreads : Changing(t))]_dnsVars
  BY <1>2
<1> QED
  BY <1>3, DnsAlways, PTL DEF DnsSpec, OwnerChangesByTransfer

(* -------------------------------- identity ------------------------------- *)

Documents == [handle : Handles \cup {NoHandle}, services : Nat]

\* What the memory holds, a copy of it, or a whole file.
WellKept(s) ==
    /\ s = [order |-> s.order, docs |-> s.docs, claims |-> s.claims]
    /\ s.order \in Seq(Dids) /\ IsInjective(s.order)
    /\ s.docs = [d \in Dids |-> s.docs[d]] /\ s.claims \in [Dids -> Seq(Claims)]
    /\ \A d \in Dids : IF d \in Range(s.order) THEN s.docs[d] \in Documents
                       ELSE s.docs[d] = NoHandle /\ s.claims[d] = <<>>
    /\ \A d \in Dids : \A c \in Range(s.claims[d]) : ClaimOf[c].subject = d

IdentityTypes ==
    /\ didOrder \in Seq(Dids) /\ IsInjective(didOrder)
    /\ Range(didOrder) = {d \in Dids : Registered(d)}
    /\ idObj \in Seq(Documents) /\ didDoc \in [Dids -> 0..Len(idObj)]
    /\ handleIdx \in [Handles -> Dids \cup {NoHandle}]
    /\ didClaims \in [Dids -> Seq(Claims)]
    /\ \A d \in Dids : didClaims[d] # <<>> => Registered(d)
    /\ \A d \in Dids : \A c \in Range(didClaims[d]) : ClaimOf[c].subject = d
    /\ proofCount \in [Dids -> Nat] /\ penalties \in [Dids -> Nat]

IdRegistering ==
    [at : {"checked", "put", "named"}, alone : BOOLEAN, op : {"register"}, did : Dids,
     handle : Handles \cup {NoHandle}]
IdServing == [at : {"checked", "added", "indexed"}, alone : BOOLEAN, op : {"service"}, did : Dids, obj : Nat]
IdClaiming == [at : {"checked"}, alone : BOOLEAN, op : {"claim"}, claim : Claims]
IdSaving == [at : {"changed"}, alone : BOOLEAN]
IdWriting(c) == c \in [at : {"open"}, alone : BOOLEAN, copy : {c.copy}] /\ WellKept(c.copy)

\* A request between its checks and its end; obj, doc and twice are the objects, _dids, and
\* the DIDs that were registered a second time.
IdCallOK(c, obj, doc, twice) ==
    \/ c = IdIdle
    \/ /\ c \in IdRegistering
       /\ c.at # "checked" => doc[c.did] # 0
       /\ c.at = "put" => obj[doc[c.did]].handle = c.handle \/ c.did \in twice
    \/ /\ c \in IdServing /\ c.obj \in DOMAIN obj /\ doc[c.did] # 0
       /\ c.obj = doc[c.did] \/ c.did \in twice
    \/ c \in IdClaiming /\ doc[ClaimOf[c.claim].subject] # 0
    \/ c \in IdSaving
    \/ IdWriting(c)

IdCalls ==
    DOMAIN idCall = IdThreads /\ \A t \in IdThreads : IdCallOK(idCall[t], idObj, didDoc, replaced)

\* A request that changes the registry alone does so alone.
IdCompany ==
    \A t \in IdThreads : \A u \in IdThreads \ {t} : Alters(t) /\ idCall[t].alone => ~ Alters(u)

\* And what it is going to write is what the memory holds.
IdCopies ==
    \A t \in IdThreads : idCall[t].at = "open" /\ idCall[t].alone => idCall[t].copy = Kept

IdFile ==
    /\ idSaved # NoHandle => WellKept(idSaved)
    /\ idUp /\ ~ idRaced /\ (\A t \in IdThreads : ~ Alters(t)) => idSaved = Kept

\* The handle of a document has an entry, or a registration is about to make one.
HandlesEntered ==
    idUp /\ replaced = {} => \A d \in Dids : Registered(d) /\ Doc(d).handle # NoHandle =>
        \/ handleIdx[Doc(d).handle] # NoHandle
        \/ \E t \in IdThreads : idCall[t].at = "put" /\ idCall[t].handle = Doc(d).handle

IdentityInv ==
    /\ IdentityTypes /\ IdCalls /\ IdCompany /\ IdCopies /\ IdFile
    /\ HandleResolves /\ HandlesEntered

LEMMA IdentityStart == IdentityInit => IdentityInv
<1> SUFFICES ASSUME IdentityInit PROVE IdentityInv
  OBVIOUS
<1>1. Range(<<>>) = {} /\ IsInjective(<<>>) /\ Len(<<>>) = 0
  BY DEF Range, IsInjective
<1>2. <<>> \in Seq(Dids) /\ <<>> \in Seq(Claims) /\ <<>> \in Seq(Documents)
  OBVIOUS
<1>3. \A d \in Dids : ~ Registered(d) /\ Doc(d) = NoHandle /\ didClaims[d] = <<>>
  BY DEF IdentityInit, Registered, Doc
<1>4. IdentityTypes
  <2>1. /\ didOrder \in Seq(Dids) /\ IsInjective(didOrder) /\ Range(didOrder) = {d \in Dids : Registered(d)}
        /\ idObj \in Seq(Documents) /\ didDoc \in [Dids -> 0..Len(idObj)]
    BY <1>1, <1>2, <1>3 DEF IdentityInit
  <2>2. /\ handleIdx \in [Handles -> Dids \cup {NoHandle}] /\ didClaims \in [Dids -> Seq(Claims)]
        /\ proofCount \in [Dids -> Nat] /\ penalties \in [Dids -> Nat]
    BY <1>2 DEF IdentityInit
  <2> QED
    BY <1>1, <1>3, <2>1, <2>2 DEF IdentityTypes
<1>5. WellKept(idSaved) /\ idSaved = Kept
  <2> DEFINE docs == [d \in Dids |-> Doc(d)]
  <2>1. docs = [d \in Dids |-> NoHandle]
    BY <1>3
  <2>2. idSaved = [order |-> <<>>, docs |-> docs, claims |-> didClaims] /\ didOrder = <<>>
    BY <2>1 DEF IdentityInit
  <2> HIDE DEF docs
  <2>3. docs = [d \in Dids |-> docs[d]]
    BY <2>1
  <2> QED
    BY <1>1, <1>2, <1>3, <1>4, <2>1, <2>2, <2>3 DEF WellKept, Kept, IdentityTypes, docs
<1>6. \A t \in IdThreads : idCall[t] = IdIdle /\ idCall[t].at = "idle" /\ ~ Alters(t)
  BY DEF IdentityInit, IdIdle, Alters
<1>7. IdCalls /\ IdCompany /\ IdCopies
  BY <1>6 DEF IdentityInit, IdCalls, IdCallOK, IdCompany, IdCopies
<1>8. HandleResolves /\ HandlesEntered
  BY <1>3 DEF IdentityInit, HandleResolves, ResolveHandle, HandlesEntered
<1> QED
  BY <1>4, <1>5, <1>7, <1>8 DEF IdentityInv, IdFile

\* The step at which a thread is tells what its call looks like.
LEMMA IdShapes ==
  ASSUME IdCalls, NEW t \in IdThreads
  PROVE  /\ idCall[t].at = "checked" => idCall[t].op \in {"register", "service", "claim"}
         /\ idCall[t].at \in {"put", "named"} \/ (idCall[t].at = "checked" /\ idCall[t].op = "register") =>
               idCall[t] \in IdRegistering
         /\ idCall[t].at \in {"added", "indexed"} \/ (idCall[t].at = "checked" /\ idCall[t].op = "service") =>
               idCall[t] \in IdServing
         /\ idCall[t].at = "checked" /\ idCall[t].op = "claim" => idCall[t] \in IdClaiming
         /\ idCall[t].at = "changed" => idCall[t] \in IdSaving
         /\ idCall[t].at = "open" => IdWriting(idCall[t])
<1>1. IdCallOK(idCall[t], idObj, didDoc, replaced)
  BY DEF IdCalls
<1>2. \A c : IdWriting(c) => c.at = "open"
  BY DEF IdWriting
<1> QED
  BY <1>1, <1>2 DEF IdCallOK, IdIdle, IdRegistering, IdServing, IdClaiming, IdSaving

\* What the call says of the registry.
LEMMA IdStands ==
  ASSUME IdCalls, NEW t \in IdThreads
  PROVE  /\ idCall[t].at \in {"put", "named"} => didDoc[idCall[t].did] # 0
         /\ idCall[t].at = "put" => idObj[didDoc[idCall[t].did]].handle = idCall[t].handle \/ idCall[t].did \in replaced
         /\ idCall[t].at \in {"added", "indexed"} \/ (idCall[t].at = "checked" /\ idCall[t].op = "service") =>
               /\ idCall[t].obj \in DOMAIN idObj /\ didDoc[idCall[t].did] # 0
               /\ idCall[t].obj = didDoc[idCall[t].did] \/ idCall[t].did \in replaced
         /\ idCall[t].at = "checked" /\ idCall[t].op = "claim" => didDoc[ClaimOf[idCall[t].claim].subject] # 0
<1>1. IdCallOK(idCall[t], idObj, didDoc, replaced)
  BY DEF IdCalls
<1>2. \A c : IdWriting(c) => c.at = "open"
  BY DEF IdWriting
<1> QED
  BY <1>1, <1>2 DEF IdCallOK, IdIdle, IdRegistering, IdServing, IdClaiming, IdSaving

\* Objects are added and keep their handles, and a DID changes its object only when it was
\* registered a second time.
IdGrows(obj, doc, twice, obj2, doc2, twice2) ==
    /\ DOMAIN obj \subseteq DOMAIN obj2 /\ \A i \in DOMAIN obj : obj2[i].handle = obj[i].handle
    /\ twice \subseteq twice2
    /\ \A d \in Dids : doc[d] # 0 => doc[d] \in DOMAIN obj /\ doc2[d] # 0 /\ (doc2[d] = doc[d] \/ d \in twice2)

LEMMA IdCallGrows ==
  ASSUME NEW obj, NEW doc, NEW twice, NEW obj2, NEW doc2, NEW twice2, IdGrows(obj, doc, twice, obj2, doc2, twice2),
         NEW c, IdCallOK(c, obj, doc, twice)
  PROVE  IdCallOK(c, obj2, doc2, twice2)
<1>1. CASE c \in IdRegistering /\ c.at # "checked" /\ doc[c.did] # 0
  BY <1>1 DEF IdGrows, IdCallOK, IdRegistering, IdIdle, IdServing, IdClaiming, IdSaving, IdWriting
<1>2. CASE c \in IdRegistering /\ c.at = "checked"
  BY <1>2 DEF IdCallOK
<1>3. CASE c \in IdServing /\ c.obj \in DOMAIN obj /\ doc[c.did] # 0 /\ (c.obj = doc[c.did] \/ c.did \in twice)
  BY <1>3 DEF IdGrows, IdCallOK, IdServing
<1>4. CASE c \in IdClaiming /\ doc[ClaimOf[c.claim].subject] # 0
  <2>1. ClaimOf[c.claim].subject \in Dids
    BY <1>4, IdentityAssumption DEF IdClaiming
  <2> QED
    BY <1>4, <2>1 DEF IdGrows, IdCallOK
<1> QED
  BY <1>1, <1>2, <1>3, <1>4 DEF IdCallOK

LEMMA IdCallDisturbed ==
  ASSUME NEW obj, NEW doc, NEW twice, NEW c, IdCallOK(c, obj, doc, twice), c.at \notin {"idle", "checked"}
  PROVE  /\ IdCallOK([c EXCEPT !.alone = FALSE], obj, doc, twice)
         /\ [c EXCEPT !.alone = FALSE].at = c.at /\ [c EXCEPT !.alone = FALSE].alone = FALSE
         /\ c.at = "put" => [c EXCEPT !.alone = FALSE].handle = c.handle
<1> DEFINE d == [c EXCEPT !.alone = FALSE]
<1>1. CASE c \in IdRegistering /\ doc[c.did] # 0 /\ (c.at = "put" => obj[doc[c.did]].handle = c.handle \/ c.did \in twice)
  <2>1. d \in IdRegistering /\ d.at = c.at /\ d.did = c.did /\ d.handle = c.handle /\ d.alone = FALSE
    BY <1>1 DEF IdRegistering
  <2> HIDE DEF d
  <2>2. IdCallOK(d, obj, doc, twice)
    BY <1>1, <2>1 DEF IdCallOK
  <2> QED
    BY <2>1, <2>2 DEF d
<1>2. CASE c \in IdServing /\ c.obj \in DOMAIN obj /\ doc[c.did] # 0 /\ (c.obj = doc[c.did] \/ c.did \in twice)
  <2>1. d \in IdServing /\ d.at = c.at /\ d.did = c.did /\ d.obj = c.obj /\ d.alone = FALSE /\ c.at # "put"
    BY <1>2 DEF IdServing
  <2> HIDE DEF d
  <2>2. IdCallOK(d, obj, doc, twice)
    BY <1>2, <2>1 DEF IdCallOK
  <2> QED
    BY <2>1, <2>2 DEF d
<1>3. CASE c \in IdSaving
  BY <1>3 DEF IdCallOK, IdSaving
<1>4. CASE IdWriting(c)
  <2> DEFINE q == c.copy
  <2>1. c \in [at : {"open"}, alone : BOOLEAN, copy : {q}] /\ WellKept(q)
    BY <1>4 DEF IdWriting
  <2> HIDE DEF q
  <2>2. d \in [at : {"open"}, alone : BOOLEAN, copy : {q}] /\ d.alone = FALSE /\ d.at = c.at /\ c.at # "put"
    BY <2>1
  <2> HIDE DEF d
  <2>3. d.copy = q
    BY <2>2
  <2> QED
    BY <2>1, <2>2, <2>3 DEF IdCallOK, IdWriting, d
<1> QED
  BY <1>1, <1>2, <1>3, <1>4 DEF IdCallOK, IdIdle, IdRegistering, IdClaiming

IdRegistryGrows == IdGrows(idObj, didDoc, replaced, idObj', didDoc', replaced')

\* A request that begins to change the registry takes the others' being alone.
LEMMA IdBegins ==
  ASSUME IdentityInv, NEW t \in IdThreads, ~ Alters(t), NEW c, Enters(t, c), IdRegistryGrows,
         NEW step \in {"put", "added", "changed"},
         \A b \in BOOLEAN : /\ IdCallOK([c EXCEPT !.alone = b], idObj', didDoc', replaced')
                            /\ [c EXCEPT !.alone = b].at = step /\ [c EXCEPT !.alone = b].alone = b
  PROVE  /\ IdCalls' /\ IdCompany' /\ IdCopies' /\ Alters(t)' /\ idCall'[t].at = step
         /\ \E b \in BOOLEAN : idCall'[t] = [c EXCEPT !.alone = b]
         /\ \A u \in IdThreads \ {t} : idCall[u].at = "put" =>
                idCall'[u].at = "put" /\ idCall'[u].handle = idCall[u].handle
<1> DEFINE b == \A v \in IdThreads \ {t} : ~ Alters(v)
           d == [c EXCEPT !.alone = b]
<1>1. IdCallOK(d, idObj', didDoc', replaced') /\ d.at = step /\ d.alone = b /\ b \in BOOLEAN
  <2>1. b \in BOOLEAN
    OBVIOUS
  <2> HIDE DEF b
  <2> QED
    BY <2>1
<1>2. /\ DOMAIN idCall' = IdThreads /\ idCall'[t] = d
      /\ \A u \in IdThreads \ {t} :
            idCall'[u] = IF Alters(u) THEN [idCall[u] EXCEPT !.alone = FALSE] ELSE idCall[u]
  BY DEF Enters
<1>9. \E x \in BOOLEAN : idCall'[t] = [c EXCEPT !.alone = x]
  <2> HIDE DEF b
  <2> QED
    BY <1>1, <1>2
<1> HIDE DEF d
<1>3. ASSUME NEW u \in IdThreads \ {t}
      PROVE  /\ IdCallOK(idCall'[u], idObj', didDoc', replaced') /\ idCall'[u].at = idCall[u].at
             /\ Alters(u) => idCall'[u].alone = FALSE
             /\ Alters(u)' <=> Alters(u)
             /\ idCall[u].at = "put" => idCall'[u].handle = idCall[u].handle
  <2>1. IdCallOK(idCall[u], idObj', didDoc', replaced')
    BY IdCallGrows DEF IdentityInv, IdCalls, IdRegistryGrows
  <2>2. CASE Alters(u)
    <3>1. idCall'[u] = [idCall[u] EXCEPT !.alone = FALSE] /\ idCall[u].at \notin {"idle", "checked"}
      BY <1>2, <2>2 DEF Alters
    <3> QED
      BY <2>1, <2>2, <3>1, IdCallDisturbed DEF Alters
  <2>3. CASE ~ Alters(u)
    BY <1>2, <2>1, <2>3 DEF Alters
  <2> QED
    BY <2>2, <2>3
<1>4. IdCalls'
  BY <1>1, <1>2, <1>3 DEF IdCalls
<1>5. Alters(t)' /\ idCall'[t].at = step
  BY <1>1, <1>2 DEF Alters
<1>6. IdCompany'
  <2> SUFFICES ASSUME NEW v \in IdThreads, NEW u \in IdThreads \ {v}, Alters(v)', idCall'[v].alone
               PROVE  ~ Alters(u)'
    BY DEF IdCompany
  <2>1. v = t
    BY <1>3
  <2>2. ~ Alters(u)
    BY <1>1, <1>2, <2>1
  <2> QED
    BY <1>3, <2>1, <2>2
<1>7. IdCopies'
  <2> SUFFICES ASSUME NEW v \in IdThreads, idCall'[v].at = "open", idCall'[v].alone PROVE FALSE
    BY DEF IdCopies
  <2>1. v # t
    BY <1>1, <1>2
  <2>2. Alters(v)
    BY <1>3, <2>1 DEF Alters
  <2> QED
    BY <1>3, <2>1, <2>2
<1>8. \A u \in IdThreads \ {t} : idCall[u].at = "put" =>
                idCall'[u].at = "put" /\ idCall'[u].handle = idCall[u].handle
  BY <1>3
<1> HIDE DEF b
<1> QED
  BY <1>4, <1>5, <1>6, <1>7, <1>8, <1>9

\* One that is about it goes on; nobody else who writes is alone.
LEMMA IdGoesOn ==
  ASSUME IdentityInv, NEW t \in IdThreads, Alters(t), NEW c, idCall' = [idCall EXCEPT ![t] = c],
         IdRegistryGrows, IdCallOK(c, idObj', didDoc', replaced'),
         c.at \in {"named", "indexed", "changed"}, c.alone = idCall[t].alone
  PROVE  /\ IdCalls' /\ IdCompany' /\ IdCopies' /\ Alters(t)'
         /\ \A u \in IdThreads \ {t} : idCall'[u] = idCall[u]
<1>1. DOMAIN idCall' = IdThreads /\ idCall'[t] = c /\ \A u \in IdThreads \ {t} : idCall'[u] = idCall[u]
  BY DEF IdentityInv, IdCalls
<1>2. \A u \in IdThreads : Alters(u)' <=> Alters(u)
  BY <1>1 DEF Alters
<1>3. IdCalls'
  BY <1>1, IdCallGrows DEF IdentityInv, IdCalls, IdRegistryGrows
<1>4. IdCompany'
  BY <1>1, <1>2 DEF IdentityInv, IdCompany
<1>5. IdCopies'
  <2> SUFFICES ASSUME NEW v \in IdThreads, idCall'[v].at = "open", idCall'[v].alone PROVE FALSE
    BY DEF IdCopies
  <2>1. v # t /\ idCall'[v] = idCall[v]
    BY <1>1
  <2>2. Alters(v)
    BY <2>1 DEF Alters
  <2> QED
    BY <2>1, <2>2 DEF IdentityInv, IdCompany
<1> QED
  BY <1>1, <1>2, <1>3, <1>4, <1>5

\* A file is not looked at while a request is changing the registry.
LEMMA IdFileLater ==
  ASSUME IdentityInv, NEW t \in IdThreads, Alters(t)', idSaved' = idSaved \/ idSaved' = NoHandle
  PROVE  IdFile'
  BY DEF IdentityInv, IdFile

\* What stays with the memory.
LEMMA IdMemoryStays ==
  ASSUME IdentityInv, UNCHANGED <<idMemory, counts>>
  PROVE  /\ IdentityTypes' /\ HandleResolves' /\ Kept' = Kept
         /\ (\A u \in IdThreads : idCall[u].at = "put" => idCall'[u].at = "put" /\ idCall'[u].handle = idCall[u].handle)
            /\ idUp' = idUp => HandlesEntered'
<1>1. \A d : (Registered(d)' <=> Registered(d)) /\ Doc(d)' = Doc(d)
  BY DEF Registered, Doc, idMemory
<1>2. IdentityTypes'
  BY <1>1 DEF IdentityInv, IdentityTypes, idMemory, counts
<1>3. HandleResolves'
  BY <1>1 DEF IdentityInv, HandleResolves, ResolveHandle, idMemory
<1>4. Kept' = Kept
  BY <1>1 DEF Kept, idMemory
<1>5. ASSUME idUp' = idUp, \A u \in IdThreads : idCall[u].at = "put" => idCall'[u].at = "put" /\ idCall'[u].handle = idCall[u].handle
      PROVE  HandlesEntered'
  BY <1>1, <1>5 DEF IdentityInv, HandlesEntered, idMemory
<1> QED
  BY <1>2, <1>3, <1>4, <1>5

LEMMA IdCallChecked ==
  ASSUME IdentityInv, NEW t \in IdThreads, CheckCall(t)
  PROVE  IdentityInv'
<1>1. PICK ask \in IdAsks :
        /\ CheckDid(ask) \/ CheckService(ask) \/ CheckClaim(ask)
        /\ idCall' = [idCall EXCEPT ![t] = Accepted(ask)]
  BY DEF CheckCall
<1> DEFINE c == Accepted(ask)
<1>2. IdCallOK(c, idObj, didDoc, replaced) /\ c.at = "checked"
  <2>1. CASE CheckDid(ask)
    <3>1. ask.op = "register" /\ ask \in [op : {"register"}, did : Dids, handle : Handles \cup {NoHandle}]
      BY <2>1, IdentityAssumption DEF CheckDid
    <3>2. c = [at |-> "checked", alone |-> TRUE, op |-> "register", did |-> ask.did, handle |-> ask.handle]
      BY <3>1 DEF Accepted
    <3> HIDE DEF c
    <3>3. c \in IdRegistering /\ c.at = "checked"
      BY <3>1, <3>2 DEF IdRegistering
    <3> QED
      BY <3>3 DEF IdCallOK
  <2>2. CASE CheckService(ask)
    <3>1. ask.op = "service" /\ ask \in [op : {"service"}, did : Dids] /\ Registered(ask.did)
      BY <2>2, IdentityAssumption DEF CheckService
    <3>2. c = [at |-> "checked", alone |-> TRUE, op |-> "service", did |-> ask.did, obj |-> didDoc[ask.did]]
      BY <3>1 DEF Accepted
    <3>3. didDoc[ask.did] \in DOMAIN idObj /\ didDoc[ask.did] # 0 /\ didDoc[ask.did] \in Nat
      BY <3>1 DEF IdentityInv, IdentityTypes, Registered
    <3> HIDE DEF c
    <3>4. c \in IdServing /\ c.at = "checked" /\ c.did = ask.did /\ c.obj = didDoc[ask.did]
      BY <3>1, <3>2, <3>3 DEF IdServing
    <3> QED
      BY <3>3, <3>4 DEF IdCallOK
  <2>3. CASE CheckClaim(ask)
    <3>1. ask.op = "claim" /\ ask \in [op : {"claim"}, claim : Claims] /\ Registered(ClaimOf[ask.claim].subject)
      BY <2>3, IdentityAssumption DEF CheckClaim
    <3>2. c = [at |-> "checked", alone |-> TRUE, op |-> "claim", claim |-> ask.claim]
      BY <3>1 DEF Accepted
    <3> HIDE DEF c
    <3>3. c \in IdClaiming /\ c.at = "checked" /\ c.claim = ask.claim
      BY <3>1, <3>2 DEF IdClaiming
    <3> QED
      BY <3>1, <3>3 DEF IdCallOK, Registered
  <2> QED
    BY <1>1, <2>1, <2>2, <2>3
<1>3. /\ idCall' = [idCall EXCEPT ![t] = c] /\ idCall[t] = IdIdle
      /\ UNCHANGED <<idMemory, idSaved, idUp, idRaced, claimsOver, counts>>
  BY <1>1 DEF CheckCall
<1> HIDE DEF c
<1>4. DOMAIN idCall' = IdThreads /\ idCall'[t] = c /\ \A u \in IdThreads \ {t} : idCall'[u] = idCall[u]
  BY <1>3 DEF IdentityInv, IdCalls
<1>5. idCall[t].at = "idle"
  BY <1>3 DEF IdIdle
<1>6. \A u \in IdThreads : (Alters(u)' <=> Alters(u)) /\ (Alters(u) => idCall'[u] = idCall[u])
  BY <1>2, <1>4, <1>5 DEF Alters
<1>7. IdentityTypes' /\ HandleResolves' /\ Kept' = Kept /\ HandlesEntered'
  <2>1. \A u \in IdThreads : idCall[u].at = "put" => idCall'[u].at = "put" /\ idCall'[u].handle = idCall[u].handle
    BY <1>4, <1>5
  <2> QED
    BY <1>3, <2>1, IdMemoryStays
<1>8. IdCalls'
  BY <1>2, <1>3, <1>4 DEF IdentityInv, IdCalls, idMemory
<1>9. IdCompany' /\ IdFile'
  BY <1>3, <1>6, <1>7 DEF IdentityInv, IdCompany, IdFile
<1>10. IdCopies'
  <2>1. \A u \in IdThreads : idCall'[u].at = "open" => idCall'[u] = idCall[u]
    BY <1>2, <1>4
  <2> QED
    BY <1>7, <2>1 DEF IdentityInv, IdCopies
<1> QED
  BY <1>7, <1>8, <1>9, <1>10 DEF IdentityInv

LEMMA DocumentPut ==
  ASSUME IdentityInv, NEW t \in IdThreads, PutDocument(t)
  PROVE  IdentityInv'
<1> DEFINE c == idCall[t]
           o == [handle |-> c.handle, services |-> 0]
           d == [c EXCEPT !.at = "put"]
<1>1. c.at = "checked" /\ c \in IdRegistering /\ ~ Alters(t)
  BY IdShapes DEF PutDocument, Stands, IdentityInv, Alters
<1> HIDE DEF c
<1>2. c.did \in Dids /\ o \in Documents /\ o.handle = c.handle
  BY <1>1 DEF IdRegistering, Documents
<1>3. PICK w \in Dids, p \in Documents : w = c.did /\ p = o /\ p.handle = c.handle
  BY <1>2
<1>4. /\ Enters(t, d) /\ idObj' = Append(idObj, p)
      /\ didOrder' = (IF Registered(w) THEN didOrder ELSE Append(didOrder, w))
      /\ didDoc' = [didDoc EXCEPT ![w] = Len(idObj) + 1]
      /\ replaced' = (IF Registered(w) THEN replaced \cup {w} ELSE replaced)
      /\ UNCHANGED <<handleIdx, didClaims, aside>>
  BY <1>3 DEF PutDocument, c
<1> HIDE DEF o
<1>5. /\ idObj \in Seq(Documents) /\ didDoc \in [Dids -> 0..Len(idObj)] /\ Len(idObj) \in Nat
      /\ DOMAIN idObj = 1..Len(idObj)
  BY DEF IdentityInv, IdentityTypes
<1>6. /\ idObj' \in Seq(Documents) /\ Len(idObj') = Len(idObj) + 1 /\ DOMAIN idObj' = 1..(Len(idObj) + 1)
      /\ idObj'[Len(idObj) + 1] = p /\ \A i \in DOMAIN idObj : idObj'[i] = idObj[i]
  BY <1>4, <1>3, <1>5
<1>7. /\ didDoc' \in [Dids -> 0..Len(idObj')] /\ didDoc'[w] = Len(idObj) + 1
      /\ \A e \in Dids : e # w => didDoc'[e] = didDoc[e]
  BY <1>4, <1>3, <1>5, <1>6
<1>8. IdRegistryGrows
  <2>1. \A e \in Dids : didDoc[e] # 0 => didDoc[e] \in DOMAIN idObj
    BY <1>5
  <2> QED
    BY <1>4, <1>5, <1>6, <1>7, <2>1 DEF IdRegistryGrows, IdGrows, Registered
<1>9. /\ \A e \in Dids : Registered(e)' <=> (Registered(e) \/ e = w)
      /\ \A e \in Dids : e # w => Doc(e)' = Doc(e)
      /\ Registered(w)' /\ Doc(w)' = p
  <2>1. didDoc'[w] # 0
    BY <1>5, <1>7
  <2>2. \A e \in Dids : Registered(e)' <=> (Registered(e) \/ e = w)
    BY <1>7, <2>1 DEF Registered
  <2>3. ASSUME NEW e \in Dids, e # w PROVE Doc(e)' = Doc(e)
    <3>1. didDoc'[e] = didDoc[e] /\ (didDoc[e] # 0 => didDoc[e] \in DOMAIN idObj)
      BY <1>5, <1>7, <2>3
    <3> QED
      BY <1>6, <3>1 DEF Doc, Registered
  <2>4. Doc(w)' = p
    BY <1>6, <1>7, <2>1 DEF Doc, Registered
  <2> QED
    BY <1>3, <2>1, <2>2, <2>3, <2>4 DEF Registered
<1>10. /\ IdCalls' /\ IdCompany' /\ IdCopies' /\ Alters(t)' /\ idCall'[t].at = "put"
      /\ idCall'[t].handle = c.handle
      /\ \A u \in IdThreads \ {t} : idCall[u].at = "put" =>
                idCall'[u].at = "put" /\ idCall'[u].handle = idCall[u].handle
  <2>1. ASSUME NEW b \in BOOLEAN
        PROVE  /\ IdCallOK([d EXCEPT !.alone = b], idObj', didDoc', replaced')
               /\ [d EXCEPT !.alone = b].at = "put" /\ [d EXCEPT !.alone = b].alone = b
               /\ [d EXCEPT !.alone = b].handle = c.handle
    <3> DEFINE x == [d EXCEPT !.alone = b]
    <3>1. x \in IdRegistering /\ x.at = "put" /\ x.alone = b /\ x.handle = c.handle /\ x.did = w
      BY <1>1, <1>3 DEF IdRegistering
    <3> HIDE DEF x
    <3>2. didDoc'[x.did] # 0 /\ idObj'[didDoc'[x.did]].handle = x.handle
      <4>1. x.did = w /\ x.handle = p.handle
        BY <1>3, <3>1
      <4> QED
        BY <1>5, <1>6, <1>7, <4>1
    <3>3. IdCallOK(x, idObj', didDoc', replaced')
      BY <3>1, <3>2 DEF IdCallOK
    <3> QED
      BY <3>1, <3>3 DEF x
  <2> HIDE DEF d
  <2> QED
    <3>1. /\ IdCalls' /\ IdCompany' /\ IdCopies' /\ Alters(t)' /\ idCall'[t].at = "put"
          /\ \E b \in BOOLEAN : idCall'[t] = [d EXCEPT !.alone = b]
          /\ \A u \in IdThreads \ {t} : idCall[u].at = "put" =>
                idCall'[u].at = "put" /\ idCall'[u].handle = idCall[u].handle
      BY <1>1, <1>4, <1>8, <2>1, IdBegins
    <3> QED
      BY <2>1, <3>1
<1>11. IdentityTypes'
  <2>1. didOrder' \in Seq(Dids) /\ IsInjective(didOrder') /\ Range(didOrder') = Range(didOrder) \cup {w}
    <3>1. /\ didOrder \in Seq(Dids) /\ IsInjective(didOrder) /\ Range(didOrder) = {e \in Dids : Registered(e)}
      BY DEF IdentityInv, IdentityTypes
    <3>2. CASE Registered(w)
      BY <1>4, <1>3, <3>1, <3>2
    <3>3. CASE ~ Registered(w)
      BY <1>4, <1>3, <3>1, <3>3, AppendRange
    <3> QED
      BY <3>2, <3>3
  <2>2. Range(didOrder') = {e \in Dids : Registered(e)'}
    BY <1>3, <1>9, <2>1 DEF IdentityInv, IdentityTypes
  <2>3. \A e \in Dids : didClaims'[e] # <<>> => Registered(e)'
    BY <1>4, <1>9 DEF IdentityInv, IdentityTypes
  <2> QED
    BY <1>4, <1>6, <1>7, <2>1, <2>2, <2>3 DEF IdentityInv, IdentityTypes, aside, counts
<1>12. IdFile'
  BY <1>4, <1>10, IdFileLater DEF aside
<1>13. HandleResolves'
  <2> SUFFICES ASSUME NEW h \in Handles, NEW e, e = handleIdx'[h], e # NoHandle
               PROVE  Registered(e)' /\ (Doc(e)'.handle = h \/ e \in replaced')
    BY DEF HandleResolves, ResolveHandle
  <2>1. Registered(e) /\ e \in Dids /\ (Doc(e).handle = h \/ e \in replaced)
    BY <1>4 DEF IdentityInv, IdentityTypes, HandleResolves, ResolveHandle
  <2>2. CASE e = w
    BY <1>4, <1>9, <2>1, <2>2
  <2>3. CASE e # w
    BY <1>4, <1>9, <2>1, <2>3
  <2> QED
    BY <2>2, <2>3
<1>14. HandlesEntered'
  <2> SUFFICES ASSUME idUp', replaced' = {}, NEW e \in Dids, Registered(e)', Doc(e)'.handle # NoHandle
               PROVE  \/ handleIdx'[Doc(e)'.handle] # NoHandle
                      \/ \E u \in IdThreads : idCall'[u].at = "put" /\ idCall'[u].handle = Doc(e)'.handle
    BY DEF HandlesEntered
  <2>1. CASE e = w
    BY <1>9, <1>10, <1>3, <2>1
  <2>2. CASE e # w
    <3>1. Registered(e) /\ Doc(e)' = Doc(e) /\ replaced = {} /\ idUp
      BY <1>4, <1>9, <2>2 DEF aside
    <3>2. \/ handleIdx[Doc(e).handle] # NoHandle
          \/ \E u \in IdThreads : idCall[u].at = "put" /\ idCall[u].handle = Doc(e).handle
      BY <3>1 DEF IdentityInv, HandlesEntered
    <3>3. \A u \in IdThreads : idCall[u].at = "put" => u # t
      BY <1>1 DEF c
    <3> QED
      BY <1>4, <1>10, <3>1, <3>2, <3>3
  <2> QED
    BY <2>1, <2>2
<1> QED
  BY <1>10, <1>11, <1>12, <1>13, <1>14 DEF IdentityInv

LEMMA HandlePut ==
  ASSUME IdentityInv, NEW t \in IdThreads, PutHandle(t)
  PROVE  IdentityInv'
<1> DEFINE c == idCall[t]
           d == [c EXCEPT !.at = "named"]
<1>1. /\ c.at = "put" /\ c \in IdRegistering /\ Alters(t) /\ didDoc[c.did] # 0
      /\ idObj[didDoc[c.did]].handle = c.handle \/ c.did \in replaced
  BY IdShapes, IdStands DEF PutHandle, Stands, IdentityInv, Alters
<1>2. /\ idCall' = [idCall EXCEPT ![t] = d]
      /\ handleIdx' = (IF c.handle = NoHandle THEN handleIdx ELSE [handleIdx EXCEPT ![c.handle] = c.did])
      /\ UNCHANGED <<idObj, didOrder, didDoc, didClaims, replaced, aside>>
  BY DEF PutHandle
<1>10. \A u \in IdThreads : idCall[u].at = "put" /\ u = t => idCall[u].handle = c.handle
  OBVIOUS
<1> HIDE DEF c
<1>3. /\ c.did \in Dids /\ c.handle \in Handles \cup {NoHandle} /\ d \in IdRegistering /\ d.at = "named"
      /\ d.did = c.did /\ d.alone = c.alone
  BY <1>1 DEF IdRegistering
<1>4. \A e : (Registered(e)' <=> Registered(e)) /\ Doc(e)' = Doc(e)
  BY <1>2 DEF Registered, Doc
<1>5. Registered(c.did) /\ (Doc(c.did).handle = c.handle \/ c.did \in replaced)
  BY <1>1 DEF Registered, Doc
<1>6. IdRegistryGrows
  BY <1>2 DEF IdRegistryGrows, IdGrows, IdentityInv, IdentityTypes
<1>7. IdCalls' /\ IdCompany' /\ IdCopies' /\ Alters(t)' /\ \A u \in IdThreads \ {t} : idCall'[u] = idCall[u]
  <2>1. IdCallOK(d, idObj', didDoc', replaced')
    BY <1>1, <1>2, <1>3 DEF IdCallOK
  <2>2. d.alone = idCall[t].alone
    BY <1>3 DEF c
  <2> HIDE DEF d
  <2> QED
    BY <1>1, <1>2, <1>3, <1>6, <2>1, <2>2, IdGoesOn
<1>8. IdentityTypes'
  <2>1. handleIdx' \in [Handles -> Dids \cup {NoHandle}]
    BY <1>2, <1>3 DEF IdentityInv, IdentityTypes
  <2> QED
    BY <1>2, <1>4, <2>1 DEF IdentityInv, IdentityTypes, aside, counts
<1>9. IdFile'
  BY <1>2, <1>7, IdFileLater DEF aside
<1>11. \A h \in Handles : IF h = c.handle THEN handleIdx'[h] = c.did ELSE handleIdx'[h] = handleIdx[h]
  BY <1>2, <1>3, IdentityAssumption DEF IdentityInv, IdentityTypes
<1>12. HandleResolves'
  <2> SUFFICES ASSUME NEW h \in Handles, handleIdx'[h] # NoHandle
               PROVE  Registered(handleIdx'[h]) /\ (Doc(handleIdx'[h]).handle = h \/ handleIdx'[h] \in replaced)
    BY <1>2, <1>4 DEF HandleResolves, ResolveHandle
  <2> QED
    BY <1>5, <1>11 DEF IdentityInv, HandleResolves, ResolveHandle
<1>13. HandlesEntered'
  <2> SUFFICES ASSUME idUp, replaced = {}, NEW e \in Dids, Registered(e), Doc(e).handle # NoHandle
               PROVE  \/ handleIdx'[Doc(e).handle] # NoHandle
                      \/ \E u \in IdThreads : idCall'[u].at = "put" /\ idCall'[u].handle = Doc(e).handle
    BY <1>2, <1>4 DEF HandlesEntered, aside
  <2> DEFINE h == Doc(e).handle
  <2>1. h \in Handles
    <3>1. Doc(e) \in Documents
      BY DEF IdentityInv, IdentityTypes, Doc, Registered
    <3> QED
      BY <3>1 DEF Documents
  <2>2. c.did # NoHandle
    BY <1>3, IdentityAssumption
  <2>3. \/ handleIdx[h] # NoHandle
        \/ \E u \in IdThreads : idCall[u].at = "put" /\ idCall[u].handle = h
    BY DEF IdentityInv, HandlesEntered
  <2> HIDE DEF h
  <2>4. CASE h = c.handle
    BY <1>11, <2>1, <2>2, <2>4 DEF h
  <2>5. CASE h # c.handle
    BY <1>7, <1>10, <1>11, <2>1, <2>3, <2>5 DEF h
  <2> QED
    BY <2>4, <2>5
<1> QED
  BY <1>7, <1>8, <1>9, <1>12, <1>13 DEF IdentityInv

LEMMA ClaimsPut ==
  ASSUME IdentityInv, NEW t \in IdThreads, PutClaims(t)
  PROVE  IdentityInv'
<1> DEFINE c == idCall[t]
           d == Keeps(c.alone)
<1>1. c.at = "named" /\ c \in IdRegistering /\ Alters(t)
  BY IdShapes DEF PutClaims, Stands, IdentityInv, Alters
<1>2. /\ idCall' = [idCall EXCEPT ![t] = d] /\ didClaims' = [didClaims EXCEPT ![c.did] = <<>>]
      /\ UNCHANGED <<idObj, didOrder, didDoc, handleIdx, replaced, aside>>
  BY DEF PutClaims
<1>3. /\ c.did \in Dids /\ d \in IdSaving /\ d.at = "changed" /\ d.alone = c.alone
  BY <1>1 DEF IdRegistering, Keeps, IdSaving
<1>4. \A e : (Registered(e)' <=> Registered(e)) /\ Doc(e)' = Doc(e)
  BY <1>2 DEF Registered, Doc
<1>5. IdRegistryGrows
  BY <1>2 DEF IdRegistryGrows, IdGrows, IdentityInv, IdentityTypes
<1>6. IdCalls' /\ IdCompany' /\ IdCopies' /\ Alters(t)' /\ \A u \in IdThreads \ {t} : idCall'[u] = idCall[u]
  <2>1. IdCallOK(d, idObj', didDoc', replaced')
    BY <1>3 DEF IdCallOK
  <2> HIDE DEF d
  <2> QED
    BY <1>1, <1>2, <1>3, <1>5, <2>1, IdGoesOn
<1>7. IdentityTypes'
  <2>1. /\ didClaims' \in [Dids -> Seq(Claims)] /\ (\A e \in Dids : didClaims'[e] # <<>> => Registered(e))
        /\ \A e \in Dids : \A x \in Range(didClaims'[e]) : ClaimOf[x].subject = e
    <3>1. <<>> \in Seq(Claims) /\ Range(<<>>) = {}
      BY DEF Range
    <3> HIDE DEF c
    <3> QED
      BY <1>2, <1>3, <3>1 DEF IdentityInv, IdentityTypes
  <2> QED
    BY <1>2, <1>4, <2>1 DEF IdentityInv, IdentityTypes, aside, counts
<1>8. IdFile'
  BY <1>2, <1>6, IdFileLater DEF aside
<1>9. HandleResolves'
  BY <1>2, <1>4 DEF IdentityInv, HandleResolves, ResolveHandle
<1>10. HandlesEntered'
  <2>1. \A u \in IdThreads : idCall[u].at = "put" => idCall'[u] = idCall[u]
    BY <1>1, <1>6
  <2> QED
    BY <1>2, <1>4, <2>1 DEF IdentityInv, HandlesEntered, aside
<1> QED
  BY <1>6, <1>7, <1>8, <1>9, <1>10 DEF IdentityInv

LEMMA ServiceAdded ==
  ASSUME IdentityInv, NEW t \in IdThreads, AddService(t)
  PROVE  IdentityInv'
<1> DEFINE c == idCall[t]
           d == [c EXCEPT !.at = "added"]
<1>1. /\ c.at = "checked" /\ c \in IdServing /\ ~ Alters(t) /\ c.obj \in DOMAIN idObj /\ didDoc[c.did] # 0
      /\ c.obj = didDoc[c.did] \/ c.did \in replaced
  BY IdShapes, IdStands DEF AddService, Stands, IdentityInv, Alters
<1>2. /\ Enters(t, d) /\ idObj' = [idObj EXCEPT ![c.obj].services = @ + 1]
      /\ UNCHANGED <<didOrder, didDoc, handleIdx, didClaims, replaced, aside>>
  BY DEF AddService
<1>3. \A u \in IdThreads : idCall[u].at = "put" => u # t
  BY <1>1
<1> HIDE DEF c
<1>4. /\ idObj \in Seq(Documents) /\ didDoc \in [Dids -> 0..Len(idObj)] /\ Len(idObj) \in Nat
      /\ DOMAIN idObj = 1..Len(idObj)
  BY DEF IdentityInv, IdentityTypes
<1>5. /\ idObj' \in Seq(Documents) /\ Len(idObj') = Len(idObj) /\ DOMAIN idObj' = DOMAIN idObj
      /\ \A i \in DOMAIN idObj : idObj'[i].handle = idObj[i].handle
  <2>1. \A i \in DOMAIN idObj : idObj[i] \in Documents
    BY <1>4
  <2> DEFINE o == [idObj[c.obj] EXCEPT !.services = @ + 1]
  <2>2. o \in Documents /\ o.handle = idObj[c.obj].handle
    BY <1>1, <2>1 DEF Documents
  <2>3. idObj' = [idObj EXCEPT ![c.obj] = o]
    BY <1>2
  <2> HIDE DEF o
  <2>4. DOMAIN idObj' = DOMAIN idObj /\ \A i \in DOMAIN idObj : idObj'[i] = IF i = c.obj THEN o ELSE idObj[i]
    BY <2>3
  <2>5. idObj' \in [1..Len(idObj) -> Documents]
    BY <1>4, <2>1, <2>2, <2>3
  <2> QED
    BY <1>4, <2>2, <2>4, <2>5
<1>6. IdRegistryGrows
  BY <1>2, <1>4, <1>5 DEF IdRegistryGrows, IdGrows
<1>7. \A e \in Dids : (Registered(e)' <=> Registered(e)) /\ (Registered(e) => Doc(e)'.handle = Doc(e).handle)
  <2>1. \A e \in Dids : didDoc[e] # 0 => didDoc[e] \in DOMAIN idObj
    BY <1>4
  <2> QED
    BY <1>2, <1>5, <2>1 DEF Registered, Doc
<1>8. /\ IdCalls' /\ IdCompany' /\ IdCopies' /\ Alters(t)'
      /\ \A u \in IdThreads \ {t} : idCall[u].at = "put" =>
                idCall'[u].at = "put" /\ idCall'[u].handle = idCall[u].handle
  <2>1. ASSUME NEW b \in BOOLEAN
        PROVE  /\ IdCallOK([d EXCEPT !.alone = b], idObj', didDoc', replaced')
               /\ [d EXCEPT !.alone = b].at = "added" /\ [d EXCEPT !.alone = b].alone = b
    <3> DEFINE x == [d EXCEPT !.alone = b]
    <3>1. x \in IdServing /\ x.at = "added" /\ x.alone = b /\ x.obj = c.obj /\ x.did = c.did
      BY <1>1 DEF IdServing
    <3> HIDE DEF x
    <3>2. IdCallOK(x, idObj', didDoc', replaced')
      BY <1>1, <1>2, <1>5, <3>1 DEF IdCallOK
    <3> QED
      BY <3>1, <3>2 DEF x
  <2> HIDE DEF d
  <2> QED
    BY <1>1, <1>2, <1>6, <2>1, IdBegins
<1>9. IdentityTypes'
  <2>1. Range(didOrder') = {e \in Dids : Registered(e)'}
    BY <1>2, <1>7 DEF IdentityInv, IdentityTypes
  <2> QED
    BY <1>2, <1>5, <1>7, <2>1 DEF IdentityInv, IdentityTypes, aside, counts
<1>10. IdFile'
  BY <1>2, <1>8, IdFileLater DEF aside
<1>11. HandleResolves'
  <2> SUFFICES ASSUME NEW h \in Handles, NEW e, e = handleIdx'[h], e # NoHandle
               PROVE  Registered(e)' /\ (Doc(e)'.handle = h \/ e \in replaced')
    BY DEF HandleResolves, ResolveHandle
  <2>1. Registered(e) /\ e \in Dids /\ (Doc(e).handle = h \/ e \in replaced)
    BY <1>2 DEF IdentityInv, IdentityTypes, HandleResolves, ResolveHandle
  <2> QED
    BY <1>2, <1>7, <2>1
<1>12. HandlesEntered'
  BY <1>2, <1>3, <1>7, <1>8 DEF IdentityInv, HandlesEntered, aside
<1> QED
  BY <1>8, <1>9, <1>10, <1>11, <1>12 DEF IdentityInv

LEMMA IndexUpdated ==
  ASSUME IdentityInv, NEW t \in IdThreads, UpdateIndex(t)
  PROVE  IdentityInv'
<1> DEFINE c == idCall[t]
           d == [c EXCEPT !.at = "indexed"]
<1>1. /\ c.at = "added" /\ c \in IdServing /\ Alters(t) /\ c.obj \in DOMAIN idObj /\ didDoc[c.did] # 0
      /\ c.obj = didDoc[c.did] \/ c.did \in replaced
  BY IdShapes, IdStands DEF UpdateIndex, Stands, IdentityInv, Alters
<1>2. /\ idCall' = [idCall EXCEPT ![t] = d]
      /\ handleIdx' = IndexAfterUpdate(c.did, Doc(c.did).handle, idObj[c.obj].handle)
      /\ UNCHANGED <<idObj, didOrder, didDoc, didClaims, replaced, aside>>
  BY DEF UpdateIndex
<1>3. \A u \in IdThreads : idCall[u].at = "put" => u # t
  BY <1>1
<1> HIDE DEF c
<1>4. \A e : (Registered(e)' <=> Registered(e)) /\ Doc(e)' = Doc(e)
  BY <1>2 DEF Registered, Doc
<1>5. IdRegistryGrows
  BY <1>2 DEF IdRegistryGrows, IdGrows, IdentityInv, IdentityTypes
<1>6. IdCalls' /\ IdCompany' /\ IdCopies' /\ Alters(t)' /\ \A u \in IdThreads \ {t} : idCall'[u] = idCall[u]
  <2>1. d \in IdServing /\ d.at = "indexed" /\ d.alone = c.alone /\ d.did = c.did /\ d.obj = c.obj
    BY <1>1 DEF IdServing
  <2>2. IdCallOK(d, idObj', didDoc', replaced')
    BY <1>1, <1>2, <2>1 DEF IdCallOK
  <2>3. d.alone = idCall[t].alone
    BY <2>1 DEF c
  <2> HIDE DEF d
  <2> QED
    BY <1>1, <1>2, <1>5, <2>1, <2>2, <2>3, IdGoesOn
<1>7. PICK w \in Dids, old, h \in Handles \cup {NoHandle} :
        w = c.did /\ old = Doc(w).handle /\ h = idObj[c.obj].handle
  <2>1. c.did \in Dids /\ idObj[c.obj] \in Documents /\ Doc(c.did) \in Documents
    BY <1>1 DEF IdServing, IdentityInv, IdentityTypes, Doc, Registered
  <2>2. idObj[c.obj].handle \in Handles \cup {NoHandle} /\ Doc(c.did).handle \in Handles \cup {NoHandle}
    BY <2>1 DEF Documents
  <2> QED
    BY <2>1, <2>2
<1>8. \A x \in Handles : handleIdx'[x] = IF x = h THEN w ELSE IF x = old THEN NoHandle ELSE handleIdx[x]
  BY <1>2, <1>7 DEF IndexAfterUpdate
<1>9. Registered(w) /\ (old = h \/ w \in replaced)
  BY <1>1, <1>7 DEF Registered, Doc
<1>10. IdentityTypes'
  <2>1. handleIdx' \in [Handles -> Dids \cup {NoHandle}]
    <3>1. \A x \in Handles : handleIdx'[x] \in Dids \cup {NoHandle}
      BY <1>8 DEF IdentityInv, IdentityTypes
    <3>2. handleIdx' = [x \in Handles |-> handleIdx'[x]]
      BY <1>2 DEF IndexAfterUpdate
    <3> QED
      BY <3>1, <3>2
  <2> QED
    BY <1>2, <1>4, <2>1 DEF IdentityInv, IdentityTypes, aside, counts
<1>11. IdFile'
  BY <1>2, <1>6, IdFileLater DEF aside
<1>12. HandleResolves'
  <2> SUFFICES ASSUME NEW x \in Handles, NEW e, e = handleIdx'[x], e # NoHandle
               PROVE  Registered(e) /\ (Doc(e).handle = x \/ e \in replaced)
    BY <1>2, <1>4 DEF HandleResolves, ResolveHandle
  <2>1. CASE x = h
    BY <1>7, <1>8, <1>9, <2>1
  <2>2. CASE x # h
    BY <1>8, <2>2 DEF IdentityInv, HandleResolves, ResolveHandle
  <2> QED
    BY <2>1, <2>2
<1>13. HandlesEntered'
  <2> SUFFICES ASSUME idUp, replaced = {}, NEW e \in Dids, Registered(e), Doc(e).handle # NoHandle
               PROVE  \/ handleIdx'[Doc(e).handle] # NoHandle
                      \/ \E u \in IdThreads : idCall'[u].at = "put" /\ idCall'[u].handle = Doc(e).handle
    BY <1>2, <1>4 DEF HandlesEntered, aside
  <2>1. \/ handleIdx[Doc(e).handle] # NoHandle
        \/ \E u \in IdThreads : idCall[u].at = "put" /\ idCall[u].handle = Doc(e).handle
    BY DEF IdentityInv, HandlesEntered
  <2>2. Doc(e).handle \in Handles
    <3>1. Doc(e) \in Documents
      BY DEF IdentityInv, IdentityTypes, Doc, Registered
    <3> QED
      BY <3>1 DEF Documents
  <2>3. w # NoHandle /\ old = h
    BY <1>9, IdentityAssumption
  <2> QED
    BY <1>3, <1>6, <1>8, <2>1, <2>2, <2>3
<1> QED
  BY <1>6, <1>10, <1>11, <1>12, <1>13 DEF IdentityInv

LEMMA DidUpdated ==
  ASSUME IdentityInv, NEW t \in IdThreads, UpdateDid(t)
  PROVE  IdentityInv'
<1> DEFINE c == idCall[t]
           d == Keeps(c.alone)
<1>1. /\ c.at = "indexed" /\ c \in IdServing /\ Alters(t) /\ c.obj \in DOMAIN idObj /\ didDoc[c.did] # 0
      /\ c.obj = didDoc[c.did] \/ c.did \in replaced
  BY IdShapes, IdStands DEF UpdateDid, Stands, IdentityInv, Alters
<1>2. /\ idCall' = [idCall EXCEPT ![t] = d] /\ didDoc' = [didDoc EXCEPT ![c.did] = c.obj]
      /\ UNCHANGED <<idObj, didOrder, handleIdx, didClaims, replaced, aside>>
  BY DEF UpdateDid
<1>3. \A u \in IdThreads : idCall[u].at = "put" => u # t
  BY <1>1
<1> HIDE DEF c
<1>4. /\ idObj \in Seq(Documents) /\ didDoc \in [Dids -> 0..Len(idObj)] /\ Len(idObj) \in Nat
      /\ DOMAIN idObj = 1..Len(idObj)
  BY DEF IdentityInv, IdentityTypes
<1>5. c.did \in Dids /\ c.obj \in 1..Len(idObj)
  BY <1>1, <1>4 DEF IdServing
<1>6. /\ didDoc' \in [Dids -> 0..Len(idObj)]
      /\ \A e \in Dids : (didDoc'[e] # 0 <=> didDoc[e] # 0) /\ (didDoc'[e] = didDoc[e] \/ e \in replaced)
  BY <1>1, <1>2, <1>4, <1>5
<1>7. \A e \in Dids : (Registered(e)' <=> Registered(e)) /\ (Doc(e)' = Doc(e) \/ e \in replaced)
  BY <1>2, <1>6 DEF Registered, Doc
<1>8. IdRegistryGrows
  <2>1. \A e \in Dids : didDoc[e] # 0 => didDoc[e] \in DOMAIN idObj
    BY <1>4
  <2> QED
    BY <1>2, <1>6, <2>1 DEF IdRegistryGrows, IdGrows
<1>9. IdCalls' /\ IdCompany' /\ IdCopies' /\ Alters(t)' /\ \A u \in IdThreads \ {t} : idCall'[u] = idCall[u]
  <2>1. d \in IdSaving /\ d.at = "changed" /\ d.alone = c.alone
    BY <1>1 DEF IdServing, Keeps, IdSaving
  <2>2. IdCallOK(d, idObj', didDoc', replaced')
    BY <2>1 DEF IdCallOK
  <2>3. d.alone = idCall[t].alone
    BY <2>1 DEF c
  <2> HIDE DEF d
  <2> QED
    BY <1>1, <1>2, <1>8, <2>1, <2>2, <2>3, IdGoesOn
<1>10. IdentityTypes'
  <2>1. Range(didOrder') = {e \in Dids : Registered(e)'}
    BY <1>2, <1>7 DEF IdentityInv, IdentityTypes
  <2> QED
    BY <1>2, <1>6, <1>7, <2>1 DEF IdentityInv, IdentityTypes, aside, counts
<1>11. IdFile'
  BY <1>2, <1>9, IdFileLater DEF aside
<1>12. HandleResolves'
  <2> SUFFICES ASSUME NEW h \in Handles, NEW e, e = handleIdx'[h], e # NoHandle
               PROVE  Registered(e)' /\ (Doc(e)'.handle = h \/ e \in replaced')
    BY DEF HandleResolves, ResolveHandle
  <2>1. Registered(e) /\ e \in Dids /\ (Doc(e).handle = h \/ e \in replaced)
    BY <1>2 DEF IdentityInv, IdentityTypes, HandleResolves, ResolveHandle
  <2> QED
    BY <1>2, <1>7, <2>1
<1>13. HandlesEntered'
  BY <1>2, <1>3, <1>7, <1>9 DEF IdentityInv, HandlesEntered, aside
<1> QED
  BY <1>9, <1>10, <1>11, <1>12, <1>13 DEF IdentityInv

LEMMA ClaimAdded ==
  ASSUME IdentityInv, NEW t \in IdThreads, AddClaim(t)
  PROVE  IdentityInv'
<1> DEFINE c == idCall[t]
           w == ClaimOf[c.claim].subject
           d == Keeps(TRUE)
<1>1. c.at = "checked" /\ c \in IdClaiming /\ ~ Alters(t) /\ didDoc[w] # 0
  BY IdShapes, IdStands DEF AddClaim, Stands, IdentityInv, Alters
<1>2. /\ Enters(t, d) /\ didClaims' = [didClaims EXCEPT ![w] = Append(@, c.claim)]
      /\ UNCHANGED <<idObj, didOrder, didDoc, handleIdx, replaced, aside>>
  BY DEF AddClaim
<1>3. \A u \in IdThreads : idCall[u].at = "put" => u # t
  BY <1>1
<1>4. c.claim \in Claims /\ w \in Dids
  BY <1>1, IdentityAssumption DEF IdClaiming
<1> HIDE DEF c
<1>5. \A e : (Registered(e)' <=> Registered(e)) /\ Doc(e)' = Doc(e)
  BY <1>2 DEF Registered, Doc
<1>6. IdRegistryGrows
  BY <1>2 DEF IdRegistryGrows, IdGrows, IdentityInv, IdentityTypes
<1>7. /\ IdCalls' /\ IdCompany' /\ IdCopies' /\ Alters(t)'
      /\ \A u \in IdThreads \ {t} : idCall[u].at = "put" =>
                idCall'[u].at = "put" /\ idCall'[u].handle = idCall[u].handle
  <2>1. ASSUME NEW b \in BOOLEAN
        PROVE  /\ IdCallOK([d EXCEPT !.alone = b], idObj', didDoc', replaced')
               /\ [d EXCEPT !.alone = b].at = "changed" /\ [d EXCEPT !.alone = b].alone = b
    <3> DEFINE x == [d EXCEPT !.alone = b]
    <3>1. x \in IdSaving /\ x.at = "changed" /\ x.alone = b
      BY DEF Keeps, IdSaving
    <3> HIDE DEF x
    <3>2. IdCallOK(x, idObj', didDoc', replaced')
      BY <3>1 DEF IdCallOK
    <3> QED
      BY <3>1, <3>2 DEF x
  <2> HIDE DEF d
  <2> QED
    BY <1>1, <1>2, <1>6, <2>1, IdBegins
<1>8. /\ Append(didClaims[w], c.claim) \in Seq(Claims)
      /\ Range(Append(didClaims[w], c.claim)) = Range(didClaims[w]) \cup {c.claim}
  BY <1>4, AppendRange DEF IdentityInv, IdentityTypes
<1>9. IdentityTypes'
  <2>1. /\ didClaims' \in [Dids -> Seq(Claims)] /\ (\A e \in Dids : didClaims'[e] # <<>> => Registered(e))
        /\ \A e \in Dids : \A x \in Range(didClaims'[e]) : ClaimOf[x].subject = e
    <3> DEFINE s == Append(didClaims[w], c.claim)
    <3>1. didClaims' = [didClaims EXCEPT ![w] = s] /\ s \in Seq(Claims) /\ Range(s) = Range(didClaims[w]) \cup {c.claim}
      BY <1>2, <1>8
    <3>2. Registered(w) /\ \A x \in Range(s) : ClaimOf[x].subject = w
      BY <1>1, <1>4, <3>1 DEF Registered, IdentityInv, IdentityTypes
    <3> HIDE DEF s, w
    <3> QED
      BY <1>4, <3>1, <3>2 DEF IdentityInv, IdentityTypes
  <2> QED
    BY <1>2, <1>5, <2>1 DEF IdentityInv, IdentityTypes, aside, counts
<1>10. IdFile'
  BY <1>2, <1>7, IdFileLater DEF aside
<1>11. HandleResolves'
  BY <1>2, <1>5 DEF IdentityInv, HandleResolves, ResolveHandle
<1>12. HandlesEntered'
  BY <1>2, <1>3, <1>5, <1>7 DEF IdentityInv, HandlesEntered, aside
<1> QED
  BY <1>7, <1>9, <1>10, <1>11, <1>12 DEF IdentityInv

\* What is in memory may be written and read again.
LEMMA KeptWellKept ==
  ASSUME IdentityTypes
  PROVE  WellKept(Kept)
<1> DEFINE docs == [e \in Dids |-> Doc(e)]
           m == Kept
<1>1. \A e \in Dids : IF Registered(e) THEN Doc(e) \in Documents ELSE Doc(e) = NoHandle
  BY DEF IdentityTypes, Doc, Registered
<1>2. m = [order |-> didOrder, docs |-> docs, claims |-> didClaims]
  BY DEF Kept
<1>3. docs = [e \in Dids |-> docs[e]] /\ \A e \in Dids : docs[e] = Doc(e)
  OBVIOUS
<1> HIDE DEF docs, m
<1>4. m.order = didOrder /\ m.docs = docs /\ m.claims = didClaims
  BY <1>2
<1>5. WellKept(m)
  BY <1>1, <1>2, <1>3, <1>4 DEF WellKept, IdentityTypes
<1> QED
  BY <1>5 DEF m

LEMMA IdsOpened ==
  ASSUME IdentityInv, NEW t \in IdThreads, OpenIds(t)
  PROVE  IdentityInv'
<1> DEFINE b == idCall[t].alone
           q == Kept
           d == [at |-> "open", alone |-> b, copy |-> q]
<1>1. idCall[t].at = "changed" /\ b \in BOOLEAN /\ Alters(t)
  BY IdShapes DEF OpenIds, Stands, IdentityInv, Alters, IdSaving
<1>2. /\ idCall' = [idCall EXCEPT ![t] = d] /\ idSaved' = NoHandle /\ idUp' = idUp /\ UNCHANGED <<idMemory, counts>>
  BY DEF OpenIds
<1>3. WellKept(q) /\ q = Kept
  BY KeptWellKept DEF IdentityInv
<1>4. \A u \in IdThreads : idCall[u].at = "put" => u # t
  BY <1>1
<1> HIDE DEF b, q
<1>5. d.at = "open" /\ d.alone = b /\ d.copy = q /\ IdWriting(d)
  BY <1>1, <1>3 DEF IdWriting
<1>6. /\ DOMAIN idCall' = IdThreads /\ idCall'[t] = d
      /\ \A u \in IdThreads \ {t} : idCall'[u] = idCall[u]
  BY <1>2 DEF IdentityInv, IdCalls
<1> HIDE DEF d
<1>7. \A u \in IdThreads : (Alters(u)' <=> Alters(u)) /\ (Alters(u) => idCall'[u].alone = idCall[u].alone)
  BY <1>1, <1>5, <1>6 DEF Alters, b
<1>8. IdentityTypes' /\ HandleResolves' /\ Kept' = Kept /\ HandlesEntered'
  BY <1>2, <1>4, <1>6, IdMemoryStays
<1>9. IdCalls'
  BY <1>2, <1>5, <1>6 DEF IdentityInv, IdCalls, IdCallOK, idMemory
<1>10. IdCompany'
  BY <1>7 DEF IdentityInv, IdCompany
<1>11. IdCopies'
  BY <1>3, <1>5, <1>6, <1>8 DEF IdentityInv, IdCopies
<1>12. IdFile'
  BY <1>1, <1>2, <1>7, IdFileLater
<1> QED
  BY <1>8, <1>9, <1>10, <1>11, <1>12 DEF IdentityInv

\* The thread has ended, and none that changes the registry has come.
LEMMA IdEnds ==
  ASSUME IdentityInv, NEW t \in IdThreads, idCall[t].at # "put", idCall' = [idCall EXCEPT ![t] = IdIdle],
         idUp' = idUp, UNCHANGED <<idMemory, counts>>
  PROVE  /\ IdCalls' /\ IdCompany' /\ IdCopies' /\ ~ Alters(t)'
         /\ IdentityTypes' /\ HandleResolves' /\ HandlesEntered' /\ Kept' = Kept
<1>1. DOMAIN idCall' = IdThreads /\ idCall'[t] = IdIdle /\ \A u \in IdThreads \ {t} : idCall'[u] = idCall[u]
  BY DEF IdentityInv, IdCalls
<1>2. IdIdle.at = "idle"
  BY DEF IdIdle
<1>3. IdentityTypes' /\ HandleResolves' /\ Kept' = Kept /\ HandlesEntered'
  BY <1>1, IdMemoryStays
<1>4. IdCalls'
  BY <1>1 DEF IdentityInv, IdCalls, IdCallOK, idMemory
<1>5. ~ Alters(t)' /\ \A u \in IdThreads \ {t} : Alters(u)' <=> Alters(u)
  BY <1>1, <1>2 DEF Alters
<1>6. IdCompany'
  <2> SUFFICES ASSUME NEW v \in IdThreads, NEW u \in IdThreads \ {v}, Alters(v)', idCall'[v].alone
               PROVE  ~ Alters(u)'
    BY DEF IdCompany
  <2>1. v # t /\ Alters(v) /\ idCall[v].alone
    BY <1>1, <1>5
  <2>2. ~ Alters(u)
    BY <2>1 DEF IdentityInv, IdCompany
  <2> QED
    BY <1>5, <2>2
<1>7. IdCopies'
  BY <1>1, <1>2, <1>3 DEF IdentityInv, IdCopies
<1> QED
  BY <1>3, <1>4, <1>5, <1>6, <1>7

LEMMA IdsWritten ==
  ASSUME IdentityInv, NEW t \in IdThreads, WriteIds(t)
  PROVE  IdentityInv'
<1> DEFINE c == idCall[t]
<1>1. c.at = "open" /\ IdWriting(c)
  BY IdShapes DEF WriteIds, Stands, IdentityInv
<1>2. /\ idCall' = [idCall EXCEPT ![t] = IdIdle] /\ idRaced' = ~ c.alone /\ UNCHANGED <<idMemory, counts>> /\ idUp' = idUp
      /\ idSaved' \in {c.copy} \cup (IF c.alone THEN {} ELSE {NoHandle})
  BY DEF WriteIds
<1>3. c.alone \in BOOLEAN /\ WellKept(c.copy)
  BY <1>1 DEF IdWriting
<1>4. /\ IdCalls' /\ IdCompany' /\ IdCopies' /\ IdentityTypes' /\ HandleResolves' /\ HandlesEntered' /\ Kept' = Kept
  BY <1>1, <1>2, IdEnds
<1>5. c.alone => c.copy = Kept
  BY <1>1 DEF IdentityInv, IdCopies
<1> HIDE DEF c
<1>6. IdFile'
  BY <1>2, <1>3, <1>4, <1>5 DEF IdFile
<1> QED
  BY <1>4, <1>6 DEF IdentityInv

LEMMA IdSaveFailed ==
  ASSUME IdentityInv, NEW t \in IdThreads, SaveFails(t)
  PROVE  IdentityInv'
<1>1. /\ idCall' = [idCall EXCEPT ![t] = IdIdle] /\ idRaced' = TRUE /\ idSaved' = idSaved
      /\ UNCHANGED <<idMemory, counts>> /\ idUp' = idUp /\ idCall[t].at # "put"
  BY DEF SaveFails, Stands
<1>2. /\ IdCalls' /\ IdCompany' /\ IdCopies' /\ IdentityTypes' /\ HandleResolves' /\ HandlesEntered'
  BY <1>1, IdEnds
<1>3. IdFile'
  BY <1>1 DEF IdentityInv, IdFile
<1> QED
  BY <1>2, <1>3 DEF IdentityInv

\* The rebuilt index points to documents that bear the handle, and leaves none out.
LEMMA IndexRebuilt ==
  ASSUME NEW s, WellKept(s), NEW h \in Handles
  PROVE  /\ RebuiltIndex(s)[h] # NoHandle =>
                RebuiltIndex(s)[h] \in Range(s.order) /\ s.docs[RebuiltIndex(s)[h]].handle = h
         /\ RebuiltIndex(s)[h] = NoHandle => \A d \in Range(s.order) : s.docs[d].handle # h
<1> DEFINE holders == {i \in DOMAIN s.order : s.docs[s.order[i]].handle = h}
<1>1. RebuiltIndex(s)[h] = IF holders = {} THEN NoHandle ELSE s.order[Max(holders)]
  BY DEF RebuiltIndex
<1>2. holders \subseteq Nat /\ IsFiniteSet(holders) /\ holders \subseteq DOMAIN s.order
  <2>1. IsFiniteSet(DOMAIN s.order) /\ DOMAIN s.order \subseteq Nat
    BY RangeFinite DEF WellKept
  <2> QED
    BY <2>1, FS_Subset
<1>3. ASSUME holders # {} PROVE Max(holders) \in holders
  <2> HIDE DEF holders
  <2> QED
    BY <1>2, <1>3, Extremes
<1>4. CASE holders = {}
  BY <1>1, <1>4 DEF Range
<1>5. CASE holders # {}
  <2>1. Max(holders) \in DOMAIN s.order /\ s.docs[s.order[Max(holders)]].handle = h
    BY <1>3, <1>5
  <2>2. s.order[Max(holders)] \in Dids
    <3> HIDE DEF holders
    <3> QED
      BY <2>1 DEF WellKept
  <2>3. s.order[Max(holders)] \in Range(s.order)
    BY <2>1 DEF Range
  <2> HIDE DEF holders
  <2> QED
    BY <1>1, <1>5, <2>1, <2>2, <2>3, IdentityAssumption
<1> QED
  BY <1>4, <1>5

LEMMA IdentityReloads ==
  ASSUME IdentityInv, RestartIdentity
  PROVE  IdentityInv'
<1> DEFINE s == idSaved
           place(d) == CHOOSE i \in DOMAIN s.order : s.order[i] = d
<1>1. WellKept(s)
  BY DEF IdentityInv, IdFile, RestartIdentity
<1>2. /\ idObj' = [i \in DOMAIN s.order |-> s.docs[s.order[i]]] /\ didOrder' = s.order
      /\ didDoc' = [d \in Dids |-> IF d \notin Range(s.order) THEN 0 ELSE place(d)]
      /\ didClaims' = s.claims /\ handleIdx' = RebuiltIndex(s)
      /\ replaced' = {} /\ idRaced' = FALSE /\ idCall' = [t \in IdThreads |-> IdIdle]
      /\ proofCount' = [d \in Dids |-> 0] /\ penalties' = [d \in Dids |-> 0]
      /\ idSaved' = s
  BY DEF RestartIdentity
<1> HIDE DEF s
<1>3. /\ s.order \in Seq(Dids) /\ IsInjective(s.order) /\ DOMAIN s.order = 1..Len(s.order) /\ Len(s.order) \in Nat
  BY <1>1 DEF WellKept
<1>4. \A i \in DOMAIN s.order : s.order[i] \in Range(s.order) /\ s.order[i] \in Dids /\ s.docs[s.order[i]] \in Documents
  BY <1>1, <1>3 DEF WellKept, Range
<1>5. idObj' \in Seq(Documents) /\ Len(idObj') = Len(s.order) /\ DOMAIN idObj' = DOMAIN s.order
  <2>1. idObj' \in [1..Len(s.order) -> Documents]
    BY <1>2, <1>3, <1>4
  <2> QED
    BY <1>3, <2>1
<1>6. \A d \in Range(s.order) : place(d) \in 1..Len(s.order) /\ s.order[place(d)] = d
  BY <1>3 DEF Range
<1> HIDE DEF place
<1>7. /\ didDoc' \in [Dids -> 0..Len(idObj')]
      /\ \A d \in Dids : didDoc'[d] # 0 <=> d \in Range(s.order)
  BY <1>2, <1>3, <1>5, <1>6
<1>8. \A d \in Dids : (Registered(d)' <=> d \in Range(s.order)) /\ Doc(d)' = s.docs[d]
  <2>1. \A d \in Dids : Registered(d)' <=> d \in Range(s.order)
    BY <1>7 DEF Registered
  <2>2. ASSUME NEW d \in Dids, d \in Range(s.order) PROVE Doc(d)' = s.docs[d]
    BY <1>2, <1>3, <1>6, <2>1, <2>2 DEF Doc
  <2>3. ASSUME NEW d \in Dids, d \notin Range(s.order) PROVE Doc(d)' = s.docs[d]
    BY <1>1, <2>1, <2>3 DEF Doc, WellKept
  <2> QED
    BY <2>1, <2>2, <2>3
<1>9. Range(s.order) \subseteq Dids
  BY <1>3, RangeFinite
<1>10. /\ DOMAIN handleIdx' = Handles
       /\ \A h \in Handles : handleIdx'[h] # NoHandle =>
             handleIdx'[h] \in Range(s.order) /\ s.docs[handleIdx'[h]].handle = h
       /\ \A h \in Handles : handleIdx'[h] = NoHandle => \A d \in Range(s.order) : s.docs[d].handle # h
       /\ handleIdx' = [h \in Handles |-> handleIdx'[h]]
  <2>1. handleIdx' = [h \in Handles |-> handleIdx'[h]] /\ DOMAIN handleIdx' = Handles
    BY <1>2 DEF RebuiltIndex
  <2> QED
    BY <1>1, <1>2, <2>1, IndexRebuilt
<1>11. handleIdx' \in [Handles -> Dids \cup {NoHandle}]
  BY <1>9, <1>10
<1>12. IdentityTypes'
  <2>1. /\ \A d \in Dids : didClaims'[d] # <<>> => Registered(d)'
        /\ \A d \in Dids : \A c \in Range(didClaims'[d]) : ClaimOf[c].subject = d
        /\ didClaims' \in [Dids -> Seq(Claims)]
    BY <1>1, <1>2, <1>8 DEF WellKept
  <2>2. Range(didOrder') = {d \in Dids : Registered(d)'}
    BY <1>2, <1>8, <1>9
  <2>3. proofCount' \in [Dids -> Nat] /\ penalties' \in [Dids -> Nat]
    BY <1>2
  <2> QED
    BY <1>2, <1>3, <1>5, <1>7, <1>11, <2>1, <2>2, <2>3 DEF IdentityTypes
<1>13. Kept' = s
  <2>1. [d \in Dids |-> Doc(d)'] = s.docs
    BY <1>1, <1>8 DEF WellKept
  <2>2. Kept' = [order |-> s.order, docs |-> s.docs, claims |-> s.claims]
    BY <1>2, <2>1 DEF Kept
  <2> QED
    BY <1>1, <2>2 DEF WellKept
<1>14. \A t \in IdThreads : idCall'[t] = IdIdle /\ idCall'[t].at = "idle" /\ ~ Alters(t)'
  BY <1>2 DEF IdIdle, Alters
<1>15. IdCalls' /\ IdCompany' /\ IdCopies'
  BY <1>2, <1>14 DEF IdCalls, IdCallOK, IdCompany, IdCopies
<1>16. IdFile'
  BY <1>1, <1>2, <1>13 DEF IdFile
<1>17. HandleResolves'
  <2> SUFFICES ASSUME NEW h \in Handles, NEW e, e = handleIdx'[h], e # NoHandle
               PROVE  Registered(e)' /\ (Doc(e)'.handle = h \/ e \in replaced')
    BY DEF HandleResolves, ResolveHandle
  <2>1. e \in Range(s.order) /\ s.docs[e].handle = h
    BY <1>10
  <2> QED
    BY <1>8, <1>9, <2>1
<1>18. HandlesEntered'
  <2> SUFFICES ASSUME NEW e \in Dids, Registered(e)', Doc(e)'.handle # NoHandle
               PROVE  handleIdx'[Doc(e)'.handle] # NoHandle
    BY DEF HandlesEntered
  <2>1. e \in Range(s.order) /\ Doc(e)' = s.docs[e] /\ s.docs[e] \in Documents
    BY <1>1, <1>8 DEF WellKept
  <2>2. s.docs[e].handle \in Handles
    BY <2>1 DEF Documents
  <2> QED
    BY <1>10, <2>1, <2>2
<1> QED
  BY <1>12, <1>15, <1>16, <1>17, <1>18 DEF IdentityInv

LEMMA IdentityStops ==
  ASSUME IdentityInv, StopIdentity
  PROVE  IdentityInv'
<1>1. /\ idUp' = FALSE /\ idCall' = [t \in IdThreads |-> IdIdle] /\ idSaved' = idSaved /\ idSaved = NoHandle
      /\ UNCHANGED <<idMemory, counts>>
  BY DEF StopIdentity
<1>2. \A t \in IdThreads : idCall'[t] = IdIdle /\ idCall'[t].at = "idle" /\ ~ Alters(t)'
  BY <1>1 DEF IdIdle, Alters
<1>3. IdCalls' /\ IdCompany' /\ IdCopies'
  BY <1>1, <1>2 DEF IdCalls, IdCallOK, IdCompany, IdCopies
<1>4. IdFile' /\ IdentityTypes' /\ HandleResolves' /\ HandlesEntered'
  BY <1>1, IdMemoryStays DEF IdFile, HandlesEntered
<1> QED
  BY <1>3, <1>4 DEF IdentityInv

\* Time and the counts leave requests, documents and file alone.
LEMMA IdLeftAlone ==
  ASSUME IdentityInv, UNCHANGED <<idMemory, idSaved, idCall, idUp, idRaced>>,
         proofCount' \in [Dids -> Nat], penalties' \in [Dids -> Nat]
  PROVE  IdentityInv'
<1>1. \A d : (Registered(d)' <=> Registered(d)) /\ Doc(d)' = Doc(d)
  BY DEF Registered, Doc, idMemory
<1>2. Kept' = Kept /\ \A t \in IdThreads : Alters(t)' <=> Alters(t)
  BY <1>1 DEF Kept, idMemory, Alters
<1>3. IdentityTypes'
  BY <1>1 DEF IdentityInv, IdentityTypes, idMemory
<1>4. HandleResolves' /\ HandlesEntered'
  BY <1>1 DEF IdentityInv, HandleResolves, ResolveHandle, HandlesEntered, idMemory
<1>5. IdCalls' /\ IdCompany' /\ IdCopies' /\ IdFile'
  BY <1>2 DEF IdentityInv, IdCalls, IdCompany, IdCopies, IdFile, idMemory
<1> QED
  BY <1>3, <1>4, <1>5 DEF IdentityInv

LEMMA IdentityStep == IdentityInv /\ [IdentityNext]_idVars => IdentityInv'
<1> SUFFICES ASSUME IdentityInv, [IdentityNext]_idVars PROVE IdentityInv'
  OBVIOUS
<1>1. CASE UNCHANGED idVars
  BY <1>1, IdLeftAlone DEF idVars, counts, IdentityInv, IdentityTypes
<1>2. ASSUME NEW t \in IdThreads, IdCall(t) PROVE IdentityInv'
  BY <1>2, IdCallChecked, DocumentPut, HandlePut, ClaimsPut, ServiceAdded, IndexUpdated, DidUpdated, ClaimAdded,
     IdsOpened, IdsWritten, IdSaveFailed DEF IdCall
<1>3. ASSUME NEW c \in Claims, ClaimExpires(c) PROVE IdentityInv'
  BY <1>3, IdLeftAlone DEF ClaimExpires, counts, IdentityInv, IdentityTypes
<1>4. ASSUME NEW d \in Dids, RecordProof(d) PROVE IdentityInv'
  <2>1. proofCount' \in [Dids -> Nat]
    BY <1>4 DEF RecordProof, IdentityInv, IdentityTypes
  <2> QED
    BY <1>4, <2>1, IdLeftAlone DEF RecordProof, IdentityInv, IdentityTypes
<1>5. ASSUME NEW d \in Dids, RecordPenalty(d) PROVE IdentityInv'
  <2>1. penalties' \in [Dids -> Nat]
    BY <1>5 DEF RecordPenalty, IdentityInv, IdentityTypes
  <2> QED
    BY <1>5, <2>1, IdLeftAlone DEF RecordPenalty, IdentityInv, IdentityTypes
<1> QED
  BY <1>1, <1>2, <1>3, <1>4, <1>5, IdentityReloads, IdentityStops DEF IdentityNext

\* While nobody changes the registry the file says what the memory does; and a rebuilt entry
\* is the old one, when only one document bears the handle.
LEMMA RestartSafe == IdentityInv => RestartKeepsIdentity
<1> SUFFICES ASSUME IdentityInv, idUp, ~ idRaced, \A t \in IdThreads : ~ Alters(t), replaced = {},
                    \A d, e \in Range(didOrder) : d # e /\ Doc(d).handle # NoHandle =>
                        Doc(d).handle # Doc(e).handle
             PROVE  RebuiltIndex(Kept) = handleIdx
  BY DEF RestartKeepsIdentity, IdentityInv, IdFile
<1> DEFINE s == Kept
<1>1. WellKept(s)
  BY KeptWellKept DEF IdentityInv
<1>2. s.order = didOrder /\ \A d \in Dids : s.docs[d] = Doc(d)
  BY DEF Kept
<1> HIDE DEF s
<1>3. Range(didOrder) = {d \in Dids : Registered(d)}
  BY DEF IdentityInv, IdentityTypes
<1>4. ASSUME NEW h \in Handles PROVE RebuiltIndex(s)[h] = handleIdx[h]
  <2> DEFINE r == RebuiltIndex(s)[h]
             d == handleIdx[h]
  <2>1. /\ r # NoHandle => r \in Range(didOrder) /\ Doc(r).handle = h
        /\ r = NoHandle => \A e \in Range(didOrder) : Doc(e).handle # h
    BY <1>1, <1>2, <1>3, IndexRebuilt
  <2>2. d # NoHandle => d \in Range(didOrder) /\ Doc(d).handle = h
    BY <1>3 DEF IdentityInv, HandleResolves, ResolveHandle, IdentityTypes
  <2>3. h # NoHandle
    BY IdentityAssumption
  <2> HIDE DEF r
  <2>4. CASE d = NoHandle
    <3> SUFFICES ASSUME r # NoHandle PROVE FALSE
      BY <2>4 DEF r
    <3>1. r \in Dids /\ Registered(r) /\ Doc(r).handle = h
      BY <1>3, <2>1
    <3>2. \/ handleIdx[Doc(r).handle] # NoHandle
          \/ \E t \in IdThreads : idCall[t].at = "put"
      BY <2>3, <3>1 DEF IdentityInv, HandlesEntered
    <3>3. \A t \in IdThreads : idCall[t].at # "put"
      BY DEF Alters
    <3> QED
      BY <2>4, <3>1, <3>2, <3>3
  <2>5. CASE d # NoHandle
    BY <2>1, <2>2, <2>3, <2>5 DEF r
  <2> QED
    BY <2>4, <2>5
<1>5. RebuiltIndex(s) = [h \in Handles |-> RebuiltIndex(s)[h]] /\ handleIdx = [h \in Handles |-> handleIdx[h]]
  BY DEF RebuiltIndex, IdentityInv, IdentityTypes
<1> QED
  BY <1>4, <1>5 DEF s

LEMMA ScoreSafe == IdentityInv => ScoreIgnoresArrival
<1> SUFFICES ASSUME IdentityInv, NEW d \in Range(didOrder)
             PROVE  LET live(type) == {c \in Range(didClaims[d]) : c \notin claimsOver /\ ClaimOf[c].type = type}
                        latest == {c \in live("stake") : \A e \in live("stake") : ClaimOf[e].issued <= ClaimOf[c].issued}
                        rest == proofCount[d] * WeightProof - penalties[d] * WeightPenalty
                                + Cardinality({ClaimOf[c].issuer : c \in live("peer_trust")}) * WeightPeer
                    IN  \E stake \in IF latest = {} THEN {0} ELSE {ClaimOf[c].value : c \in latest} :
                            Score(d) = Max({0, rest + stake * WeightStake})
  BY DEF ScoreIgnoresArrival
<1> USE DEF IdentityInv
<1> DEFINE s == didClaims[d]
           live(type) == {c \in Range(s) : c \notin claimsOver /\ ClaimOf[c].type = type}
           latest == {c \in live("stake") : \A e \in live("stake") : ClaimOf[e].issued <= ClaimOf[c].issued}
           peers == {ClaimOf[c].issuer : c \in live("peer_trust")}
           stake == LatestClaimValue(d, GetClaims(d, "stake"))
<1>1. d \in Dids /\ Registered(d) /\ s \in Seq(Claims)
  BY DEF IdentityTypes
<1>2. /\ DOMAIN s = 1..Len(s) /\ Len(s) \in Nat /\ Range(s) \subseteq Claims
      /\ IsFiniteSet(DOMAIN s) /\ IsFiniteSet(Range(s))
  BY <1>1, RangeFinite
<1>3. UniquePeers(d, GetClaims(d, "peer_trust")) = Cardinality(peers)
  <2>1. {ClaimOf[s[i]].issuer : i \in GetClaims(d, "peer_trust")} = peers
    BY DEF GetClaims, Range
  <2> QED
    BY <2>1 DEF UniquePeers
<1>4. Cardinality(peers) \in Nat
  <2> DEFINE L == live("peer_trust")
             f == [c \in L |-> ClaimOf[c].issuer]
  <2>1. IsFiniteSet(L)
    BY <1>2, FS_Subset
  <2>2. f \in Surjection(L, peers)
    BY DEF Surjection
  <2> HIDE DEF L, f, peers
  <2> QED
    BY <2>1, <2>2, FS_Surjection, FS_CardinalityType
<1>5. stake \in Nat /\ stake \in IF latest = {} THEN {0} ELSE {ClaimOf[c].value : c \in latest}
  <2> DEFINE at == GetClaims(d, "stake")
             top == {i \in at : \A j \in at : ClaimOf[s[j]].issued <= ClaimOf[s[i]].issued}
  <2>1. live("stake") = {s[i] : i \in at}
    BY DEF GetClaims, Range
  <2>2. at \subseteq DOMAIN s
    BY DEF GetClaims
  <2>3. \A c \in Claims : ClaimOf[c].issued \in Nat /\ ClaimOf[c].value \in Nat
    BY IdentityAssumption
  <2>4. stake = IF at = {} THEN 0 ELSE ClaimOf[s[Min(top)]].value
    BY DEF LatestClaimValue
  <2>5. CASE at = {}
    BY <2>1, <2>4, <2>5
  <2>6. CASE at # {}
    <3>1. top # {}
      <4> DEFINE T == {ClaimOf[s[i]].issued : i \in at}
      <4>1. IsFiniteSet(T)
        <5> DEFINE f == [i \in at |-> ClaimOf[s[i]].issued]
        <5>1. IsFiniteSet(at)
          BY <1>2, <2>2, FS_Subset
        <5>2. f \in Surjection(at, T)
          BY DEF Surjection
        <5> HIDE DEF f, at, T
        <5> QED
          BY <5>1, <5>2, FS_Surjection
      <4>2. T \subseteq Nat /\ T # {}
        <5>1. \A i \in at : s[i] \in Claims
          BY <1>2, <2>2 DEF Range
        <5> HIDE DEF at
        <5> QED
          BY <5>1, <2>3, <2>6
      <4>3. \E x \in T : \A y \in T : x >= y
        <5> HIDE DEF T
        <5> QED
          BY <4>1, <4>2, Extremes
      <4>4. PICK x \in T : \A y \in T : x >= y
        BY <4>3
      <4>5. PICK i \in at : x = ClaimOf[s[i]].issued
        BY <4>4
      <4>6. \A j \in at : ClaimOf[s[j]].issued <= ClaimOf[s[i]].issued
        <5> TAKE j \in at
        <5>1. ClaimOf[s[j]].issued \in T
          OBVIOUS
        <5>2. ClaimOf[s[j]].issued \in Nat /\ x \in Nat
          BY <4>2, <5>1, <4>4
        <5> QED
          BY <4>4, <4>5, <5>1, <5>2
      <4> QED
        BY <4>5, <4>6
    <3>2. Min(top) \in top
      <4>1. top \subseteq Nat /\ IsFiniteSet(top)
        BY <1>2, <2>2, FS_Subset
      <4> HIDE DEF top
      <4> QED
        BY <3>1, <4>1, Extremes
    <3>3. s[Min(top)] \in latest
      BY <3>2, <2>1
    <3>4. s[Min(top)] \in Claims
      BY <3>3, <1>2
    <3> HIDE DEF top, at, latest
    <3> QED
      BY <2>4, <2>6, <2>3, <3>3, <3>4
  <2> QED
    BY <2>5, <2>6
<1>6. Score(d) = Max({0, proofCount[d] * WeightProof - penalties[d] * WeightPenalty
                         + Cardinality(peers) * WeightPeer + stake * WeightStake})
  <2>1. Score(d) = Max({0, proofCount[d] * WeightProof + stake * WeightStake
                           + Cardinality(peers) * WeightPeer - penalties[d] * WeightPenalty})
    BY <1>1, <1>3 DEF Score
  <2>2. /\ proofCount[d] * WeightProof \in Int /\ stake * WeightStake \in Int
        /\ Cardinality(peers) * WeightPeer \in Int /\ penalties[d] * WeightPenalty \in Int
    <3>1. /\ proofCount[d] \in Int /\ penalties[d] \in Int
          /\ WeightProof \in Int /\ WeightStake \in Int /\ WeightPeer \in Int /\ WeightPenalty \in Int
      BY <1>1, IdentityAssumption DEF IdentityTypes
    <3> HIDE DEF stake, peers
    <3>2. \A a, b \in Int : a * b \in Int
      OBVIOUS
    <3> QED
      BY <3>1, <3>2, <1>4, <1>5
  <2> DEFINE a == proofCount[d] * WeightProof
             b == stake * WeightStake
             c == Cardinality(peers) * WeightPeer
             e == penalties[d] * WeightPenalty
  <2>3. Score(d) = Max({0, a + b + c - e}) /\ a \in Int /\ b \in Int /\ c \in Int /\ e \in Int
    BY <2>1, <2>2
  <2> HIDE DEF a, b, c, e
  <2>4. a + b + c - e = a - e + c + b
    BY <2>3
  <2>5. Score(d) = Max({0, a - e + c + b})
    BY <2>3, <2>4
  <2> QED
    BY <2>5 DEF a, b, c, e
<1> HIDE DEF stake
<1> QED
  BY <1>5, <1>6

\* For any claims, requests, threads, weights and bounds, and whichever steps of requests
\* interleave: index and documents keep their types, a handle resolves to a document that
\* bears it unless two requests registered its DID at the same time, and the score does not
\* depend on the order of the claims; and the file of requests that came one at a time holds
\* the documents and the claims, from which a restart makes the same index when no two
\* documents bear one handle.  A restart loses the counts of proofs and penalties, and of
\* the file that requests wrote at the same time nothing is said.
THEOREM IdentityIsConsistent == IdentitySpec => []IdentityConsistent
<1>1. IdentityInv => IdentityTypeOK
  BY DEF IdentityInv, IdentityTypes, IdentityTypeOK, Documents
<1>2. IdentityInv => IdentityConsistent
  BY <1>1, RestartSafe, ScoreSafe DEF IdentityInv, IdentityConsistent
<1> QED
  BY <1>2, IdentityStart, IdentityStep, PTL DEF IdentitySpec

(* ----------------------------- relay directory --------------------------- *)

Apart(nodes) == \A i, j \in DOMAIN nodes : nodes[i].id = nodes[j].id => i = j

\* What may be known at time c: relays seen by then, no id twice.
KnownBy(c) == {s \in Seq(Relays) : Apart(s) /\ \A i \in DOMAIN s : s[i].seen <= c}

LEMMA PutKnown ==
  ASSUME NEW c \in Int, NEW s \in KnownBy(c), NEW n \in Relays, n.seen <= c
  PROVE  Put(s, n) \in KnownBy(c) /\ Ids(Put(s, n)) = Ids(s) \cup {n.id}
<1>0. s \in Seq(Relays) /\ DOMAIN s = 1..Len(s) /\ Len(s) \in Nat /\ \A i \in 1..Len(s) : s[i] \in Relays
  BY DEF KnownBy
<1>00. Apart(s) /\ \A i \in DOMAIN s : s[i].seen <= c
  BY DEF KnownBy
<1>1. CASE n.id \in Ids(s)
  <2> DEFINE r == [i \in DOMAIN s |-> IF s[i].id = n.id THEN n ELSE s[i]]
  <2>1. Put(s, n) = r
    BY <1>1 DEF Put
  <2>2. r \in Seq(Relays) /\ DOMAIN r = DOMAIN s
    BY <1>0
  <2>3. \A i \in DOMAIN s : r[i].id = s[i].id /\ r[i].seen <= c
    BY <1>00
  <2> HIDE DEF r
  <2>4. Apart(r)
    BY <1>00, <2>2, <2>3 DEF Apart
  <2>5. Ids(r) = Ids(s)
    BY <2>2, <2>3 DEF Ids
  <2> QED
    BY <1>1, <2>1, <2>2, <2>3, <2>4, <2>5 DEF KnownBy
<1>2. CASE n.id \notin Ids(s)
  <2> DEFINE r == Append(s, n)
             l == Len(s)
  <2>1. Put(s, n) = r
    BY <1>2 DEF Put
  <2>2. /\ r \in Seq(Relays) /\ DOMAIN r = 1..(l + 1) /\ r[l + 1] = n
        /\ \A i \in 1..l : r[i] = s[i]
    BY <1>0
  <2>3. l \in Nat /\ DOMAIN s = 1..l
    BY <1>0
  <2> HIDE DEF r, l
  <2>4. \A i \in 1..(l + 1) : i = l + 1 \/ i \in 1..l
    BY <2>3
  <2>5. \A i \in DOMAIN r : r[i].seen <= c
    BY <1>00, <2>2, <2>3, <2>4
  <2>6. \A i \in 1..l : r[i].id # n.id
    BY <1>2, <2>2, <2>3 DEF Ids
  <2>7. Apart(r)
    <3> SUFFICES ASSUME NEW i \in 1..(l + 1), NEW j \in 1..(l + 1), r[i].id = r[j].id PROVE i = j
      BY <2>2 DEF Apart
    <3>1. CASE i \in 1..l /\ j \in 1..l
      BY <1>00, <2>2, <2>3, <3>1 DEF Apart
    <3>2. CASE i = l + 1 /\ j = l + 1
      BY <3>2
    <3> QED
      BY <2>2, <2>4, <2>6, <3>1, <3>2
  <2>8. Ids(r) = Ids(s) \cup {n.id}
    <3>1. l + 1 \in 1..(l + 1) /\ \A i \in 1..l : i \in 1..(l + 1)
      BY <2>3
    <3> QED
      BY <2>2, <2>3, <2>4, <3>1 DEF Ids
  <2> QED
    BY <2>1, <2>2, <2>5, <2>7, <2>8 DEF KnownBy
<1> QED
  BY <1>1, <1>2

LEMMA PutAllKnown ==
  ASSUME NEW c \in Int, NEW s \in KnownBy(c), NEW list \in Seq(Relays), \A i \in DOMAIN list : list[i].seen <= c
  PROVE  PutAll(s, list) \in KnownBy(c) /\ Ids(PutAll(s, list)) = Ids(s) \cup Ids(list)
<1> DEFINE Following(f) == [i \in 0..Len(list) |-> IF i = 0 THEN s ELSE Put(f[i - 1], list[i])]
           steps == [i \in 1..Len(list) |-> [t \in KnownBy(c) |-> Put(t, list[i])]]
           put == CHOOSE f : f = Following(f)
<1>0. /\ Len(list) \in Nat /\ DOMAIN list = 1..Len(list)
      /\ \A i \in 1..Len(list) : list[i] \in Relays /\ list[i].seen <= c
  OBVIOUS
<1>1. steps \in [1..Len(list) -> [KnownBy(c) -> KnownBy(c)]]
  BY <1>0, PutKnown
<1>2. PICK f \in [0..Len(list) -> KnownBy(c)] :
          \A i \in 0..Len(list) : f[i] = IF i = 0 THEN s ELSE steps[i][f[i - 1]]
  <2> DEFINE S == KnownBy(c)
             k == Len(list)
  <2>1. k \in Nat /\ s \in S /\ steps \in [1..k -> [S -> S]]
    BY <1>0, <1>1
  <2> HIDE DEF steps, S, k
  <2>2. \E f \in [0..k -> S] : Takes(f, s, steps, k)
    BY ONLY <2>1, Iterates
  <2> QED
    BY ONLY <2>2 DEF S, k, Takes
<1>3. f = Following(f)
  <2>1. ASSUME NEW i \in 0..Len(list), i # 0 PROVE steps[i][f[i - 1]] = Put(f[i - 1], list[i])
    <3>1. i \in 1..Len(list) /\ i - 1 \in 0..Len(list)
      BY <1>0, <2>1
    <3>2. f[i - 1] \in KnownBy(c)
      BY <3>1
    <3> QED
      BY <3>1, <3>2
  <2> HIDE DEF steps
  <2> QED
    BY <1>2, <2>1
<1>4. put = Following(put)
  BY <1>3
<1> HIDE DEF put
<1>5. \A i \in 0..Len(list) : put[i] = IF i = 0 THEN s ELSE Put(put[i - 1], list[i])
  BY <1>4
<1> DEFINE G == {i \in Nat : i <= Len(list) =>
                     put[i] \in KnownBy(c) /\ Ids(put[i]) = Ids(s) \cup {list[j].id : j \in 1..i}}
<1>6. 0 \in G
  <2>1. 0 \in 0..Len(list) /\ {list[j].id : j \in 1..0} = {}
    BY <1>0
  <2> QED
    BY <1>5, <2>1
<1>7. ASSUME NEW i \in Nat, i \in G PROVE i + 1 \in G
  <2>1. CASE i + 1 <= Len(list)
    <3>1. i + 1 \in 0..Len(list) /\ i + 1 # 0 /\ i + 1 - 1 = i /\ i + 1 \in 1..Len(list)
      BY <1>0, <2>1
    <3>2. put[i + 1] = Put(put[i], list[i + 1])
      BY <1>5, <3>1
    <3>3. put[i] \in KnownBy(c) /\ Ids(put[i]) = Ids(s) \cup {list[j].id : j \in 1..i}
      BY <1>0, <1>7, <2>1
    <3>4. put[i + 1] \in KnownBy(c) /\ Ids(put[i + 1]) = Ids(put[i]) \cup {list[i + 1].id}
      <4>1. list[i + 1] \in Relays /\ list[i + 1].seen <= c /\ put[i] \in KnownBy(c)
        BY <1>0, <3>1, <3>3
      <4> HIDE DEF G
      <4>2. Put(put[i], list[i + 1]) \in KnownBy(c) /\ Ids(Put(put[i], list[i + 1])) = Ids(put[i]) \cup {list[i + 1].id}
        BY ONLY c \in Int, <4>1, PutKnown
      <4> QED
        BY <3>2, <4>2
    <3>5. {list[j].id : j \in 1..(i + 1)} = {list[j].id : j \in 1..i} \cup {list[i + 1].id}
      <4>1. 1..(i + 1) = (1..i) \cup {i + 1}
        OBVIOUS
      <4> QED
        BY <4>1
    <3> QED
      BY <3>3, <3>4, <3>5
  <2>2. CASE ~ (i + 1 <= Len(list))
    BY <2>2
  <2> QED
    BY <2>1, <2>2
<1>8. Len(list) \in G
  <2> HIDE DEF G
  <2> QED
    BY <1>0, <1>6, <1>7, NatSetInduction
<1>9. PutAll(s, list) = put[Len(list)]
  BY DEF PutAll, put
<1>10. Ids(list) = {list[j].id : j \in 1..Len(list)}
  BY <1>0 DEF Ids
<1> QED
  BY <1>0, <1>8, <1>9, <1>10

BootIds == {Bootstrap[i].id : i \in DOMAIN Bootstrap}

LEMMA LoadKnown ==
  ASSUME dirClock \in Nat, NEW file, file \in {NoCache, Torn} \cup KnownBy(dirClock)
  PROVE  /\ LoadCache(file) \in KnownBy(dirClock) /\ BootIds \subseteq Ids(LoadCache(file))
         /\ file \in KnownBy(dirClock) => Ids(file) \subseteq Ids(LoadCache(file))
<1> DEFINE boot == [i \in DOMAIN Bootstrap |-> RelayNode(Bootstrap[i], dirClock)]
<1>0. /\ Len(Bootstrap) \in Nat /\ DOMAIN Bootstrap = 1..Len(Bootstrap)
      /\ \A i \in 1..Len(Bootstrap) : Bootstrap[i] \in [id : RelayIds, uptime : Nat, region : Regions]
  <2> DEFINE S == [id : RelayIds, uptime : Nat, region : Regions]
  <2>1. Bootstrap \in Seq(S)
    BY DirectoryAssumption
  <2> HIDE DEF S
  <2>2. Len(Bootstrap) \in Nat /\ DOMAIN Bootstrap = 1..Len(Bootstrap) /\ \A i \in 1..Len(Bootstrap) : Bootstrap[i] \in S
    BY <2>1
  <2> QED
    BY <2>2 DEF S
<1>1. \A i \in 1..Len(Bootstrap) : boot[i] \in Relays /\ boot[i].id = Bootstrap[i].id /\ boot[i].seen = dirClock
  BY <1>0 DEF RelayNode, Relays
<1>2. boot = [i \in 1..Len(Bootstrap) |-> boot[i]] /\ DOMAIN boot = 1..Len(Bootstrap)
  BY <1>0
<1> HIDE DEF boot
<1>3. boot \in Seq(Relays)
  BY <1>0, <1>1, <1>2
<1>4. Apart(boot)
  BY <1>0, <1>1, <1>2, DirectoryAssumption DEF Apart
<1>5. boot \in KnownBy(dirClock)
  BY <1>1, <1>2, <1>3, <1>4 DEF KnownBy
<1>6. Ids(boot) = BootIds
  BY <1>0, <1>1, <1>2 DEF Ids, BootIds
<1>7. CASE file \in {NoCache, Torn}
  <2>1. LoadCache(file) = boot
    BY <1>7 DEF LoadCache, boot
  <2>2. file \notin KnownBy(dirClock)
    BY <1>7, DirectoryAssumption DEF KnownBy
  <2> QED
    BY <1>5, <1>6, <2>1, <2>2
<1>8. CASE file \notin {NoCache, Torn}
  <2>1. LoadCache(file) = PutAll(boot, file)
    BY <1>8 DEF LoadCache, boot
  <2>2. file \in Seq(Relays) /\ \A i \in DOMAIN file : file[i].seen <= dirClock
    BY <1>8 DEF KnownBy
  <2>3. PutAll(boot, file) \in KnownBy(dirClock) /\ Ids(PutAll(boot, file)) = Ids(boot) \cup Ids(file)
    BY <1>5, <2>2, PutAllKnown
  <2> QED
    BY <1>6, <2>1, <2>3
<1> QED
  BY <1>7, <1>8

LEMMA ListedEntries == ASSUME NEW list \in Listings PROVE Listed(list) \in Seq(Entries)
<1> DEFINE bad == {i \in DOMAIN list : list[i] = BadEntry}
           first == CHOOSE i \in bad : \A j \in bad : i <= j
<1>0. /\ list \in Seq(Entries \cup {BadEntry}) /\ Len(list) \in Nat /\ DOMAIN list = 1..Len(list)
      /\ \A i \in 1..Len(list) : list[i] \in Entries \cup {BadEntry}
  BY DirectoryAssumption
<1>1. CASE bad = {}
  <2>1. Listed(list) = list
    BY <1>1 DEF Listed
  <2>2. \A i \in 1..Len(list) : list[i] \in Entries
    BY <1>0, <1>1
  <2> QED
    BY <1>0, <2>1, <2>2
<1>2. CASE bad # {}
  <2>1. bad \subseteq 1..Len(list) /\ bad \subseteq Nat
    BY <1>0
  <2> HIDE DEF bad
  <2>2. \E i \in bad : \A j \in bad : i <= j
    BY <1>2, <2>1, Least
  <2>3. first \in bad /\ \A j \in bad : first <= j
    BY <2>2
  <2>4. first \in 1..Len(list)
    BY <2>1, <2>3
  <2>5. Listed(list) = SubSeq(list, 1, first - 1)
    BY <1>2 DEF Listed, bad
  <2> HIDE DEF first
  <2>6. \A i \in 1..(first - 1) : list[i] \in Entries
    <3> SUFFICES ASSUME NEW i \in 1..(first - 1) PROVE list[i] \in Entries
      OBVIOUS
    <3>1. i \in 1..Len(list) /\ i < first
      BY <1>0, <2>4
    <3>2. i \notin bad
      BY <2>3, <3>1, <2>4
    <3> QED
      BY <1>0, <3>1, <3>2 DEF bad
  <2>7. SubSeq(list, 1, first - 1) = [i \in 1..(first - 1) |-> list[i]]
    BY <1>0, <2>4
  <2> QED
    BY <2>4, <2>5, <2>6, <2>7
<1> QED
  BY <1>1, <1>2

LEMMA RefreshedKnown ==
  ASSUME dirClock \in Nat, relays \in KnownBy(dirClock), NEW list \in Listings
  PROVE  /\ Refreshed(list) \in KnownBy(dirClock) /\ Ids(relays) \subseteq Ids(Refreshed(list))
         /\ BadEntry \notin Range(list) => {list[i].id : i \in DOMAIN list} \subseteq Ids(Refreshed(list))
<1> DEFINE es == Listed(list)
           ns == [i \in DOMAIN es |-> RelayNode(es[i], dirClock - es[i].age)]
<1>1. /\ es \in Seq(Entries) /\ Len(es) \in Nat /\ DOMAIN es = 1..Len(es)
      /\ \A i \in 1..Len(es) : es[i] \in Entries
  BY ListedEntries
<1> HIDE DEF es
<1>2. \A i \in 1..Len(es) : /\ RelayNode(es[i], dirClock - es[i].age) \in Relays
                            /\ RelayNode(es[i], dirClock - es[i].age).id = es[i].id
                            /\ RelayNode(es[i], dirClock - es[i].age).seen <= dirClock
  <2> SUFFICES ASSUME NEW i \in 1..Len(es)
               PROVE  /\ RelayNode(es[i], dirClock - es[i].age) \in Relays
                      /\ RelayNode(es[i], dirClock - es[i].age).id = es[i].id
                      /\ RelayNode(es[i], dirClock - es[i].age).seen <= dirClock
    OBVIOUS
  <2>1. es[i] \in Entries
    BY <1>1
  <2>2. /\ es[i].id \in RelayIds /\ es[i].uptime \in Nat /\ es[i].region \in Regions
        /\ dirClock - es[i].age \in Int /\ dirClock - es[i].age <= dirClock
    BY <2>1 DEF Entries
  <2> QED
    BY <2>2 DEF RelayNode, Relays
<1>3. ns \in Seq(Relays) /\ DOMAIN ns = 1..Len(es)
  BY <1>1, <1>2
<1>4. \A i \in DOMAIN ns : ns[i].seen <= dirClock /\ ns[i].id = es[i].id
  BY <1>1, <1>2
<1>5. Refreshed(list) = PutAll(relays, ns)
  BY DEF Refreshed, es
<1> HIDE DEF ns
<1>6. PutAll(relays, ns) \in KnownBy(dirClock) /\ Ids(PutAll(relays, ns)) = Ids(relays) \cup Ids(ns)
  BY <1>3, <1>4, PutAllKnown
<1>7. ASSUME BadEntry \notin Range(list) PROVE {list[i].id : i \in DOMAIN list} \subseteq Ids(ns)
  <2>1. {i \in DOMAIN list : list[i] = BadEntry} = {}
    BY <1>7 DEF Range
  <2>2. es = list
    BY <2>1 DEF Listed, es
  <2> QED
    BY <1>1, <1>3, <1>4, <2>2 DEF Ids
<1> QED
  BY <1>5, <1>6, <1>7

\* What is known is typed, and what was learnt is in the file as well as in memory.
DirectoryInv ==
    /\ dirClock \in Nat /\ relays \in KnownBy(dirClock) /\ BootIds \subseteq Ids(relays)
    /\ discover \in [DiscoverTasks -> 0..Directories]
    /\ learnt \subseteq Ids(relays)
    /\ \/ cacheFile \in {NoCache, Torn} /\ learnt = {}
       \/ cacheFile \in KnownBy(dirClock) /\ learnt \subseteq Ids(cacheFile)

LEMMA DirectoryStart == DirectoryInit => DirectoryInv
<1> SUFFICES ASSUME DirectoryInit PROVE DirectoryInv
  OBVIOUS
<1>1. dirClock \in Nat /\ 0 \in 0..Directories
  BY DirectoryAssumption DEF DirectoryInit
<1>2. LoadCache(NoCache) \in KnownBy(dirClock) /\ BootIds \subseteq Ids(LoadCache(NoCache))
  BY <1>1, LoadKnown
<1> QED
  BY <1>1, <1>2 DEF DirectoryInit, DirectoryInv

LEMMA NextAsked ==
  ASSUME DirectoryInv, NEW t \in DiscoverTasks, NextDirectory(t) \/ Answered(t)
  PROVE  discover' \in [DiscoverTasks -> 0..Directories]
<1>1. discover \in [DiscoverTasks -> 0..Directories] /\ Directories \in Nat
  BY DirectoryAssumption DEF DirectoryInv
<1>2. CASE discover[t] < Directories
  <2>1. discover[t] + 1 \in 0..Directories /\ 0 \in 0..Directories
    BY <1>1, <1>2
  <2> QED
    BY <1>1, <1>2, <2>1 DEF NextDirectory, Answered
<1>3. CASE ~ (discover[t] < Directories)
  <2>1. 0 \in 0..Directories
    BY <1>1
  <2> QED
    BY <1>1, <1>3, <2>1 DEF NextDirectory, Answered
<1> QED
  BY <1>2, <1>3

LEMMA DirectorySteps ==
  ASSUME DirectoryInv, NEW t \in DiscoverTasks, DirectoryStep(t) PROVE DirectoryInv'
<1>0. dirClock \in Nat /\ relays \in KnownBy(dirClock) /\ BootIds \subseteq Ids(relays) /\ learnt \subseteq Ids(relays)
  BY DEF DirectoryInv
<1>1. ASSUME NEW list \in Listings, RefreshWhole(t, list) PROVE DirectoryInv'
  <2>1. /\ relays' = Refreshed(list) /\ cacheFile' = Refreshed(list) /\ dirClock' = dirClock
        /\ learnt' = learnt \cup {list[i].id : i \in DOMAIN list} /\ BadEntry \notin Range(list)
    BY <1>1 DEF RefreshWhole, SaveCache
  <2>2. discover' \in [DiscoverTasks -> 0..Directories]
    BY <1>1, NextAsked DEF RefreshWhole
  <2> DEFINE r == Refreshed(list)
  <2>3. /\ r \in KnownBy(dirClock) /\ Ids(relays) \subseteq Ids(r)
        /\ {list[i].id : i \in DOMAIN list} \subseteq Ids(r)
    BY <1>0, <2>1, RefreshedKnown
  <2> HIDE DEF r
  <2>4. relays' = r /\ cacheFile' = r
    BY <2>1 DEF r
  <2>5. Ids(relays)' = Ids(r) /\ Ids(cacheFile)' = Ids(r)
    BY <2>4 DEF Ids
  <2>6. KnownBy(dirClock)' = KnownBy(dirClock) /\ BootIds' = BootIds
    BY <2>1 DEF KnownBy, BootIds
  <2> QED
    BY <1>0, <2>1, <2>2, <2>3, <2>4, <2>5, <2>6 DEF DirectoryInv
<1>2. ASSUME NEW list \in Listings, RefreshPartly(t, list) PROVE DirectoryInv'
  <2>1. relays' = Refreshed(list) /\ UNCHANGED <<cacheFile, dirClock, learnt>>
    BY <1>2 DEF RefreshPartly
  <2>2. discover' \in [DiscoverTasks -> 0..Directories]
    BY <1>2, NextAsked DEF RefreshPartly
  <2> DEFINE r == Refreshed(list)
  <2>3. r \in KnownBy(dirClock) /\ Ids(relays) \subseteq Ids(r)
    BY <1>0, RefreshedKnown
  <2> HIDE DEF r
  <2>4. relays' = r
    BY <2>1 DEF r
  <2>5. Ids(relays)' = Ids(r) /\ Ids(cacheFile)' = Ids(cacheFile)
    BY <2>1, <2>4 DEF Ids
  <2>6. KnownBy(dirClock)' = KnownBy(dirClock) /\ BootIds' = BootIds
    BY <2>1 DEF KnownBy, BootIds
  <2> QED
    BY <1>0, <2>1, <2>2, <2>3, <2>4, <2>5, <2>6 DEF DirectoryInv
<1>3. ASSUME DirectoryFails(t) PROVE DirectoryInv'
  <2>1. UNCHANGED <<relays, cacheFile, dirClock, learnt>>
    BY <1>3 DEF DirectoryFails
  <2>2. discover' \in [DiscoverTasks -> 0..Directories]
    BY <1>3, NextAsked DEF DirectoryFails
  <2> QED
    BY <2>1, <2>2 DEF DirectoryInv, KnownBy, BootIds, Ids
<1> QED
  BY <1>1, <1>2, <1>3 DEF DirectoryStep

LEMMA NodeRegistered ==
  ASSUME DirectoryInv, NEW e \in Entries, RegisterNode(e) PROVE DirectoryInv'
<1>0. dirClock \in Nat /\ relays \in KnownBy(dirClock) /\ BootIds \subseteq Ids(relays) /\ learnt \subseteq Ids(relays)
  BY DEF DirectoryInv
<1> DEFINE n == RelayNode(e, dirClock)
           r == Put(relays, n)
<1>1. n \in Relays /\ n.seen <= dirClock /\ n.id = e.id
  BY <1>0 DEF Relays, Entries, RelayNode
<1>2. relays' = r /\ cacheFile' = r /\ learnt' = learnt \cup {e.id} /\ UNCHANGED <<discover, dirClock>>
  BY DEF RegisterNode, SaveCache
<1> HIDE DEF n
<1>3. r \in KnownBy(dirClock) /\ Ids(r) = Ids(relays) \cup {n.id}
  BY <1>0, <1>1, PutKnown
<1> HIDE DEF r
<1>4. Ids(relays)' = Ids(r) /\ Ids(cacheFile)' = Ids(r)
  BY <1>2 DEF Ids
<1>5. KnownBy(dirClock)' = KnownBy(dirClock) /\ BootIds' = BootIds
  BY <1>2 DEF KnownBy, BootIds
<1> QED
  BY <1>0, <1>1, <1>2, <1>3, <1>4, <1>5 DEF DirectoryInv

LEMMA NodeProbed ==
  ASSUME DirectoryInv, NEW k \in DOMAIN relays, ProbeNode(k) PROVE DirectoryInv'
<1>0. /\ dirClock \in Nat /\ BootIds \subseteq Ids(relays) /\ learnt \subseteq Ids(relays)
      /\ relays \in Seq(Relays) /\ Apart(relays) /\ \A i \in DOMAIN relays : relays[i].seen <= dirClock
  BY DEF DirectoryInv, KnownBy
<1>1. DOMAIN relays = 1..Len(relays) /\ Len(relays) \in Nat /\ \A i \in DOMAIN relays : relays[i] \in Relays
  BY <1>0
<1> DEFINE n == [relays[k] EXCEPT !.seen = dirClock]
           r == [relays EXCEPT ![k] = n]
<1>2. n \in Relays /\ n.seen = dirClock /\ n.id = relays[k].id
  BY <1>0, <1>1 DEF Relays
<1>3. relays' = r /\ UNCHANGED <<cacheFile, discover, dirClock, learnt>>
  BY DEF ProbeNode
<1> HIDE DEF n
<1>4. r \in Seq(Relays) /\ DOMAIN r = DOMAIN relays
  BY <1>0, <1>1, <1>2
<1>5. \A i \in DOMAIN relays : r[i].id = relays[i].id /\ r[i].seen <= dirClock
  BY <1>0, <1>1, <1>2
<1> HIDE DEF r
<1>6. r \in KnownBy(dirClock) /\ Ids(r) = Ids(relays)
  <2>1. Apart(r)
    BY <1>0, <1>4, <1>5 DEF Apart
  <2> QED
    BY <1>4, <1>5, <2>1 DEF KnownBy, Ids
<1>7. Ids(relays)' = Ids(r) /\ Ids(cacheFile)' = Ids(cacheFile)
  BY <1>3 DEF Ids
<1>8. KnownBy(dirClock)' = KnownBy(dirClock) /\ BootIds' = BootIds
  BY <1>3 DEF KnownBy, BootIds
<1> QED
  BY <1>0, <1>3, <1>6, <1>7, <1>8 DEF DirectoryInv

LEMMA DirectoryRestarted ==
  ASSUME DirectoryInv, NEW torn \in BOOLEAN, RestartDirectory(torn) PROVE DirectoryInv'
<1>0. dirClock \in Nat /\ Directories \in Nat
  BY DirectoryAssumption DEF DirectoryInv
<1> DEFINE f == IF torn THEN Torn ELSE cacheFile
           r == LoadCache(f)
<1>1. /\ cacheFile' = f /\ relays' = r /\ learnt' = (IF torn THEN {} ELSE learnt) /\ UNCHANGED dirClock
      /\ discover' = [t \in DiscoverTasks |-> 0]
  BY DEF RestartDirectory, LoadCache
<1>2. f \in {NoCache, Torn} \cup KnownBy(dirClock)
  BY DEF DirectoryInv
<1>3. \/ f \in {NoCache, Torn} /\ learnt' = {}
      \/ f \in KnownBy(dirClock) /\ learnt' \subseteq Ids(f)
  BY <1>1 DEF DirectoryInv
<1> HIDE DEF f
<1>4. /\ r \in KnownBy(dirClock) /\ BootIds \subseteq Ids(r)
      /\ f \in KnownBy(dirClock) => Ids(f) \subseteq Ids(r)
  BY <1>0, <1>2, LoadKnown
<1> HIDE DEF r
<1>5. Ids(relays)' = Ids(r) /\ Ids(cacheFile)' = Ids(f)
  BY <1>1 DEF Ids
<1>6. KnownBy(dirClock)' = KnownBy(dirClock) /\ BootIds' = BootIds
  BY <1>1 DEF KnownBy, BootIds
<1>7. discover' \in [DiscoverTasks -> 0..Directories]
  BY <1>0, <1>1
<1> QED
  BY <1>0, <1>1, <1>3, <1>4, <1>5, <1>6, <1>7 DEF DirectoryInv

LEMMA DirectoryKept == DirectoryInv /\ [DirectoryNext]_dirVars => DirectoryInv'
<1> SUFFICES ASSUME DirectoryInv, [DirectoryNext]_dirVars PROVE DirectoryInv'
  OBVIOUS
<1>1. ASSUME NEW t \in DiscoverTasks, Discover(t) PROVE DirectoryInv'
  <2>1. 1 \in 0..Directories
    BY DirectoryAssumption
  <2> QED
    BY <1>1, <2>1 DEF Discover, DirectoryInv, KnownBy, BootIds, Ids
<1>2. ASSUME NEW list \in Listings, NEW e \in Range(list) \ {BadEntry}, RegisterNode(e) PROVE DirectoryInv'
  <2>1. e \in Entries
    BY DirectoryAssumption DEF Range
  <2> QED
    BY <1>2, <2>1, NodeRegistered
<1>3. CASE DirectoryTick
  <2>1. dirClock \in Nat /\ dirClock' = dirClock + 1 /\ UNCHANGED <<relays, cacheFile, discover, learnt>>
    BY <1>3 DEF DirectoryTick, DirectoryInv
  <2>2. dirClock' \in Nat
    BY <2>1
  <2>3. KnownBy(dirClock) \subseteq KnownBy(dirClock')
    <3> SUFFICES ASSUME NEW s \in KnownBy(dirClock) PROVE s \in KnownBy(dirClock')
      OBVIOUS
    <3>0. s \in Seq(Relays) /\ Apart(s) /\ \A i \in DOMAIN s : s[i].seen <= dirClock
      BY DEF KnownBy
    <3>1. \A i \in DOMAIN s : s[i] \in Relays
      BY <3>0
    <3>2. \A i \in DOMAIN s : s[i].seen <= dirClock'
      BY <2>1, <3>0, <3>1 DEF Relays
    <3> QED
      BY <3>0, <3>2 DEF KnownBy
  <2> QED
    BY <2>1, <2>2, <2>3 DEF DirectoryInv, BootIds, Ids
<1>4. CASE UNCHANGED dirVars
  BY <1>4 DEF dirVars, DirectoryInv, KnownBy, BootIds, Ids
<1> QED
  BY <1>1, <1>2, <1>3, <1>4, DirectorySteps, NodeProbed, DirectoryRestarted DEF DirectoryNext

\* What discover answers: filtered, the preferred region first, sorted by insertion, cut.

LEMMA RangeAppend ==
  ASSUME NEW S, NEW s \in Seq(S), NEW x \in S
  PROVE  Append(s, x) \in Seq(S) /\ Range(Append(s, x)) = Range(s) \cup {x}
<1> DEFINE t == Append(s, x)
           k == Len(s)
<1>1. /\ k \in Nat /\ DOMAIN s = 1..k /\ t \in Seq(S) /\ DOMAIN t = 1..(k + 1)
      /\ \A i \in 1..k : t[i] = s[i]
      /\ t[k + 1] = x
  OBVIOUS
<1> HIDE DEF t, k
<1>2. 1..(k + 1) = (1..k) \cup {k + 1}
  BY <1>1
<1>3. Range(t) = {t[i] : i \in 1..k} \cup {t[k + 1]}
  BY <1>1, <1>2 DEF Range
<1>4. {t[i] : i \in 1..k} = Range(s)
  BY <1>1 DEF Range
<1> QED
  BY <1>1, <1>3, <1>4 DEF t

\* The elements of the first nodes of a list.
FirstOf(list, i) == {list[j] : j \in 1..i}

LEMMA FirstOfNext ==
  ASSUME NEW list, NEW i \in Nat
  PROVE  FirstOf(list, 0) = {} /\ FirstOf(list, i + 1) = FirstOf(list, i) \cup {list[i + 1]}
<1>1. 1..0 = {} /\ 1..(i + 1) = (1..i) \cup {i + 1}
  OBVIOUS
<1> QED
  BY <1>1 DEF FirstOf

LEMMA FirstOfAll == ASSUME NEW S, NEW list \in Seq(S) PROVE FirstOf(list, Len(list)) = Range(list)
  BY DEF FirstOf, Range

LEMMA OnlyKept ==
  ASSUME NEW list \in Seq(Relays), NEW P
  PROVE  Only(list, P) \in Seq(Relays) /\ Range(Only(list, P)) = Range(list) \cap P
<1> DEFINE S == Seq(Relays)
           k == Len(list)
           Following(f) == [i \in 0..k |-> IF i = 0 THEN <<>>
                                           ELSE IF list[i] \in P THEN Append(f[i - 1], list[i])
                                           ELSE f[i - 1]]
           steps == [i \in 1..k |-> [s \in S |-> IF list[i] \in P THEN Append(s, list[i]) ELSE s]]
           only == CHOOSE f : f = Following(f)
<1>0. k \in Nat /\ DOMAIN list = 1..k /\ \A i \in 1..k : list[i] \in Relays
  OBVIOUS
<1>1. steps \in [1..k -> [S -> S]] /\ <<>> \in S
  BY <1>0
<1>2. PICK f \in [0..k -> S] : Takes(f, <<>>, steps, k)
  <2> HIDE DEF steps, S, k
  <2> QED
    BY ONLY <1>0, <1>1, Iterates
<1>3. f = Following(f)
  <2>1. ASSUME NEW i \in 0..k, i # 0
        PROVE  steps[i][f[i - 1]] = IF list[i] \in P THEN Append(f[i - 1], list[i]) ELSE f[i - 1]
    <3>1. i \in 1..k /\ i - 1 \in 0..k
      BY <1>0, <2>1
    <3>2. f[i - 1] \in S
      BY <3>1
    <3> QED
      BY <3>1, <3>2
  <2> HIDE DEF steps
  <2> QED
    BY <1>2, <2>1 DEF Takes
<1>4. only = Following(only)
  BY <1>3
<1> HIDE DEF only
<1>5. \A i \in 0..k : only[i] = IF i = 0 THEN <<>>
                                ELSE IF list[i] \in P THEN Append(only[i - 1], list[i])
                                ELSE only[i - 1]
  BY <1>4
<1> HIDE DEF k
<1> DEFINE G == {i \in Nat : i <= k => only[i] \in Seq(Relays) /\ Range(only[i]) = FirstOf(list, i) \cap P}
<1>6. 0 \in G
  <2>1. 0 \in 0..k /\ FirstOf(list, 0) = {} /\ Range(<<>>) = {}
    BY <1>0, FirstOfNext DEF Range
  <2>2. only[0] = <<>> /\ <<>> \in Seq(Relays)
    BY <1>5, <2>1
  <2>3. Range(only[0]) = FirstOf(list, 0) \cap P
    BY <2>1, <2>2
  <2> QED
    BY <2>2, <2>3
<1>7. ASSUME NEW i \in Nat, i \in G PROVE i + 1 \in G
  <2> SUFFICES ASSUME i + 1 <= k
               PROVE  only[i + 1] \in Seq(Relays) /\ Range(only[i + 1]) = FirstOf(list, i + 1) \cap P
    OBVIOUS
  <2>1. i + 1 \in 0..k /\ i + 1 # 0 /\ i + 1 - 1 = i /\ i + 1 \in 1..k /\ i <= k
    BY <1>0
  <2>2. only[i] \in Seq(Relays) /\ Range(only[i]) = FirstOf(list, i) \cap P
    BY <1>7, <2>1
  <2>3. only[i + 1] = IF list[i + 1] \in P THEN Append(only[i], list[i + 1]) ELSE only[i]
    <3>1. only[i + 1] = IF i + 1 = 0 THEN <<>>
                        ELSE IF list[i + 1] \in P THEN Append(only[i + 1 - 1], list[i + 1])
                        ELSE only[i + 1 - 1]
      BY ONLY <1>5, i + 1 \in 0..k, <2>1
    <3> QED
      BY ONLY <2>1, <3>1
  <2>4. FirstOf(list, i + 1) = FirstOf(list, i) \cup {list[i + 1]} /\ list[i + 1] \in Relays
    BY <1>0, <2>1, FirstOfNext
  <2>5. CASE list[i + 1] \in P
    <3>1. only[i + 1] \in Seq(Relays) /\ Range(only[i + 1]) = Range(only[i]) \cup {list[i + 1]}
      BY <2>2, <2>3, <2>4, <2>5, RangeAppend
    <3> QED
      BY <2>2, <2>4, <2>5, <3>1
  <2>6. CASE list[i + 1] \notin P
    BY <2>2, <2>3, <2>4, <2>6
  <2> QED
    BY <2>5, <2>6
<1>8. k \in G
  <2> HIDE DEF G
  <2> QED
    BY <1>0, <1>6, <1>7, NatSetInduction
<1>9. Only(list, P) = only[k]
  BY DEF Only, only, k
<1> QED
  BY <1>0, <1>8, <1>9, FirstOfAll DEF k

LEMMA FirstPart ==
  ASSUME NEW S, NEW s \in Seq(S), NEW m \in Nat, m <= Len(s)
  PROVE  LET t == SubSeq(s, 1, m)
         IN  Len(t) = m /\ DOMAIN t = 1..m /\ \A i \in 1..m : i \in 1..Len(s) /\ t[i] = s[i]
  OBVIOUS

LEMMA Concatenated ==
  ASSUME NEW S, NEW c \in Seq(S), NEW b \in Seq(S)
  PROVE  /\ c \o b \in Seq(S) /\ Len(c \o b) = Len(c) + Len(b)
         /\ \A i \in 1..Len(c) : (c \o b)[i] = c[i]
         /\ \A i \in (Len(c) + 1)..(Len(c) + Len(b)) : (c \o b)[i] = b[i - Len(c)]
  OBVIOUS

\* Where a node is put: behind all with as much uptime, before all with less.
LEMMA PlacedAt ==
  ASSUME NEW s \in Seq(Relays), NEW x \in Relays
  PROVE  LET t == Placed(s, x)
         IN  \E p \in 1..(Len(s) + 1) :
                /\ \A i \in 1..(p - 1) : ~ (s[i].uptime < x.uptime)
                /\ p <= Len(s) => s[p].uptime < x.uptime
                /\ t \in Seq(Relays) /\ Len(t) = Len(s) + 1
                /\ \A i \in 1..(p - 1) : t[i] = s[i]
                /\ t[p] = x
                /\ \A i \in (p + 1)..(Len(s) + 1) : t[i] = s[i - 1]
<1> DEFINE n == Len(s)
           less == {i \in DOMAIN s : s[i].uptime < x.uptime}
           p == Min(less \cup {n + 1})
           t == Placed(s, x)
<1>0. n \in Nat /\ DOMAIN s = 1..n /\ \A i \in 1..n : s[i] \in Relays
  OBVIOUS
<1>1. p \in less \cup {n + 1} /\ \A i \in less \cup {n + 1} : p <= i
  <2>1. less \cup {n + 1} \subseteq Nat /\ less \cup {n + 1} # {}
    BY <1>0
  <2> HIDE DEF less
  <2>2. \E i \in less \cup {n + 1} : \A j \in less \cup {n + 1} : i <= j
    BY <2>1, Least
  <2> QED
    BY <2>2 DEF Min
<1>2. t = SubSeq(s, 1, p - 1) \o <<x>> \o SubSeq(s, p, n)
  BY DEF Placed, InsertAt
<1>3. p \in 1..(n + 1) /\ p \in Nat
  BY <1>0, <1>1
<1>4. \A i \in 1..(p - 1) : i \in 1..n /\ ~ (s[i].uptime < x.uptime)
  <2> SUFFICES ASSUME NEW i \in 1..(p - 1) PROVE i \in 1..n /\ ~ (s[i].uptime < x.uptime)
    OBVIOUS
  <2>1. i \in 1..n /\ ~ (p <= i)
    <3> HIDE DEF p, n
    <3> QED
      BY <1>0, <1>3
  <2>2. i \notin less
    BY <1>1, <2>1
  <2> QED
    BY <1>0, <2>1, <2>2
<1>5. p <= n => s[p].uptime < x.uptime
  <2> SUFFICES ASSUME p <= n PROVE s[p].uptime < x.uptime
    OBVIOUS
  <2>1. p # n + 1
    <3> HIDE DEF p, n
    <3> QED
      BY <1>0, <1>3
  <2>2. p \in less
    BY <1>1, <2>1
  <2> QED
    BY <2>2
<1> HIDE DEF p, n
<1> DEFINE a == SubSeq(s, 1, p - 1)
           b == SubSeq(s, p, n)
<1>6. a \in Seq(Relays) /\ Len(a) = p - 1 /\ \A i \in 1..(p - 1) : a[i] = s[i]
  BY <1>0, <1>3, <1>4
<1>7. b \in Seq(Relays) /\ Len(b) = n - p + 1 /\ \A i \in 1..(n - p + 1) : b[i] = s[i + p - 1]
  <2>1. b = [i \in 1..(n - p + 1) |-> s[i + p - 1]]
    BY <1>0, <1>3
  <2>2. \A i \in 1..(n - p + 1) : i + p - 1 \in 1..n
    BY <1>0, <1>3
  <2>3. n - p + 1 \in Nat
    BY <1>0, <1>3
  <2> QED
    BY <1>0, <2>1, <2>2, <2>3
<1> HIDE DEF a, b
<1> DEFINE c == a \o <<x>>
<1>8. c \in Seq(Relays) /\ Len(c) = p /\ c[p] = x /\ \A i \in 1..(p - 1) : c[i] = a[i]
  BY <1>3, <1>6
<1> HIDE DEF c
<1>9. t = c \o b
  BY <1>2 DEF a, b, c
<1> HIDE DEF t
<1>10. /\ t \in Seq(Relays) /\ Len(t) = n + 1
       /\ \A i \in 1..p : t[i] = c[i]
       /\ \A i \in (p + 1)..(n + 1) : t[i] = b[i - p]
  <2>1. /\ t \in Seq(Relays) /\ Len(t) = Len(c) + Len(b)
        /\ \A i \in 1..Len(c) : t[i] = c[i]
        /\ \A i \in (Len(c) + 1)..(Len(c) + Len(b)) : t[i] = b[i - Len(c)]
    BY ONLY <1>7, <1>8, <1>9, Concatenated
  <2>2. Len(c) + Len(b) = n + 1 /\ Len(c) = p
    BY <1>0, <1>3, <1>7, <1>8
  <2> QED
    BY ONLY <2>1, <2>2
<1>11. \A i \in 1..(p - 1) : t[i] = s[i]
  BY <1>3, <1>6, <1>8, <1>10
<1>12. t[p] = x
  BY <1>3, <1>8, <1>10
<1>13. ASSUME NEW j \in (p + 1)..(n + 1) PROVE t[j] = s[j - 1]
  <2>1. j - p \in 1..(n - p + 1) /\ j - p + p - 1 = j - 1
    BY <1>0, <1>3
  <2>2. t[j] = b[j - p]
    BY <1>10
  <2>3. \A l \in 1..(n - p + 1) : b[l] = s[l + p - 1]
    BY <1>7
  <2>4. b[j - p] = s[j - p + p - 1]
    BY <2>1, <2>3
  <2> QED
    BY <2>1, <2>2, <2>4
<1> QED
  BY <1>3, <1>4, <1>5, <1>10, <1>11, <1>12, <1>13 DEF n, t

\* No node of a list is better than one before it.
Ordered(s, region) == \A i, j \in DOMAIN s : i < j => ~ Better(s[j], s[i], region)

LEMMA PlacedOrdered ==
  ASSUME NEW region, NEW s \in Seq(Relays), Ordered(s, region), NEW x \in Relays,
         x.region = region => \A i \in DOMAIN s : s[i].region = region
  PROVE  /\ Placed(s, x) \in Seq(Relays) /\ Ordered(Placed(s, x), region)
         /\ Range(Placed(s, x)) = Range(s) \cup {x}
<1> DEFINE t == Placed(s, x)
           n == Len(s)
<1>0. n \in Nat /\ DOMAIN s = 1..n /\ \A i \in 1..n : s[i] \in Relays /\ s[i].uptime \in Nat
  <2>1. n \in Nat /\ DOMAIN s = 1..n /\ \A i \in 1..n : s[i] \in Relays
    OBVIOUS
  <2> QED
    BY <2>1 DEF Relays
<1>1. PICK p \in 1..(n + 1) :
                /\ \A i \in 1..(p - 1) : ~ (s[i].uptime < x.uptime)
                /\ p <= n => s[p].uptime < x.uptime
                /\ t \in Seq(Relays) /\ Len(t) = n + 1
                /\ \A i \in 1..(p - 1) : t[i] = s[i]
                /\ t[p] = x
                /\ \A i \in (p + 1)..(n + 1) : t[i] = s[i - 1]
  BY PlacedAt
<1> HIDE DEF t
<1>2. x.uptime \in Nat /\ p \in Nat /\ DOMAIN t = 1..(n + 1)
  BY <1>0, <1>1 DEF Relays
<1> HIDE DEF n
<1>3. ASSUME NEW i \in p..n PROVE s[i].uptime < x.uptime
  <2>1. i \in 1..n /\ p \in 1..n /\ p <= n
    BY <1>0, <1>1, <1>2
  <2>2. s[p].uptime < x.uptime
    BY <1>1, <2>1
  <2>3. CASE i = p
    BY <2>2, <2>3
  <2>4. CASE i # p
    <3>1. p < i
      BY <1>2, <2>1, <2>4
    <3>2. ~ Better(s[i], s[p], region)
      BY <1>0, <2>1, <3>1 DEF Ordered
    <3>3. ~ (s[i].uptime > s[p].uptime)
      BY <3>2 DEF Better
    <3> QED
      BY <1>0, <1>2, <2>1, <2>2, <3>3
  <2> QED
    BY <2>3, <2>4
\* Every index of t, and what is there.
<1>4. ASSUME NEW i \in 1..(n + 1)
      PROVE  \/ i \in 1..(p - 1) /\ i \in 1..n /\ t[i] = s[i]
             \/ i = p /\ t[i] = x
             \/ i - 1 \in p..n /\ i - 1 \in 1..n /\ t[i] = s[i - 1]
  <2>1. CASE i < p
    <3>1. i \in 1..(p - 1) /\ i \in 1..n
      BY <1>0, <1>1, <1>2, <2>1
    <3> QED
      BY <1>1, <3>1
  <2>2. CASE i = p
    BY <1>1, <2>2
  <2>3. CASE i > p
    <3>1. i - 1 \in p..n /\ i - 1 \in 1..n /\ i \in (p + 1)..(n + 1)
      BY <1>0, <1>1, <1>2, <2>3
    <3> QED
      BY <1>1, <3>1
  <2> QED
    BY <1>2, <2>1, <2>2, <2>3
<1>5. Ordered(t, region)
  <2> SUFFICES ASSUME NEW i \in 1..(n + 1), NEW j \in 1..(n + 1), i < j PROVE ~ Better(t[j], t[i], region)
    BY <1>2 DEF Ordered
  <2>1. CASE j = p
    <3>1. i \in 1..(p - 1) /\ i \in 1..n
      BY <1>0, <1>1, <1>2, <2>1
    <3>2. t[i] = s[i] /\ t[j] = x /\ ~ (s[i].uptime < x.uptime)
      BY <1>1, <2>1, <3>1
    <3>3. s[i].uptime \in Nat /\ (x.region = region => s[i].region = region)
      BY <1>0, <3>1
    <3> QED
      BY <1>2, <3>2, <3>3 DEF Better
  <2>2. CASE i = p
    <3>1. j - 1 \in p..n /\ j - 1 \in 1..n /\ t[j] = s[j - 1]
      <4>1. j \notin 1..(p - 1) /\ j # p
        BY <1>2, <2>2
      <4> QED
        BY <1>4, <4>1
    <3>2. s[j - 1].uptime < x.uptime /\ t[i] = x /\ s[j - 1].uptime \in Nat
      BY <1>0, <1>1, <1>3, <2>2, <3>1
    <3> QED
      BY <1>2, <3>1, <3>2 DEF Better
  <2>3. CASE i # p /\ j # p
    <3>1. PICK k \in 1..n : t[i] = s[k] /\ (k = i \/ k = i - 1) /\ (k = i => i <= p - 1) /\ (k = i - 1 => i - 1 >= p)
      <4>1. \/ i \in 1..(p - 1) /\ i \in 1..n /\ t[i] = s[i]
            \/ i - 1 \in p..n /\ i - 1 \in 1..n /\ t[i] = s[i - 1]
        BY <1>4, <2>3
      <4> QED
        BY <1>0, <1>2, <4>1
    <3>2. PICK l \in 1..n : t[j] = s[l] /\ (l = j \/ l = j - 1) /\ (l = j => j <= p - 1) /\ (l = j - 1 => j - 1 >= p)
      <4>1. \/ j \in 1..(p - 1) /\ j \in 1..n /\ t[j] = s[j]
            \/ j - 1 \in p..n /\ j - 1 \in 1..n /\ t[j] = s[j - 1]
        BY <1>4, <2>3
      <4> QED
        BY <1>0, <1>2, <4>1
    <3>3. k < l
      <4> HIDE DEF t
      <4> QED
        BY <1>0, <1>2, <3>1, <3>2
    <3> QED
      BY <1>0, <3>1, <3>2, <3>3 DEF Ordered
  <2> QED
    BY <2>1, <2>2, <2>3
<1>6. Range(t) = Range(s) \cup {x}
  <2>1. \A i \in 1..(n + 1) : t[i] \in Range(s) \cup {x}
    BY <1>0, <1>4 DEF Range
  <2>2. x \in Range(t)
    BY <1>1, <1>2 DEF Range
  <2>3. ASSUME NEW i \in 1..n PROVE s[i] \in Range(t)
    <3>1. CASE i < p
      <4>1. i \in 1..(p - 1) /\ i \in 1..(n + 1)
        BY <1>0, <1>2, <3>1
      <4> QED
        BY <1>1, <1>2, <4>1 DEF Range
    <3>2. CASE i >= p
      <4>1. i + 1 \in (p + 1)..(n + 1) /\ i + 1 \in 1..(n + 1) /\ i + 1 - 1 = i
        BY <1>0, <1>2, <3>2
      <4>2. t[i + 1] = s[i + 1 - 1]
        BY <1>1, <4>1
      <4> QED
        BY <1>2, <4>1, <4>2 DEF Range
    <3> QED
      BY <1>2, <3>1, <3>2
  <2> QED
    BY <1>0, <1>2, <2>1, <2>2, <2>3 DEF Range
<1> QED
  BY <1>1, <1>5, <1>6 DEF t

\* No node of another region comes before one of this region.
InFront(list, region) ==
    \A i, j \in DOMAIN list : i < j /\ list[j].region = region => list[i].region = region

LEMMA SortedOrdered ==
  ASSUME NEW region, NEW list \in Seq(Relays), InFront(list, region)
  PROVE  ByUptime(list) \in Seq(Relays) /\ Ordered(ByUptime(list), region) /\ Range(ByUptime(list)) = Range(list)
<1> DEFINE S == Seq(Relays)
           k == Len(list)
           Following(f) == [i \in 0..k |-> IF i = 0 THEN <<>> ELSE Placed(f[i - 1], list[i])]
           steps == [i \in 1..k |-> [s \in S |-> Placed(s, list[i])]]
           sorted == CHOOSE f : f = Following(f)
<1>0. k \in Nat /\ DOMAIN list = 1..k /\ \A i \in 1..k : list[i] \in Relays
  OBVIOUS
<1>1. steps \in [1..k -> [S -> S]] /\ <<>> \in S
  <2>1. \A i \in 1..k, s \in S : Placed(s, list[i]) \in S
    BY <1>0, PlacedAt
  <2> QED
    BY <2>1
<1>2. PICK f \in [0..k -> S] : Takes(f, <<>>, steps, k)
  <2> HIDE DEF steps, S, k
  <2> QED
    BY ONLY <1>0, <1>1, Iterates
<1>3. f = Following(f)
  <2>1. ASSUME NEW i \in 0..k, i # 0 PROVE steps[i][f[i - 1]] = Placed(f[i - 1], list[i])
    <3>1. i \in 1..k /\ i - 1 \in 0..k
      BY <1>0, <2>1
    <3>2. f[i - 1] \in S
      BY <3>1
    <3> QED
      BY <3>1, <3>2
  <2> HIDE DEF steps
  <2> QED
    BY <1>2, <2>1 DEF Takes
<1>4. sorted = Following(sorted)
  BY <1>3
<1> HIDE DEF sorted
<1>5. \A i \in 0..k : sorted[i] = IF i = 0 THEN <<>> ELSE Placed(sorted[i - 1], list[i])
  BY <1>4
<1> HIDE DEF k
<1> DEFINE Good(i) == /\ sorted[i] \in Seq(Relays) /\ Ordered(sorted[i], region)
                      /\ Range(sorted[i]) = FirstOf(list, i)
           G == {i \in Nat : i <= k => Good(i)}
<1>6. 0 \in G
  <2>1. sorted[0] = <<>>
    <3>1. 0 \in 0..k
      BY ONLY <1>0
    <3> HIDE DEF Good, G
    <3> QED
      BY <1>5, <3>1
  <2>2. <<>> \in Seq(Relays) /\ Ordered(<<>>, region) /\ Range(<<>>) = {} /\ FirstOf(list, 0) = {}
    BY FirstOfNext DEF Range, Ordered
  <2> QED
    BY <2>1, <2>2
<1>7. ASSUME NEW i \in Nat, i \in G PROVE i + 1 \in G
  <2> SUFFICES ASSUME i + 1 <= k PROVE Good(i + 1)
    OBVIOUS
  <2>1. i + 1 \in 0..k /\ i + 1 # 0 /\ i + 1 - 1 = i /\ i + 1 \in 1..k /\ i <= k
    BY <1>0
  <2> DEFINE s == sorted[i]
             x == list[i + 1]
  <2>2. s \in Seq(Relays) /\ Ordered(s, region) /\ Range(s) = FirstOf(list, i)
    BY <1>7, <2>1
  <2>3. sorted[i + 1] = Placed(s, x) /\ x \in Relays
    BY <1>0, <1>5, <2>1
  <2>4. FirstOf(list, i + 1) = FirstOf(list, i) \cup {x}
    BY FirstOfNext
  <2>5. ASSUME x.region = region, NEW j \in DOMAIN s PROVE s[j].region = region
    <3>1. s[j] \in FirstOf(list, i)
      BY <2>2 DEF Range
    <3>2. PICK m \in 1..i : s[j] = list[m]
      BY <3>1 DEF FirstOf
    <3>3. m \in 1..k /\ m < i + 1
      BY <1>0, <2>1
    <3>4. list[m].region = region
      BY <1>0, <2>1, <2>5, <3>3 DEF InFront
    <3> QED
      BY <3>2, <3>4
  <2> HIDE DEF s, x
  <2>6. /\ Placed(s, x) \in Seq(Relays) /\ Ordered(Placed(s, x), region)
        /\ Range(Placed(s, x)) = Range(s) \cup {x}
    BY <2>2, <2>3, <2>5, PlacedOrdered
  <2> QED
    BY <2>2, <2>3, <2>4, <2>6
<1>8. k \in G
  <2> HIDE DEF G
  <2> QED
    BY <1>0, <1>6, <1>7, NatSetInduction
<1>9. ByUptime(list) = sorted[k]
  BY DEF ByUptime, sorted, k
<1> QED
  BY <1>0, <1>8, <1>9, FirstOfAll DEF k

LEMMA PreferredInFront ==
  ASSUME NEW region, NEW list \in Seq(Relays)
  PROVE  /\ Preferred(list, region) \in Seq(Relays) /\ InFront(Preferred(list, region), region)
         /\ Range(Preferred(list, region)) = Range(list)
<1> DEFINE a == Only(list, {n \in Range(list) : n.region = region})
           b == Only(list, {n \in Range(list) : n.region # region})
           c == a \o b
<1>1. /\ a \in Seq(Relays) /\ b \in Seq(Relays)
      /\ Range(a) = Range(list) \cap {n \in Range(list) : n.region = region}
      /\ Range(b) = Range(list) \cap {n \in Range(list) : n.region # region}
  BY OnlyKept
<1>2. Preferred(list, region) = c
  BY DEF Preferred
<1> HIDE DEF a, b
<1>3. /\ Len(a) \in Nat /\ Len(b) \in Nat /\ DOMAIN a = 1..Len(a) /\ DOMAIN b = 1..Len(b)
      /\ c \in Seq(Relays) /\ Len(c) = Len(a) + Len(b) /\ DOMAIN c = 1..(Len(a) + Len(b))
      /\ \A i \in 1..Len(a) : c[i] = a[i]
      /\ \A i \in (Len(a) + 1)..(Len(a) + Len(b)) : c[i] = b[i - Len(a)]
  <2>1. c \in Seq(Relays) /\ Len(c) = Len(a) + Len(b)
    BY <1>1, Concatenated
  <2>2. DOMAIN c = 1..(Len(a) + Len(b))
    BY <2>1
  <2> QED
    BY <1>1, <2>1, <2>2, Concatenated
<1>4. \A i \in 1..Len(a) : c[i] \in Range(a)
  BY <1>3 DEF Range
<1>5. ASSUME NEW i \in (Len(a) + 1)..(Len(a) + Len(b)) PROVE c[i] \in Range(b)
  <2>1. i - Len(a) \in 1..Len(b)
    BY <1>3
  <2> QED
    BY <1>3, <2>1 DEF Range
<1>6. \A i \in 1..(Len(a) + Len(b)) : i \in 1..Len(a) \/ i \in (Len(a) + 1)..(Len(a) + Len(b))
  BY <1>3
<1>7. ASSUME NEW i \in DOMAIN c, NEW j \in DOMAIN c, i < j, c[j].region = region PROVE c[i].region = region
  <2>1. j \notin (Len(a) + 1)..(Len(a) + Len(b))
    BY <1>1, <1>5, <1>7
  <2>2. j \in 1..Len(a)
    BY <1>3, <1>6, <2>1
  <2>3. i \in 1..Len(a)
    BY <1>3, <1>7, <2>2
  <2> QED
    BY <1>1, <1>4, <2>3
<1>8. Range(c) = Range(a) \cup Range(b)
  <2>1. \A i \in DOMAIN c : c[i] \in Range(a) \cup Range(b)
    BY <1>3, <1>4, <1>5, <1>6
  <2>2. ASSUME NEW i \in DOMAIN a PROVE a[i] \in Range(c)
    <3>1. i \in 1..(Len(a) + Len(b))
      BY <1>3
    <3> QED
      BY <1>3, <3>1 DEF Range
  <2>3. ASSUME NEW i \in DOMAIN b PROVE b[i] \in Range(c)
    <3>1. /\ i + Len(a) \in (Len(a) + 1)..(Len(a) + Len(b)) /\ i + Len(a) - Len(a) = i
          /\ i + Len(a) \in 1..(Len(a) + Len(b))
      BY <1>3
    <3>2. c[i + Len(a)] = b[i + Len(a) - Len(a)]
      BY <1>3, <3>1
    <3> QED
      BY <1>3, <3>1, <3>2 DEF Range
  <2> HIDE DEF c
  <2> QED
    BY <2>1, <2>2, <2>3 DEF Range
<1> QED
  BY <1>1, <1>2, <1>3, <1>7, <1>8 DEF InFront

\* The best come first, whatever the order of the list is.
LEMMA RankedBest == ASSUME relays \in Seq(Relays) PROVE BestFirst
<1> SUFFICES ASSUME NEW region \in Regions
             PROVE  LET given == Ranked(relays, region)
                        left == {n \in Range(relays) : n.uptime >= MinUptime /\ RelayFresh(n)} \ Range(given)
                    IN  /\ left # {} => Len(given) = MaxResults
                        /\ \A i \in DOMAIN given :
                              /\ \A n \in left : ~ Better(n, given[i], region)
                              /\ \A j \in DOMAIN given : i < j => ~ Better(given[j], given[i], region)
  BY DEF BestFirst
<1> DEFINE good == {n \in Range(relays) : n.uptime >= MinUptime /\ RelayFresh(n)}
           cands == Candidates(relays)
           all == ByUptime(Preferred(cands, region))
           m == Min({Len(all), MaxResults})
           given == SubSeq(all, 1, m)
           left == good \ Range(given)
<1>1. cands \in Seq(Relays) /\ Range(cands) = good
  BY OnlyKept DEF Candidates
<1>2. all \in Seq(Relays) /\ Ordered(all, region) /\ Range(all) = good
  <2> HIDE DEF cands, good
  <2> QED
    BY <1>1, PreferredInFront, SortedOrdered
<1>3. Ranked(relays, region) = given
  BY DEF Ranked
<1> HIDE DEF all
<1> DEFINE k == Len(all)
<1>4. k \in Nat /\ DOMAIN all = 1..k /\ MaxResults \in Nat
  BY <1>2, DirectoryAssumption
<1>5. m \in Nat /\ m <= k /\ (m < k => m = MaxResults)
  <2>1. \E i \in {k, MaxResults} : \A j \in {k, MaxResults} : i <= j
    BY <1>4
  <2>2. m \in {k, MaxResults} /\ m <= k /\ m <= MaxResults
    BY <2>1 DEF Min
  <2> QED
    BY <1>4, <2>2
<1> HIDE DEF m, good
<1>6. /\ Len(given) = m /\ DOMAIN given = 1..m
      /\ \A i \in 1..m : i \in 1..k /\ given[i] = all[i]
  BY <1>2, <1>5, FirstPart
<1> HIDE DEF given, k
<1>7. ASSUME NEW n \in left PROVE \E j \in 1..k : n = all[j] /\ m < j
  <2>1. PICK j \in 1..k : n = all[j]
    BY <1>2, <1>4 DEF Range
  <2>2. j \in 1..m => n \in Range(given)
    BY <1>6, <2>1 DEF Range
  <2>3. j \notin 1..m
    BY <2>2
  <2>4. m < j
    BY ONLY <1>4, <1>5, <2>3, j \in 1..k
  <2> QED
    BY <2>1, <2>4
<1>8. left # {} => Len(given) = MaxResults
  <2> SUFFICES ASSUME left # {} PROVE m = MaxResults
    BY <1>6
  <2>1. PICK j \in 1..k : m < j
    BY <1>7
  <2>2. m < k
    BY ONLY <1>4, <1>5, <2>1
  <2> QED
    BY <1>5, <2>2
<1>9. ASSUME NEW i \in DOMAIN given, NEW n \in left PROVE ~ Better(n, given[i], region)
  <2>1. PICK j \in 1..k : n = all[j] /\ m < j
    BY <1>7
  <2>2. i \in 1..m /\ i \in 1..k /\ given[i] = all[i]
    BY <1>6
  <2>3. i < j
    BY ONLY <1>4, <1>5, <2>1, <2>2
  <2> QED
    BY <1>2, <1>4, <2>1, <2>2, <2>3 DEF Ordered
<1>10. ASSUME NEW i \in DOMAIN given, NEW j \in DOMAIN given, i < j PROVE ~ Better(given[j], given[i], region)
  BY <1>2, <1>4, <1>6, <1>10 DEF Ordered
<1> QED
  BY <1>3, <1>8, <1>9, <1>10 DEF left, good

\* What a client knows of relays is typed, kept and ranked: no id twice, no bootstrap node
\* lost, whatever was registered or came with a whole listing is still known, and a discover
\* that returns now answers the best of them, for all relays, listings, tasks, times and
\* restarts.
THEOREM RelaysKeptAndRanked == DirectorySpec => []DirectoryConsistent
<1>1. DirectoryInv => DirectoryConsistent
  <2> SUFFICES ASSUME DirectoryInv PROVE DirectoryConsistent
    OBVIOUS
  <2>1. relays \in Seq(Relays)
    BY DEF DirectoryInv, KnownBy
  <2>2. Ids(relays) \subseteq RelayIds
    <3>1. \A i \in DOMAIN relays : relays[i] \in Relays
      BY <2>1
    <3> QED
      BY <3>1 DEF Ids, Relays
  <2>3. DirectoryTypeOK /\ LearntStaysKnown
    BY <2>2 DEF DirectoryInv, KnownBy, Apart, BootIds, DirectoryTypeOK, LearntStaysKnown
  <2> QED
    BY <2>1, <2>3, RankedBest DEF DirectoryConsistent
<1> QED
  BY <1>1, DirectoryStart, DirectoryKept, PTL DEF DirectorySpec

(* -------------------------------- economics ------------------------------ *)

LEMMA MinMaxTwo ==
  ASSUME NEW a \in Int, NEW b \in Int
  PROVE  /\ Min({a, b}) \in {a, b} /\ Min({a, b}) <= a /\ Min({a, b}) <= b
         /\ Max({a, b}) \in {a, b} /\ Max({a, b}) >= a /\ Max({a, b}) >= b
<1>1. /\ \E x \in {a, b} : \A y \in {a, b} : x <= y
      /\ \E x \in {a, b} : \A y \in {a, b} : x >= y
  <2>1. CASE a <= b
    BY <2>1
  <2>2. CASE b <= a
    BY <2>2
  <2> QED
    BY <2>1, <2>2
<1> QED
  BY <1>1 DEF Min, Max

LEMMA MaxThree ==
  ASSUME NEW a \in Int, NEW b \in Int, NEW c \in Int
  PROVE  Max({a, b, c}) \in {a, b, c}
<1>1. \E x \in {a, b, c} : \A y \in {a, b, c} : x >= y
  <2>1. CASE a >= b /\ a >= c
    BY <2>1
  <2>2. CASE b >= a /\ b >= c
    BY <2>2
  <2>3. CASE c >= a /\ c >= b
    BY <2>3
  <2> QED
    BY <2>1, <2>2, <2>3
<1> QED
  BY <1>1 DEF Max

\* Whatever the two ends of a window are, the next difficulty is within its bounds.
LEMMA NextInRange ==
  ASSUME NEW d \in Int, NEW start \in Int, NEW end \in Int
  PROVE  CalculateNextDifficulty(d, start, end) \in MinDifficulty..MaxDifficulty
<1> DEFINE expected == Interval * TargetTime
           least == Max({1, end - start, expected \div Clamp})
           actual == Min({least, expected * Clamp})
           next == (d * actual) \div expected
           capped == Min({MaxDifficulty, next})
<1>1. expected \in Nat \ {0} /\ expected \div Clamp \in Int /\ expected * Clamp \in Int
  BY EconomicsAssumption
<1>2. least \in Int
  <2> HIDE DEF expected
  <2> QED
    BY <1>1, MaxThree
<1>3. actual \in Int
  <2> HIDE DEF least, expected
  <2> QED
    BY <1>1, <1>2, MinMaxTwo
<1>4. next \in Int
  <2> HIDE DEF actual, expected
  <2>1. d * actual \in Int
    BY <1>3
  <2> QED
    BY <1>1, <2>1
<1>5. CalculateNextDifficulty(d, start, end) = Max({MinDifficulty, capped})
  BY DEF CalculateNextDifficulty
<1> HIDE DEF next
<1>6. capped \in Int /\ capped <= MaxDifficulty
  <2>1. MaxDifficulty \in Int
    BY EconomicsAssumption
  <2> QED
    BY <1>4, <2>1, MinMaxTwo
<1> HIDE DEF capped
<1>7. MinDifficulty \in Int /\ MaxDifficulty \in Int /\ MinDifficulty <= MaxDifficulty
  BY EconomicsAssumption
<1>8. Max({MinDifficulty, capped}) \in {MinDifficulty, capped} /\ Max({MinDifficulty, capped}) >= MinDifficulty
  BY <1>6, <1>7, MinMaxTwo
<1> QED
  BY <1>5, <1>6, <1>7, <1>8

\* A window that ends at a height has all its blocks on the chain.
LEMMA WindowFits ==
  ASSUME NEW n \in Nat \ {0}, n % Interval = 0
  PROVE  n >= Interval
<1>1. Interval \in Nat \ {0}
  BY EconomicsAssumption
<1> DEFINE q == n \div Interval
<1>2. q \in Int /\ n = Interval * q + (n % Interval)
  BY <1>1
<1> HIDE DEF q
<1>3. n = Interval * q
  BY <1>1, <1>2
<1>4. CASE q >= 1
  <2>1. Interval * q >= Interval * 1
    BY <1>1, <1>2, <1>4
  <2> QED
    BY <1>1, <1>3, <2>1
<1>5. CASE q <= 0
  <2>1. Interval * q <= 0
    BY <1>1, <1>2, <1>5
  <2> QED
    BY <1>3, <2>1
<1> QED
  BY <1>2, <1>4, <1>5


LEMMA PowerOfTwo ==
  ASSUME NEW n \in Nat
  PROVE  2 ^ 0 = 1 /\ 2 ^ n \in Nat \ {0} /\ 2 ^ (n + 1) = 2 * 2 ^ n
<1> DEFINE S == 1..n
           T == 1..(n + 1)
           W == {a \cup {n + 1} : a \in SUBSET S}
<1>1. /\ IsFiniteSet(S) /\ Cardinality(S) = n /\ IsFiniteSet(T) /\ Cardinality(T) = n + 1
  BY FS_Interval
<1>2. /\ IsFiniteSet(SUBSET S) /\ Cardinality(SUBSET S) = 2 ^ n
      /\ IsFiniteSet(SUBSET T) /\ Cardinality(SUBSET T) = 2 ^ (n + 1)
  <2> HIDE DEF S, T
  <2> QED
    BY <1>1, FS_SUBSET
<1>3. SUBSET T = (SUBSET S) \cup W /\ (SUBSET S) \cap W = {}
  <2>1. T = S \cup {n + 1} /\ n + 1 \notin S
    OBVIOUS
  <2>2. ASSUME NEW u \in SUBSET T PROVE u \in (SUBSET S) \cup W
    <3>1. u \ {n + 1} \in SUBSET S
      BY <2>1
    <3>2. n + 1 \in u => u = (u \ {n + 1}) \cup {n + 1}
      OBVIOUS
    <3>3. n + 1 \notin u => u \in SUBSET S
      BY <2>1
    <3> HIDE DEF S
    <3> QED
      BY <3>1, <3>2, <3>3
  <2> HIDE DEF S, T
  <2>3. \A a \in SUBSET S : a \in SUBSET T /\ a \cup {n + 1} \in SUBSET T
    BY <2>1
  <2>4. (SUBSET S) \cup W \subseteq SUBSET T
    BY <2>3
  <2>5. \A w \in W : n + 1 \in w
    OBVIOUS
  <2>6. (SUBSET S) \cap W = {}
    BY <2>1, <2>5
  <2> HIDE DEF W
  <2> QED
    BY <2>2, <2>4, <2>6
<1>4. IsFiniteSet(W) /\ Cardinality(W) = Cardinality(SUBSET S)
  <2> DEFINE f == [a \in SUBSET S |-> a \cup {n + 1}]
  <2>1. f \in Bijection(SUBSET S, W)
    <3>1. n + 1 \notin S
      OBVIOUS
    <3> HIDE DEF S
    <3>2. \A a, b \in SUBSET S : a \cup {n + 1} = b \cup {n + 1} => a = b
      BY <3>1
    <3>3. f \in [SUBSET S -> W]
      OBVIOUS
    <3>4. \A a, b \in SUBSET S : f[a] = f[b] => a = b
      BY <3>2
    <3>5. \A w \in W : \E a \in SUBSET S : f[a] = w
      OBVIOUS
    <3> HIDE DEF f, W
    <3> QED
      BY <3>3, <3>4, <3>5 DEF Bijection, Injection, Surjection, IsInjective
  <2> HIDE DEF f, S, W
  <2> QED
    BY <1>2, <2>1, FS_Bijection DEF ExistsBijection
<1>5. 2 ^ (n + 1) = 2 * 2 ^ n
  <2> DEFINE c == Cardinality(SUBSET S)
             d == Cardinality(SUBSET T)
  <2>1. d = c + Cardinality(W) - Cardinality((SUBSET S) \cap W)
    <3> HIDE DEF S, T, W
    <3> QED
      BY <1>2, <1>3, <1>4, FS_Union
  <2>2. Cardinality((SUBSET S) \cap W) = 0
    BY <1>3, FS_EmptySet
  <2>3. c \in Nat
    BY <1>2, FS_CardinalityType
  <2>4. d = 2 * c
    <3> HIDE DEF c, d
    <3> QED
      BY <1>4, <2>1, <2>2, <2>3 DEF c
  <2> QED
    BY <1>2, <2>4
<1>6. 2 ^ n \in Nat \ {0}
  <2>1. Cardinality(SUBSET S) \in Nat
    BY <1>2, FS_CardinalityType
  <2>2. Cardinality(SUBSET S) # 0
    BY <1>2, FS_EmptySet
  <2> QED
    BY <1>2, <2>1, <2>2
<1> QED
  BY <1>5, <1>6

EraBlocks == HalvingInterval
Eras == MaxHeight \div EraBlocks

\* The reward of an era.
Half(e) == InitialReward \div (2 ^ e)

LEMMA Cancel ==
  ASSUME NEW a \in Nat \ {0}, NEW x \in Int, NEW y \in Int, a * x = a * y
  PROVE  x = y
<1>1. CASE x > y
  <2>1. a * x >= a * (y + 1)
    BY <1>1
  <2>2. a * (y + 1) = a * y + a
    OBVIOUS
  <2> DEFINE p == a * x
             q == a * y
  <2>3. p \in Int /\ q \in Int /\ p >= q + a /\ p = q
    BY <2>1, <2>2
  <2> HIDE DEF p, q
  <2> QED
    BY <2>3
<1>2. CASE x < y
  <2>1. a * y >= a * (x + 1)
    BY <1>2
  <2>2. a * (x + 1) = a * x + a
    OBVIOUS
  <2> DEFINE p == a * x
             q == a * y
  <2>3. p \in Int /\ q \in Int /\ q >= p + a /\ p = q
    BY <2>1, <2>2
  <2> HIDE DEF p, q
  <2> QED
    BY <2>3
<1> QED
  BY <1>1, <1>2

\* Division by a positive number.
LEMMA Divided ==
  ASSUME NEW x \in Nat, NEW b \in Nat \ {0}
  PROVE  x \div b \in Nat /\ x % b \in 0..(b - 1) /\ x = b * (x \div b) + (x % b)
  OBVIOUS

LEMMA QuotientUnique ==
  ASSUME NEW x \in Nat, NEW b \in Nat \ {0}, NEW q \in Nat, NEW m \in 0..(b - 1), x = b * q + m
  PROVE  x \div b = q
<1> DEFINE p == x \div b
           r == x % b
<1>1. p \in Nat /\ r \in 0..(b - 1) /\ x = b * p + r
  BY Divided
<1> HIDE DEF p, r
<1>2. CASE p < q
  <2>1. b * q >= b * (p + 1) /\ b * (p + 1) = b * p + b
    BY <1>1, <1>2
  <2> DEFINE u == b * q
             v == b * p
  <2>2. u \in Nat /\ v \in Nat /\ u >= v + b /\ x = u + m /\ x = v + r
    BY <1>1, <2>1
  <2> HIDE DEF u, v
  <2> QED
    BY <1>1, <2>2
<1>3. CASE q < p
  <2>1. b * p >= b * (q + 1) /\ b * (q + 1) = b * q + b
    BY <1>1, <1>3
  <2> DEFINE u == b * q
             v == b * p
  <2>2. u \in Nat /\ v \in Nat /\ v >= u + b /\ x = u + m /\ x = v + r
    BY <1>1, <2>1
  <2> HIDE DEF u, v
  <2> QED
    BY <1>1, <2>2
<1> QED
  BY <1>1, <1>2, <1>3 DEF p

LEMMA QuotientGrows ==
  ASSUME NEW x \in Nat, NEW y \in Nat, NEW b \in Nat \ {0}, x <= y
  PROVE  x \div b <= y \div b
<1> DEFINE p == x \div b
           q == y \div b
           r == x % b
           s == y % b
<1>1. p \in Nat /\ r \in 0..(b - 1) /\ x = b * p + r /\ q \in Nat /\ s \in 0..(b - 1) /\ y = b * q + s
  BY Divided
<1> HIDE DEF p, q, r, s
<1> SUFFICES ASSUME q < p PROVE FALSE
  BY <1>1 DEF p, q
<1>2. b * p >= b * (q + 1) /\ b * (q + 1) = b * q + b
  BY <1>1
<1> DEFINE u == b * q
           v == b * p
<1>3. u \in Nat /\ v \in Nat /\ v >= u + b /\ y = u + s /\ x = v + r
  BY <1>1, <1>2
<1> HIDE DEF u, v
<1> QED
  BY <1>1, <1>3

LEMMA EcoNumbers ==
  /\ EraBlocks \in Nat \ {0} /\ InitialReward \in Nat \ {0} /\ MaxRewards \in Nat \ {0} /\ MaxHeight \in Nat
  /\ Eras \in Nat
<1>1. EraBlocks \in Nat \ {0} /\ InitialReward \in Nat \ {0} /\ MaxRewards \in Nat \ {0} /\ MaxHeight \in Nat
  BY EconomicsAssumption DEF EraBlocks
<1> QED
  BY <1>1, Divided DEF Eras

LEMMA Halves ==
  ASSUME WholeRewards, NEW e \in 0..Eras
  PROVE  /\ Half(e) \in Nat \ {0} /\ 2 ^ e * Half(e) = InitialReward /\ 2 ^ e \in Nat \ {0}
         /\ Half(0) = InitialReward
         /\ e + 1 \in 0..Eras => Half(e) = 2 * Half(e + 1)
<1>1. ASSUME NEW d \in 0..Eras
      PROVE  Half(d) \in Nat \ {0} /\ 2 ^ d * Half(d) = InitialReward /\ 2 ^ d \in Nat \ {0}
  <2> DEFINE p == 2 ^ d
             x == InitialReward \div p
  <2>1. p \in Nat \ {0} /\ InitialReward % p = 0
    BY PowerOfTwo, EcoNumbers DEF WholeRewards, Eras, EraBlocks
  <2> HIDE DEF p
  <2>2. x \in Nat /\ InitialReward = p * x + 0
    BY <2>1, Divided, EcoNumbers
  <2>3. InitialReward = p * x /\ x # 0
    <3> HIDE DEF x
    <3>1. InitialReward = p * x
      BY <2>1, <2>2
    <3>2. x = 0 => p * x = 0
      BY <2>1
    <3> QED
      BY <3>1, <3>2, EcoNumbers
  <2> QED
    BY <2>1, <2>2, <2>3 DEF Half, p
<1>2. Half(0) = InitialReward
  <2>1. 2 ^ 0 = 1
    BY PowerOfTwo, EcoNumbers
  <2> QED
    BY <2>1, EcoNumbers DEF Half
<1>3. ASSUME e + 1 \in 0..Eras PROVE Half(e) = 2 * Half(e + 1)
  <2> DEFINE p == 2 ^ e
             x == Half(e)
             y == Half(e + 1)
  <2>1. p \in Nat \ {0} /\ p * x = InitialReward /\ x \in Nat
    BY <1>1
  <2>2. 2 ^ (e + 1) * y = InitialReward /\ y \in Nat
    BY <1>1, <1>3
  <2>3. 2 ^ (e + 1) = 2 * p
    BY PowerOfTwo, EcoNumbers
  <2> HIDE DEF p, x, y
  <2>4. (2 * p) * y = p * (2 * y)
    BY <2>1, <2>2
  <2>5. p * x = p * (2 * y)
    BY <2>1, <2>2, <2>3, <2>4
  <2> QED
    BY <2>1, <2>2, <2>5, Cancel DEF x, y
<1> QED
  BY <1>1, <1>2, <1>3

LEMMA RewardInEra ==
  ASSUME WholeRewards, NEW e \in 0..Eras, NEW h \in Nat, h \div EraBlocks = e
  PROVE  RewardAt(h) = Half(e)
<1> DEFINE p == 2 ^ e
           x == Half(e)
<1>1. p \in Nat \ {0} /\ p * x = InitialReward /\ x \in Nat \ {0}
  BY Halves
<1>2. x = InitialReward \div p /\ InitialReward % p = 0 /\ ~ (e >= 64)
  BY EcoNumbers DEF Half, WholeRewards, Eras, EraBlocks
<1>3. RewardAt(h) = IF e >= 64 \/ InitialReward < p THEN 0 ELSE RoundedQuotient(InitialReward, p)
  BY DEF RewardAt, EraBlocks
<1> HIDE DEF p, x
<1>4. ~ (InitialReward < p)
  <2>1. p * x >= p * 1 /\ p * 1 = p
    BY <1>1
  <2> DEFINE i == InitialReward
             u == p * x
  <2>2. i \in Nat /\ u \in Nat /\ u = i /\ u >= p
    BY <1>1, <2>1, EcoNumbers
  <2> HIDE DEF i, u
  <2>3. ~ (i < p)
    BY <1>1, <2>2
  <2> QED
    BY <2>3 DEF i
<1>5. RoundedQuotient(InitialReward, p) = InitialReward \div p
  <2>1. 2 * (InitialReward % p) = 0 /\ ~ (0 > p) /\ 0 # p
    BY <1>1, <1>2
  <2> QED
    BY <2>1 DEF RoundedQuotient
<1> QED
  BY <1>2, <1>3, <1>4, <1>5 DEF x

LEMMA HalfRounds ==
  ASSUME NEW x \in Nat
  PROVE  RoundedQuotient(2 * x, 2) = x /\ RoundedQuotient(x, 2) \in Nat
  BY DEF RoundedQuotient

\* The blocks of an era.
LEMMA EraOf ==
  ASSUME NEW e \in Nat, NEW j \in 0..(EraBlocks - 1), e * EraBlocks + j <= MaxHeight
  PROVE  (e * EraBlocks + j) \div EraBlocks = e /\ e \in 0..Eras /\ e * EraBlocks + j \in Nat
<1> DEFINE x == e * EraBlocks + j
<1>1. x \in Nat /\ x = EraBlocks * e + j /\ x <= MaxHeight
  BY EcoNumbers
<1> HIDE DEF x
<1>2. x \div EraBlocks = e
  BY <1>1, EcoNumbers, QuotientUnique
<1>3. x \div EraBlocks <= Eras
  BY <1>1, EcoNumbers, QuotientGrows DEF Eras
<1> QED
  BY <1>1, <1>2, <1>3, EcoNumbers DEF x

LEMMA RewardType ==
  ASSUME NEW h \in Nat PROVE RewardAt(h) \in Int
<1> DEFINE k == h \div EraBlocks
           p == 2 ^ k
           q == InitialReward \div p
<1>1. k \in Nat
  BY EcoNumbers, Divided
<1>2. p \in Nat \ {0}
  <2> HIDE DEF k
  <2> QED
    BY <1>1, PowerOfTwo
<1>3. q \in Nat
  <2> HIDE DEF p
  <2> QED
    BY <1>2, EcoNumbers, Divided
<1>4. RewardAt(h) = IF k >= 64 \/ InitialReward < p THEN 0 ELSE RoundedQuotient(InitialReward, p)
  BY DEF RewardAt, EraBlocks
<1>5. RoundedQuotient(InitialReward, p) \in {q, q + 1}
  BY DEF RoundedQuotient
<1> HIDE DEF q
<1> QED
  BY <1>3, <1>4, <1>5

\* What the first n blocks are paid.
Paid(n) == IF n = 0 THEN 0 ELSE RewardsThrough[n - 1]

LEMMA Rewards ==
  ASSUME NEW h \in 0..MaxHeight
  PROVE  /\ RewardsThrough[h] = RewardAt(h) + Paid(h) /\ RewardsThrough[h] \in Int
         /\ Paid(h) \in Int /\ Paid(h + 1) = Paid(h) + RewardAt(h)
<1> DEFINE S == Int
           k == MaxHeight
           a == RewardAt(0)
           steps == [i \in 1..k |-> [x \in S |-> RewardAt(i) + x]]
           Following(f) == [i \in 0..k |-> RewardAt(i) + (IF i = 0 THEN 0 ELSE f[i - 1])]
<1>0. k \in Nat /\ a \in S /\ \A i \in 0..k : RewardAt(i) \in S
  BY EcoNumbers, RewardType
<1>1. steps \in [1..k -> [S -> S]]
  BY <1>0
<1>2. PICK f \in [0..k -> S] : Takes(f, a, steps, k)
  <2> HIDE DEF steps, S, k, a
  <2> QED
    BY ONLY <1>0, <1>1, Iterates
<1>3. f = Following(f)
  <2>1. ASSUME NEW i \in 0..k, i # 0 PROVE steps[i][f[i - 1]] = RewardAt(i) + f[i - 1]
    <3>1. i \in 1..k /\ i - 1 \in 0..k
      BY <1>0, <2>1
    <3>2. f[i - 1] \in S
      BY <3>1
    <3> QED
      BY <3>1, <3>2
  <2>2. a = RewardAt(0) + 0
    BY <1>0
  <2> HIDE DEF steps, a
  <2>3. ASSUME NEW i \in 0..k PROVE f[i] = RewardAt(i) + (IF i = 0 THEN 0 ELSE f[i - 1])
    <3>1. f[i] = IF i = 0 THEN a ELSE steps[i][f[i - 1]]
      BY <1>2 DEF Takes
    <3> QED
      BY <2>1, <2>2, <3>1
  <2> QED
    BY <2>3
<1>4. RewardsThrough = Following(RewardsThrough)
  BY <1>3 DEF RewardsThrough
<1>5. \A i \in 0..k : RewardsThrough[i] = RewardAt(i) + (IF i = 0 THEN 0 ELSE RewardsThrough[i - 1])
  BY <1>4
<1> DEFINE G == {i \in Nat : i <= k => RewardsThrough[i] \in Int}
<1>6. k \in G /\ Nat \subseteq G
  <2>1. 0 \in G
    BY <1>0, <1>5
  <2>2. ASSUME NEW i \in Nat, i \in G, i + 1 <= k PROVE RewardsThrough[i + 1] \in Int
    <3>1. i + 1 \in 0..k /\ i + 1 # 0 /\ i + 1 - 1 = i /\ i <= k
      BY <1>0, <2>2
    <3>2. RewardsThrough[i + 1] = RewardAt(i + 1) + RewardsThrough[i]
      BY <1>5, <3>1
    <3> QED
      BY <1>0, <2>2, <3>1, <3>2
  <2>3. \A i \in Nat : i \in G => i + 1 \in G
    BY <2>2
  <2> HIDE DEF G
  <2> QED
    BY <1>0, <2>1, <2>3, NatSetInduction
<1>7. RewardsThrough[h] \in Int /\ (h # 0 => RewardsThrough[h - 1] \in Int)
  <2>1. h \in Nat /\ h <= k /\ (h # 0 => h - 1 \in Nat /\ h - 1 <= k)
    BY <1>0
  <2> QED
    BY <1>6, <2>1
<1>8. h + 1 # 0 /\ h + 1 - 1 = h
  BY <1>0
<1>9. RewardsThrough[h] = RewardAt(h) + Paid(h) /\ Paid(h) \in Int
  BY <1>5, <1>7 DEF Paid
<1>10. Paid(h + 1) = RewardsThrough[h]
  BY <1>8 DEF Paid
<1> QED
  BY <1>0, <1>7, <1>9, <1>10

\* The blocks of an era are paid the same.
LEMMA EraPays ==
  ASSUME WholeRewards, NEW e \in 0..Eras, NEW m \in 0..EraBlocks, e * EraBlocks + m <= MaxHeight + 1
  PROVE  Paid(e * EraBlocks + m) = Paid(e * EraBlocks) + m * Half(e) /\ Paid(e * EraBlocks) \in Int
<1> DEFINE b == e * EraBlocks
           x == Half(e)
           G == {j \in Nat : j <= m => Paid(b + j) = Paid(b) + j * x /\ Paid(b) \in Int}
<1>0. b \in Nat /\ x \in Nat /\ m \in Nat /\ MaxHeight \in Nat /\ EraBlocks \in Nat \ {0} /\ e \in Nat
      /\ b + m <= MaxHeight + 1
  BY EcoNumbers, Halves
<1>1. Paid(b) \in Int
  <2>1. CASE b = 0
    BY <2>1 DEF Paid
  <2>2. CASE b # 0
    <3>1. b - 1 \in 0..MaxHeight /\ b - 1 + 1 = b
      <4> HIDE DEF b
      <4> QED
        BY <1>0, <2>2
    <3>2. Paid(b - 1 + 1) \in Int
      <4> HIDE DEF b
      <4>1. RewardAt(b - 1) \in Int
        BY <3>1, RewardType
      <4> QED
        BY <3>1, <4>1, Rewards
    <3> QED
      BY <3>1, <3>2
  <2> QED
    BY <2>1, <2>2
<1>2. \A j \in 0..(m - 1) : b + j \in 0..MaxHeight /\ RewardAt(b + j) = x
  <2> SUFFICES ASSUME NEW j \in 0..(m - 1) PROVE b + j \in 0..MaxHeight /\ RewardAt(b + j) = x
    OBVIOUS
  <2>1. b + j <= MaxHeight /\ j \in 0..(EraBlocks - 1) /\ b + j \in Nat
    <3> HIDE DEF b
    <3> QED
      BY <1>0
  <2>2. (b + j) \div EraBlocks = e
    BY <1>0, <2>1, EraOf
  <2>3. RewardAt(b + j) = x
    BY <2>1, <2>2, RewardInEra
  <2> QED
    BY <1>0, <2>1, <2>3
<1> HIDE DEF b, x
<1>3. 0 \in G
  <2>1. b + 0 = b /\ 0 * x = 0
    BY <1>0
  <2> QED
    BY <1>1, <2>1
<1>4. ASSUME NEW j \in Nat, j \in G PROVE j + 1 \in G
  <2> SUFFICES ASSUME j + 1 <= m PROVE Paid(b + (j + 1)) = Paid(b) + (j + 1) * x /\ Paid(b) \in Int
    OBVIOUS
  <2>1. j \in 0..(m - 1) /\ b + (j + 1) = b + j + 1 /\ (j + 1) * x = j * x + x /\ j * x \in Int /\ j <= m
    BY <1>0
  <2>2. Paid(b + j) = Paid(b) + j * x
    BY <1>4, <2>1
  <2>3. Paid(b + j + 1) = Paid(b + j) + RewardAt(b + j)
    BY <1>2, <2>1, Rewards
  <2>4. RewardAt(b + j) = x
    BY <1>2, <2>1
  <2> QED
    BY <1>0, <1>1, <2>1, <2>2, <2>3, <2>4
<1>5. m \in G
  <2> HIDE DEF G
  <2> QED
    BY <1>0, <1>3, <1>4, NatSetInduction
<1> QED
  BY <1>0, <1>5 DEF b, x

\* The loop of cumulative_supply.
LoopStates == [total : Nat, reward : Nat, remaining : Nat]

LEMMA Round ==
  ASSUME NEW s \in LoopStates
  PROVE  /\ EraPaid(s) \in LoopStates
         /\ s.remaining = 0 => EraPaid(s) = s
         /\ s.remaining # 0 /\ s.reward # 0 =>
               \E b \in Nat :
                  /\ EraPaid(s) = [total |-> s.total + b * s.reward, reward |-> RoundedQuotient(s.reward, 2),
                                   remaining |-> s.remaining - b]
                  /\ b = IF s.remaining < EraBlocks THEN s.remaining ELSE EraBlocks
<1> DEFINE b == Min({HalvingInterval, s.remaining})
<1>1. s.total \in Nat /\ s.reward \in Nat /\ s.remaining \in Nat /\ EraBlocks \in Nat
  BY EcoNumbers DEF LoopStates
<1>2. b \in Nat /\ b <= s.remaining /\ b = IF s.remaining < EraBlocks THEN s.remaining ELSE EraBlocks
  <2>1. b \in {EraBlocks, s.remaining} /\ b <= EraBlocks /\ b <= s.remaining
    <3>1. HalvingInterval \in Int /\ s.remaining \in Int
      BY <1>1 DEF EraBlocks
    <3> HIDE DEF EraBlocks
    <3>2. b \in {HalvingInterval, s.remaining} /\ b <= HalvingInterval /\ b <= s.remaining
      BY ONLY <3>1, MinMaxTwo DEF b
    <3> QED
      BY <3>2 DEF EraBlocks
  <2> HIDE DEF b
  <2> QED
    BY <1>1, <2>1
<1>3. EraPaid(s) = IF s.remaining = 0 \/ s.reward = 0 THEN s
                   ELSE [total |-> s.total + b * s.reward, reward |-> RoundedQuotient(s.reward, 2),
                         remaining |-> s.remaining - b]
  BY DEF EraPaid
<1> HIDE DEF b
<1>4. s.total + b * s.reward \in Nat /\ RoundedQuotient(s.reward, 2) \in Nat /\ s.remaining - b \in Nat
  BY <1>1, <1>2, HalfRounds
<1> QED
  BY <1>2, <1>3, <1>4 DEF LoopStates

FirstRound(height) == [total |-> 0, reward |-> InitialReward, remaining |-> height + 1]

LEMMA Rounds ==
  ASSUME NEW height \in Nat
  PROVE  \E g \in [0..(height + 1) -> LoopStates] :
            /\ g[0] = FirstRound(height)
            /\ \A i \in 1..(height + 1) : g[i] = EraPaid(g[i - 1])
            /\ CumulativeSupply(height) = Min({g[height + 1].total, MaxRewards})
<1> DEFINE S == LoopStates
           k == height + 1
           a == FirstRound(height)
           steps == [i \in 1..k |-> [s \in S |-> EraPaid(s)]]
           Following(f) == [i \in 0..k |-> IF i = 0
                                           THEN [total |-> 0, reward |-> InitialReward, remaining |-> height + 1]
                                           ELSE EraPaid(f[i - 1])]
           after == CHOOSE f : f = Following(f)
<1>0. k \in Nat /\ a \in S
  BY EcoNumbers DEF LoopStates, FirstRound
<1>1. steps \in [1..k -> [S -> S]]
  BY Round
<1>2. PICK f \in [0..k -> S] : Takes(f, a, steps, k)
  <2> HIDE DEF steps, S, k, a
  <2> QED
    BY ONLY <1>0, <1>1, Iterates
<1>3. f = Following(f)
  <2>1. ASSUME NEW i \in 0..k, i # 0 PROVE steps[i][f[i - 1]] = EraPaid(f[i - 1])
    <3>1. i \in 1..k /\ i - 1 \in 0..k
      <4> HIDE DEF k
      <4> QED
        BY <1>0, <2>1
    <3>2. f[i - 1] \in S
      BY <3>1
    <3> QED
      BY <3>1, <3>2
  <2> HIDE DEF steps
  <2>2. ASSUME NEW i \in 0..k
        PROVE  f[i] = IF i = 0 THEN [total |-> 0, reward |-> InitialReward, remaining |-> height + 1]
                      ELSE EraPaid(f[i - 1])
    BY <1>2, <2>1 DEF Takes, FirstRound
  <2> QED
    BY <2>2
<1>4. after = Following(after)
  BY <1>3
<1>5. CumulativeSupply(height) = Min({after[k].total, MaxRewards})
  BY DEF CumulativeSupply
<1> HIDE DEF after
<1>6. \A i \in 0..k : after[i] = IF i = 0 THEN a ELSE EraPaid(after[i - 1])
  BY <1>4 DEF FirstRound
<1> HIDE DEF a, k
<1> DEFINE G == {i \in Nat : i <= k => after[i] \in S}
<1>7. Nat \subseteq G
  <2>1. 0 \in G
    BY <1>0, <1>6
  <2>2. ASSUME NEW i \in Nat, i \in G, i + 1 <= k PROVE after[i + 1] \in S
    <3>1. i + 1 \in 0..k /\ i + 1 # 0 /\ i + 1 - 1 = i /\ i <= k
      BY <1>0, <2>2
    <3>2. after[i + 1] = EraPaid(after[i + 1 - 1])
      BY <1>6, <3>1
    <3>3. after[i] \in LoopStates
      BY <2>2, <3>1
    <3> QED
      BY <3>1, <3>2, <3>3, Round
  <2>3. \A i \in Nat : i \in G => i + 1 \in G
    BY <2>2
  <2> HIDE DEF G
  <2> QED
    BY <2>1, <2>3, NatSetInduction
<1>8. after \in [0..k -> S]
  <2>1. \A i \in 0..k : after[i] \in S
    BY <1>0, <1>7
  <2>2. after = [i \in 0..k |-> after[i]]
    BY <1>4, <1>6 DEF k
  <2> QED
    BY <2>1, <2>2
<1>9. after[0] = a /\ \A i \in 1..k : after[i] = EraPaid(after[i - 1])
  BY <1>0, <1>6
<1> QED
  BY <1>5, <1>8, <1>9 DEF k, a

\* After e whole eras the loop has paid what the blocks were paid, and what it has left to
\* pay is at most twice the reward of an era.
LEMMA WholeEras ==
  ASSUME WholeRewards, NEW height \in 0..MaxHeight, NEW g \in [0..(height + 1) -> LoopStates],
         g[0] = FirstRound(height), \A i \in 1..(height + 1) : g[i] = EraPaid(g[i - 1]),
         NEW e \in Nat, e * EraBlocks <= height + 1
  PROVE  /\ e <= height + 1 /\ g[e].remaining = (height + 1) - e * EraBlocks /\ g[e].total = Paid(e * EraBlocks)
         /\ g[e].total <= 2 * EraBlocks * InitialReward
         /\ e \in 0..Eras =>
               g[e].reward = Half(e) /\ g[e].total + 2 * (EraBlocks * Half(e)) = 2 * EraBlocks * InitialReward
<1> DEFINE n == height + 1
           limit == 2 * EraBlocks * InitialReward
           Good(i) == /\ i <= n /\ g[i].remaining = n - i * EraBlocks /\ g[i].total = Paid(i * EraBlocks)
                      /\ g[i].total <= limit
                      /\ i \in 0..Eras => g[i].reward = Half(i) /\ g[i].total + 2 * (EraBlocks * Half(i)) = limit
           G == {i \in Nat : i * EraBlocks <= n => Good(i)}
<1>0. /\ n \in Nat \ {0} /\ EraBlocks \in Nat \ {0} /\ limit \in Nat /\ InitialReward \in Nat /\ MaxHeight \in Nat
      /\ n <= MaxHeight + 1
      /\ limit = 2 * (EraBlocks * InitialReward)
  BY EcoNumbers
<1>00. g[0] = [total |-> 0, reward |-> InitialReward, remaining |-> n] /\ g \in [0..n -> LoopStates]
       /\ \A i \in 1..n : g[i] = EraPaid(g[i - 1])
  BY DEF FirstRound
<1> HIDE DEF n, limit
<1>1. 0 \in G
  <2>1. 0 * EraBlocks = 0 /\ Paid(0) = 0
    BY <1>0 DEF Paid
  <2>2. Half(0) = InitialReward
    BY Halves, EcoNumbers
  <2>3. g[0].remaining = n /\ g[0].total = 0 /\ g[0].reward = InitialReward
    BY <1>00
  <2>4. n - 0 = n /\ 0 <= n /\ 0 <= limit /\ 0 + 2 * (EraBlocks * InitialReward) = limit
    BY <1>0
  <2>5. g[0].remaining = n - 0 * EraBlocks /\ g[0].total = Paid(0 * EraBlocks) /\ g[0].total <= limit
    BY <2>1, <2>3, <2>4
  <2>6. g[0].reward = Half(0) /\ g[0].total + 2 * (EraBlocks * Half(0)) = limit
    BY <2>2, <2>3, <2>4
  <2> QED
    BY <2>4, <2>5, <2>6
<1>2. ASSUME NEW i \in Nat, i \in G PROVE i + 1 \in G
  <2> SUFFICES ASSUME (i + 1) * EraBlocks <= n PROVE Good(i + 1)
    OBVIOUS
  <2> DEFINE b == i * EraBlocks
             s == g[i]
             x == Half(i)
  <2>1. b \in Nat /\ (i + 1) * EraBlocks = b + EraBlocks /\ b + EraBlocks <= n
    BY <1>0
  <2>2. Good(i)
    BY <1>0, <1>2, <2>1
  <2>3. i \in 0..Eras
    <3>1. 0 \in 0..(EraBlocks - 1) /\ b + 0 <= MaxHeight
      <4> HIDE DEF b
      <4> QED
        BY <1>0, <2>1
    <3> QED
      BY <3>1, EraOf
  <2>4. x \in Nat \ {0} /\ s.reward = x /\ s.total + 2 * (EraBlocks * x) = limit /\ s.remaining = n - b
        /\ s.total = Paid(b)
    BY <2>2, <2>3, Halves
  <2>5. i + 1 <= n /\ i + 1 \in 1..n /\ i \in 0..n /\ i + 1 - 1 = i
    <3>1. (i + 1) * EraBlocks >= (i + 1) * 1 /\ (i + 1) * 1 = i + 1
      BY <1>0
    <3> DEFINE u == (i + 1) * EraBlocks
    <3>2. u \in Int /\ u >= i + 1 /\ u <= n
      BY <1>0, <3>1
    <3> HIDE DEF u
    <3> QED
      BY <1>0, <3>2
  <2>6. s \in LoopStates /\ g[i + 1] = EraPaid(s)
    <3>1. g[i + 1] = EraPaid(g[i + 1 - 1])
      BY <1>00, <2>5
    <3> QED
      BY <1>00, <2>5, <3>1
  <2> DEFINE t == s.total + EraBlocks * x
  <2>7. /\ g[i + 1].total = t /\ g[i + 1].reward = RoundedQuotient(x, 2)
        /\ g[i + 1].remaining = n - (b + EraBlocks)
    <3> HIDE DEF b, s, x
    <3>1. s.remaining # 0 /\ ~ (s.remaining < EraBlocks)
      BY <1>0, <2>1, <2>4
    <3>2. EraPaid(s) = [total |-> s.total + EraBlocks * s.reward, reward |-> RoundedQuotient(s.reward, 2),
                        remaining |-> s.remaining - EraBlocks]
      BY <2>4, <2>6, <3>1, Round
    <3>3. s.remaining - EraBlocks = n - (b + EraBlocks)
      BY <1>0, <2>1, <2>4
    <3> QED
      BY <2>4, <2>6, <3>2, <3>3
  <2>8. Paid(b + EraBlocks) = Paid(b) + EraBlocks * x
    BY <1>0, <2>1, <2>3, EraPays
  <2>9. t = Paid((i + 1) * EraBlocks)
    BY <2>1, <2>4, <2>8
  <2>10. EraBlocks * x \in Nat /\ t \in Nat /\ t + EraBlocks * x = limit /\ t <= limit
    <3> HIDE DEF s, x
    <3>1. EraBlocks * x \in Nat
      BY <1>0, <2>4
    <3> DEFINE y == EraBlocks * x
    <3> HIDE DEF y
    <3>2. s.total \in Nat
      BY <2>6 DEF LoopStates
    <3> QED
      BY <1>0, <2>4, <3>1, <3>2 DEF y
  <2>11. ASSUME i + 1 \in 0..Eras PROVE RoundedQuotient(x, 2) = Half(i + 1) /\ t + 2 * (EraBlocks * Half(i + 1)) = limit
    <3> DEFINE y == Half(i + 1)
    <3>1. y \in Nat /\ x = 2 * y
      BY <2>3, <2>11, Halves
    <3> HIDE DEF y, x
    <3>2. EraBlocks * x = 2 * (EraBlocks * y)
      BY <1>0, <3>1
    <3>3. RoundedQuotient(x, 2) = y
      BY <3>1, HalfRounds
    <3> HIDE DEF t
    <3> QED
      BY <2>10, <3>2, <3>3 DEF y
  <2> HIDE DEF t, x, s, b
  <2> QED
    BY <1>0, <2>1, <2>5, <2>7, <2>9, <2>10, <2>11
<1>3. e \in G
  <2>1. \A i \in Nat : i \in G => i + 1 \in G
    BY <1>2
  <2> HIDE DEF G
  <2> QED
    BY <1>1, <2>1, NatSetInduction
<1>4. Good(e)
  BY <1>3 DEF n
<1>5. e <= height + 1 /\ g[e].remaining = (height + 1) - e * EraBlocks
  BY <1>4 DEF n
<1>6. g[e].total = Paid(e * EraBlocks) /\ g[e].total <= 2 * EraBlocks * InitialReward
  BY <1>4 DEF limit
<1>7. ASSUME e \in 0..Eras
      PROVE  g[e].reward = Half(e) /\ g[e].total + 2 * (EraBlocks * Half(e)) = 2 * EraBlocks * InitialReward
  BY <1>4, <1>7 DEF limit
<1> QED
  BY <1>5, <1>6, <1>7

\* When there are no blocks left the loop pays no more.
LEMMA LoopEnds ==
  ASSUME NEW n \in Nat, NEW g \in [0..n -> LoopStates], \A i \in 1..n : g[i] = EraPaid(g[i - 1]),
         NEW e \in 0..n, g[e].remaining = 0
  PROVE  g[n] = g[e]
<1> DEFINE G == {d \in Nat : e + d <= n => g[e + d] = g[e]}
<1>1. 0 \in G
  <2>1. e + 0 = e
    OBVIOUS
  <2> QED
    BY <2>1
<1>2. ASSUME NEW d \in Nat, d \in G PROVE d + 1 \in G
  <2> SUFFICES ASSUME e + (d + 1) <= n PROVE g[e + (d + 1)] = g[e]
    OBVIOUS
  <2> DEFINE j == e + (d + 1)
  <2>1. j \in 1..n /\ j - 1 = e + d /\ e + d <= n
    OBVIOUS
  <2>2. g[e + d] = g[e]
    BY <1>2, <2>1
  <2> HIDE DEF j
  <2>3. g[j] = EraPaid(g[e])
    <3>1. g[j] = EraPaid(g[j - 1])
      BY <2>1
    <3> QED
      BY <2>1, <2>2, <3>1
  <2>4. g[j] = g[e]
    BY <2>3, Round
  <2> QED
    BY <2>4 DEF j
<1>3. n - e \in G
  <2>1. n - e \in Nat
    OBVIOUS
  <2> HIDE DEF G
  <2> QED
    BY <1>1, <1>2, <2>1, NatSetInduction
<1>4. e + (n - e) = n /\ n <= n
  OBVIOUS
<1> QED
  BY <1>3, <1>4

LEMMA SupplySums ==
  ASSUME WholeRewards, NEW height \in 0..MaxHeight
  PROVE  CumulativeSupply(height) = RewardsThrough[height]
<1> DEFINE n == height + 1
           q == n \div EraBlocks
           m == n % EraBlocks
           limit == 2 * EraBlocks * InitialReward
<1>0. height \in Nat /\ n \in Nat \ {0} /\ EraBlocks \in Nat \ {0} /\ InitialReward \in Nat /\ MaxHeight \in Nat
      /\ MaxRewards \in Nat /\ n <= MaxHeight + 1 /\ n - 1 = height /\ limit \in Nat
  BY EcoNumbers
<1>1. PICK g \in [0..n -> LoopStates] :
         /\ g[0] = FirstRound(height)
         /\ \A i \in 1..n : g[i] = EraPaid(g[i - 1])
         /\ CumulativeSupply(height) = Min({g[n].total, MaxRewards})
  BY <1>0, Rounds
<1>2. q \in Nat /\ m \in 0..(EraBlocks - 1) /\ n = EraBlocks * q + m
  BY <1>0, Divided
<1> DEFINE b == q * EraBlocks
<1>3. b \in Nat /\ n = b + m /\ b <= n
  <2> HIDE DEF q, m, n
  <2>1. b = EraBlocks * q /\ EraBlocks * q \in Nat
    BY <1>0, <1>2
  <2> DEFINE p == EraBlocks * q
  <2> HIDE DEF p
  <2>2. p \in Nat /\ n = p + m /\ b = p
    BY <1>2, <2>1 DEF p
  <2> QED
    BY <1>0, <1>2, <2>2
<1>4. limit <= MaxRewards
  BY DEF WholeRewards, EraBlocks
<1>5. /\ q <= n /\ g[q].remaining = n - b /\ g[q].total = Paid(b)
      /\ g[q].total <= limit
      /\ q \in 0..Eras => g[q].reward = Half(q) /\ g[q].total + 2 * (EraBlocks * Half(q)) = limit
  <2> HIDE DEF q
  <2> QED
    BY <1>1, <1>2, <1>3, WholeEras
<1> HIDE DEF n, limit
<1>6. g[q] \in LoopStates /\ q \in 0..n
  <2> HIDE DEF q
  <2>1. q \in 0..n
    BY <1>0, <1>2, <1>5
  <2> QED
    BY <1>1, <2>1
<1> HIDE DEF q, m
<1>7. Paid(n) = RewardsThrough[height]
  BY <1>0 DEF Paid
<1>8. g[n].total = Paid(n) /\ Paid(n) \in Int /\ Paid(n) <= limit
  <2>1. CASE m = 0
    <3>1. b = n /\ g[q].remaining = 0
      <4> HIDE DEF b
      <4> QED
        BY <1>0, <1>3, <1>5, <2>1
    <3>2. g[n] = g[q]
      BY <1>0, <1>1, <1>6, <3>1, LoopEnds
    <3>3. g[q].total \in Int
      BY <1>6 DEF LoopStates
    <3> QED
      BY <1>5, <3>1, <3>2, <3>3
  <2>2. CASE m # 0
    <3> DEFINE x == Half(q)
               s == g[q]
    <3>1. q \in 0..Eras
      <4>1. 0 \in 0..(EraBlocks - 1) /\ b + 0 <= MaxHeight
        <5> HIDE DEF b
        <5> QED
          BY <1>0, <1>2, <1>3, <2>2
      <4> QED
        BY <1>2, <4>1, EraOf
    <3>2. x \in Nat \ {0} /\ s.reward = x /\ s.total + 2 * (EraBlocks * x) = limit /\ s.remaining = n - b
          /\ s.total = Paid(b) /\ s.total \in Nat
      BY <1>5, <1>6, <3>1, Halves DEF LoopStates
    <3>3. s.remaining = m
      <4> HIDE DEF b, s
      <4> QED
        BY <1>0, <1>2, <1>3, <3>2
    <3>4. q + 1 \in 1..n /\ (q + 1) - 1 = q
      <4>1. q * EraBlocks >= q * 1 /\ q * 1 = q
        BY <1>0, <1>2
      <4>2. b >= q
        BY <4>1
      <4> HIDE DEF b
      <4> QED
        BY <1>0, <1>2, <1>3, <2>2, <4>2
    <3>5. g[q + 1] = EraPaid(s)
      <4>1. \A i \in 1..n : g[i] = EraPaid(g[i - 1])
        BY <1>1
      <4> DEFINE j == q + 1
      <4>2. j \in 1..n /\ j - 1 = q
        BY <3>4
      <4> HIDE DEF j
      <4>3. g[j] = EraPaid(g[j - 1])
        BY <4>1, <4>2
      <4>4. g[j] = EraPaid(s)
        BY <4>2, <4>3
      <4> QED
        BY <4>4 DEF j
    <3>6. g[q + 1].total = Paid(b) + m * x /\ g[q + 1].remaining = 0
      <4> HIDE DEF b, s, x
      <4>1. s \in LoopStates /\ s.remaining # 0 /\ s.reward # 0 /\ s.remaining < EraBlocks
        BY <1>0, <1>2, <1>6, <2>2, <3>2, <3>3 DEF s
      <4>2. EraPaid(s) = [total |-> s.total + m * s.reward, reward |-> RoundedQuotient(s.reward, 2),
                          remaining |-> s.remaining - m]
        BY <3>3, <4>1, Round
      <4>3. s.remaining - m = 0
        BY <1>2, <3>3
      <4> QED
        BY <3>2, <3>5, <4>2, <4>3
    <3>7. Paid(b + m) = Paid(b) + m * x
      <4>1. m \in 0..EraBlocks /\ b + m <= MaxHeight + 1
        <5> HIDE DEF b
        <5> QED
          BY <1>0, <1>2, <1>3
      <4> QED
        BY <3>1, <4>1, EraPays
    <3>8. g[n] = g[q + 1]
      <4>1. q + 1 \in 0..n
        BY <1>0, <3>4
      <4> QED
        BY <1>0, <1>1, <3>6, <4>1, LoopEnds
    <3>9. Paid(n) = Paid(b) + m * x
      BY <1>3, <3>7
    <3>10. m * x \in Nat /\ m * x <= 2 * (EraBlocks * x)
      <4> HIDE DEF x
      <4>1. m * x <= EraBlocks * x /\ m * x \in Nat /\ EraBlocks * x \in Nat
        BY <1>0, <1>2, <3>2
      <4> DEFINE u == m * x
                 v == EraBlocks * x
      <4> HIDE DEF u, v
      <4>2. u \in Nat /\ v \in Nat /\ u <= v
        BY <4>1 DEF u, v
      <4>3. u <= 2 * v
        BY <4>2
      <4> QED
        BY <4>2, <4>3 DEF u, v
    <3>11. Paid(n) \in Int /\ Paid(n) <= limit
      <4> DEFINE u == m * x
                 v == 2 * (EraBlocks * x)
                 t == s.total
      <4>1. u \in Nat /\ u <= v /\ t \in Nat /\ t + v = limit /\ Paid(n) = t + u /\ v \in Int
        BY <1>0, <3>2, <3>9, <3>10
      <4> HIDE DEF u, v, t
      <4> QED
        BY <1>0, <4>1
    <3> QED
      BY <3>6, <3>8, <3>9, <3>11
  <2> QED
    BY <2>1, <2>2
<1>9. Min({g[n].total, MaxRewards}) = Paid(n)
  <2> DEFINE p == Paid(n)
  <2>1. g[n].total = p /\ p \in Int /\ p <= MaxRewards /\ MaxRewards \in Int
    <3> HIDE DEF p
    <3>1. p \in Int /\ p <= limit /\ g[n].total = p
      BY <1>8 DEF p
    <3> QED
      BY <1>0, <1>4, <3>1
  <2> HIDE DEF p
  <2>2. Min({p, MaxRewards}) \in {p, MaxRewards} /\ Min({p, MaxRewards}) <= p
    BY <2>1, MinMaxTwo
  <2>3. Min({p, MaxRewards}) = p
    BY <2>1, <2>2
  <2> QED
    BY <2>1, <2>3 DEF p
<1> QED
  BY <1>1, <1>7, <1>9

EcoBlock == [time : Int, difficulty : MinDifficulty..MaxDifficulty]
EcoInv ==
    /\ ecoChain \in Seq(EcoBlock) /\ Len(ecoChain) > 0 /\ Len(ecoChain) <= MaxHeight + 1
    /\ ValidateDifficulties(ecoChain)

LEMMA EcoStep == EcoInv /\ [EcoNext]_ecoVars => EcoInv'
<1> SUFFICES ASSUME EcoInv, NEW dt \in BlockTimes, MineBlock(dt) PROVE EcoInv'
  BY DEF EcoNext, ecoVars, EcoInv, ValidateDifficulties, BlockAtHeight
<1> DEFINE c == ecoChain
           n == Len(c)
           d == ComputeNextDifficulty(c)
           b == [time |-> Last(c).time + dt, difficulty |-> d]
           e == ecoChain'
<1>1. /\ c \in Seq(EcoBlock) /\ n \in Nat \ {0} /\ DOMAIN c = 1..n
      /\ \A i \in 1..n : c[i].time \in Int /\ c[i].difficulty \in MinDifficulty..MaxDifficulty
  <2>1. c \in Seq(EcoBlock) /\ n \in Nat \ {0} /\ DOMAIN c = 1..n
    BY DEF EcoInv
  <2>2. \A i \in 1..n : c[i] \in EcoBlock
    BY <2>1
  <2> QED
    BY <2>1, <2>2 DEF EcoBlock
<1>2. e = Append(c, b)
  BY DEF MineBlock
<1>3. Last(c) = c[n]
  BY <1>1 DEF Last
<1>4. d \in MinDifficulty..MaxDifficulty
  <2>1. CASE n % Interval # 0
    <3>1. d = c[n].difficulty
      BY <1>3, <2>1 DEF ComputeNextDifficulty
    <3> QED
      BY <1>1, <3>1
  <2>2. CASE n % Interval = 0
    <3>1. n >= Interval /\ Interval \in Nat \ {0}
      BY <1>1, <2>2, WindowFits, EconomicsAssumption
    <3>2. d = CalculateNextDifficulty(c[n].difficulty, c[n - Interval + 1].time, c[n].time)
      BY <1>3, <2>2 DEF ComputeNextDifficulty, BlockAtHeight
    <3>3. n - Interval + 1 \in 1..n /\ n \in 1..n
      BY <1>1, <3>1
    <3>4. c[n].difficulty \in Int /\ c[n - Interval + 1].time \in Int /\ c[n].time \in Int
      BY <1>1, <3>3, EconomicsAssumption
    <3> QED
      BY <3>2, <3>4, NextInRange
  <2> QED
    BY <2>1, <2>2
<1>5. b \in EcoBlock
  <2> HIDE DEF d
  <2>1. Last(c).time + dt \in Int
    BY <1>1, <1>3, EconomicsAssumption
  <2> QED
    BY <1>4, <2>1 DEF EcoBlock
<1> HIDE DEF b
<1>6. /\ e \in Seq(EcoBlock) /\ Len(e) = n + 1 /\ e[n + 1] = b
      /\ \A i \in 1..n : e[i] = c[i]
  BY <1>1, <1>2, <1>5
<1> HIDE DEF e
<1>7. ValidateDifficulties(e)
  <2> SUFFICES ASSUME NEW i \in 1..n
               PROVE  e[i + 1].difficulty =
                          IF i % Interval = 0
                          THEN CalculateNextDifficulty(e[i].difficulty, e[i - Interval + 1].time, e[i].time)
                          ELSE e[i].difficulty
    <3>1. 1..Len(e) - 1 = 1..n
      BY <1>1, <1>6
    <3>2. \A i \in 1..n : i - 1 + 1 = i
      BY <1>1
    <3> QED
      BY <3>1, <3>2 DEF ValidateDifficulties, BlockAtHeight
  <2>1. e[i] = c[i] /\ i \in Nat \ {0}
    BY <1>1, <1>6
  <2>2. i % Interval = 0 => e[i - Interval + 1] = c[i - Interval + 1]
    <3> SUFFICES ASSUME i % Interval = 0 PROVE e[i - Interval + 1] = c[i - Interval + 1]
      OBVIOUS
    <3>1. i >= Interval /\ Interval \in Nat \ {0}
      BY <2>1, WindowFits, EconomicsAssumption
    <3>2. i - Interval + 1 \in 1..n
      BY <1>1, <3>1
    <3> QED
      BY <1>6, <3>2
  <2>3. CASE i = n
    <3>1. e[i + 1].difficulty = d
      BY <1>6, <2>3 DEF b
    <3> QED
      BY <1>3, <2>1, <2>2, <2>3, <3>1 DEF ComputeNextDifficulty, BlockAtHeight
  <2>4. CASE i # n
    <3>1. i \in 1..Len(c) - 1 /\ i + 1 \in 1..n /\ i - 1 + 1 = i
      <4>1. n \in Nat /\ i \in 1..n /\ i # n /\ Len(c) = n
        BY <1>1, <2>4
      <4> HIDE DEF n
      <4> QED
        BY ONLY <4>1
    <3>2. c[i + 1].difficulty =
              IF i % Interval = 0
              THEN CalculateNextDifficulty(c[i].difficulty, c[i - Interval + 1].time, c[i].time)
              ELSE c[i].difficulty
      BY <3>1 DEF EcoInv, ValidateDifficulties, BlockAtHeight
    <3>3. e[i + 1] = c[i + 1]
      BY <1>6, <3>1
    <3> QED
      BY <2>1, <2>2, <3>2, <3>3
  <2> QED
    BY <2>3, <2>4
<1>8. Len(e) > 0 /\ Len(e) <= MaxHeight + 1
  <2>1. n <= MaxHeight
    BY DEF MineBlock
  <2>2. Len(e) = n + 1 /\ n \in Nat /\ MaxHeight \in Nat
    BY <1>1, <1>6, EconomicsAssumption
  <2> HIDE DEF n
  <2> QED
    BY <2>1, <2>2
<1> QED
  BY <1>6, <1>7, <1>8 DEF EcoInv, e

LEMMA EcoStart == EcoInit => EcoInv
<1> SUFFICES ASSUME EcoInit PROVE EcoInv
  OBVIOUS
<1> DEFINE b == [time |-> 0, difficulty |-> MinDifficulty]
<1>1. b \in EcoBlock
  BY EconomicsAssumption DEF EcoBlock
<1>2. ecoChain = <<b>>
  BY DEF EcoInit
<1> HIDE DEF b
<1>3. ecoChain \in Seq(EcoBlock) /\ Len(ecoChain) = 1
  BY <1>1, <1>2
<1>4. 1..Len(ecoChain) - 1 = {}
  BY <1>3
<1>5. 1 <= MaxHeight + 1
  BY EconomicsAssumption
<1> QED
  BY <1>3, <1>4, <1>5 DEF EcoInv, ValidateDifficulties

LEMMA EcoDifficulties == EcoInv => EcoTypeOK /\ MinedChainValidates
<1> SUFFICES ASSUME EcoInv PROVE EcoTypeOK /\ MinedChainValidates
  OBVIOUS
<1>1. \A i \in DOMAIN ecoChain : ecoChain[i] \in EcoBlock
  BY DEF EcoInv
<1> QED
  BY <1>1 DEF EcoInv, EcoBlock, EcoTypeOK, MinedChainValidates

\* The difficulty stays within its bounds, and a chain that was mined block by block passes
\* the validation of the whole, for all intervals, targets, clamps and timestamps.
THEOREM DifficultiesValidate == EcoSpec => [](EcoTypeOK /\ MinedChainValidates)
  BY EcoStart, EcoDifficulties, EcoStep, PTL DEF EcoSpec

\* The whole schedule means the same to everyone who computes it: the retargeting as above,
\* and the loop by which cumulative_supply counts era by era gives the sum of the rewards of
\* the blocks, at every height of every chain whose eras have whole rewards.
THEOREM RewardsAndDifficulties ==
  ASSUME WholeRewards
  PROVE  EcoSpec => []ScheduleConsistent
<1>1. EcoInv => SupplyIsSumOfRewards
  <2> SUFFICES ASSUME EcoInv PROVE SupplyIsSumOfRewards
    OBVIOUS
  <2> DEFINE height == Len(ecoChain) - 1
  <2>1. height \in 0..MaxHeight
    <3>1. Len(ecoChain) \in Nat /\ Len(ecoChain) > 0 /\ Len(ecoChain) <= MaxHeight + 1 /\ MaxHeight \in Nat
      BY EconomicsAssumption DEF EcoInv
    <3> QED
      BY <3>1
  <2> HIDE DEF height
  <2>2. CumulativeSupply(height) = RewardsThrough[height]
    BY <2>1, SupplySums
  <2> QED
    BY <2>2 DEF SupplyIsSumOfRewards, height
<1>2. EcoInv => ScheduleConsistent
  BY <1>1, EcoDifficulties DEF ScheduleConsistent
<1> QED
  BY <1>2, EcoStart, EcoStep, PTL DEF EcoSpec
=============================================================================
