--------------------------- MODULE XORCache_proofs ---------------------------
(***************************************************************************)
(* Proofs about XORCache for every set of workers and keys, every position *)
(* table and every size of the filter.                                     *)
(***************************************************************************)
EXTENDS XORCache, FiniteSetTheorems, TLAPS

\* The current position of a worker is a bit of the filter, owned by its key.
LEMMA CurBitIn ==
  ASSUME TypeOK, NEW w \in Workers
  PROVE  /\ CurBit(w) \in Bits
         /\ CurBit(w) \in PosSet(key[w])
         /\ key[w] \in Keys
         /\ idx[w] \in 1 .. Len(Pos[key[w]])
         /\ Pos[key[w]] \in Seq(Bits)
<1>1. key[w] \in Keys /\ idx[w] \in Nat \ {0} /\ idx[w] <= Len(Pos[key[w]])
  BY DEF TypeOK
<1>2. Pos[key[w]] \in Seq(Bits)
  BY <1>1, ConstantsAssumption
<1>3. idx[w] \in 1 .. Len(Pos[key[w]])
  BY <1>1, <1>2
<1>4. Pos[key[w]][idx[w]] \in Bits
  BY <1>2, <1>3
<1> QED BY <1>1, <1>2, <1>3, <1>4 DEF CurBit, PosSet

\* Every variable keeps its type (all of xor_cache.py's calls).
THEOREM TypeInvariant == Spec => []TypeOK
<1>1. Init => TypeOK
  BY ConstantsAssumption DEF Init, TypeOK, Covered, PosSet, Bits
<1>2. TypeOK /\ [Next]_vars => TypeOK'
  <2> SUFFICES ASSUME TypeOK, [Next]_vars PROVE TypeOK'
    OBVIOUS
  <2>1. CASE UNCHANGED vars
    BY <2>1 DEF vars, TypeOK
  <2>2. ASSUME NEW w \in Workers, Attach(w) PROVE TypeOK'
    BY <2>2 DEF Attach, TypeOK
  <2>3. ASSUME NEW w \in Workers, Close(w) PROVE TypeOK'
    BY <2>3 DEF Close, TypeOK
  <2>4. ASSUME NEW w \in Workers, NEW k \in Keys, CheckAndAdd(w, k) PROVE TypeOK'
    <3>1. Len(Pos[k]) \in Nat /\ 1 <= Len(Pos[k])
      BY ConstantsAssumption
    <3> QED BY <2>4, <3>1 DEF CheckAndAdd, TypeOK
  <2>5. ASSUME NEW w \in Workers, NEW k \in Keys, CheckUninitialized(w, k) PROVE TypeOK'
    BY <2>5 DEF CheckUninitialized, TypeOK
  <2>6. ASSUME NEW w \in Workers, TestSet(w) PROVE TypeOK'
    BY <2>6, CurBitIn DEF TestSet, TypeOK, LastIdx
  <2>7. ASSUME NEW w \in Workers, Reject(w) PROVE TypeOK'
    BY <2>7 DEF Reject, TypeOK
  <2>8. ASSUME NEW w \in Workers, TestClear(w) PROVE TypeOK'
    BY <2>8, CurBitIn DEF TestClear, TypeOK
  <2>9. ASSUME NEW w \in Workers, ReadByte(w) PROVE TypeOK'
    BY <2>9 DEF ReadByte, TypeOK
  <2>10. ASSUME NEW w \in Workers, WriteByte(w) PROVE TypeOK'
    BY <2>10, CurBitIn DEF WriteByte, StoreByte, TypeOK, LastIdx
  <2>11. ASSUME NEW w \in Workers, AcceptKey(w) PROVE TypeOK'
    BY <2>11, CurBitIn DEF AcceptKey, StoreByte, TypeOK
  <2>12. ASSUME NEW w \in Workers, Die(w) PROVE TypeOK'
    BY <2>12 DEF Die, TypeOK
  <2> QED BY <2>1, <2>2, <2>3, <2>4, <2>5, <2>6, <2>7, <2>8, <2>9, <2>10, <2>11, <2>12 DEF Next
<1> QED BY <1>1, <1>2, PTL DEF Spec

-----------------------------------------------------------------------------
\* A key whose registration has begun stays one: registering it or losing its
\* worker half-way does not forget it (check_and_add, _set_bits).
LEMMA BegunGrows ==
  ASSUME TypeOK, [Next]_vars
  PROVE  Begun \subseteq Begun'
<1>1. CASE UNCHANGED vars
  BY <1>1 DEF vars, Begun, Setting
<1>2. ASSUME NEW w \in Workers, Attach(w) PROVE Begun \subseteq Begun'
  BY <1>2 DEF Attach, Begun, Setting
<1>3. ASSUME NEW w \in Workers, Close(w) PROVE Begun \subseteq Begun'
  BY <1>3 DEF Close, Begun, Setting
<1>4. ASSUME NEW w \in Workers, NEW k \in Keys, CheckAndAdd(w, k) PROVE Begun \subseteq Begun'
  BY <1>4 DEF CheckAndAdd, Begun, Setting, TypeOK
<1>5. ASSUME NEW w \in Workers, NEW k \in Keys, CheckUninitialized(w, k)
      PROVE  Begun \subseteq Begun'
  BY <1>5 DEF CheckUninitialized, Begun, Setting
<1>6. ASSUME NEW w \in Workers, TestSet(w) PROVE Begun \subseteq Begun'
  BY <1>6 DEF TestSet, Begun, Setting
<1>7. ASSUME NEW w \in Workers, Reject(w) PROVE Begun \subseteq Begun'
  BY <1>7 DEF Reject, Begun, Setting, TypeOK
<1>8. ASSUME NEW w \in Workers, TestClear(w) PROVE Begun \subseteq Begun'
  BY <1>8 DEF TestClear, Begun, Setting, TypeOK
<1>9. ASSUME NEW w \in Workers, ReadByte(w) PROVE Begun \subseteq Begun'
  BY <1>9 DEF ReadByte, Begun, Setting, TypeOK
<1>10. ASSUME NEW w \in Workers, WriteByte(w) PROVE Begun \subseteq Begun'
  BY <1>10 DEF WriteByte, Begun, Setting, TypeOK
<1>11. ASSUME NEW w \in Workers, AcceptKey(w) PROVE Begun \subseteq Begun'
  BY <1>11 DEF AcceptKey, Begun, Setting, TypeOK
<1>12. ASSUME NEW w \in Workers, Die(w) PROVE Begun \subseteq Begun'
  BY <1>12 DEF Die, Begun, Setting, TypeOK
<1> QED BY <1>1, <1>2, <1>3, <1>4, <1>5, <1>6, <1>7, <1>8, <1>9, <1>10, <1>11, <1>12 DEF Next

\* A position being written belongs to a key whose registration has begun.
LEMMA WrittenBitBegun ==
  ASSUME TypeOK, NEW w \in Workers, Setting(w)
  PROVE  CurBit(w) \in Covered(Begun)
BY CurBitIn DEF Begun, Covered

\* No interleaving, crash or reload invents a bit: the inductive invariant.
LEMMA PhantomStep ==
  ASSUME PhantomInv, [Next]_vars, TypeOK'
  PROVE  PhantomInv'
<1> DEFINE C == Covered(Begun)
<1>0. TypeOK /\ NoPhantomBits /\ ReadsCovered
  BY DEF PhantomInv
<1>1. C \subseteq C'
  BY <1>0, BegunGrows DEF Covered, PosSet
<1>2. NoPhantomBits'
  <2>1. ASSUME NEW w \in Workers, StoreByte(w), pc[w] = "write" PROVE NoPhantomBits'
    <3>1. CurBit(w) \in C
      BY <2>1, <1>0, WrittenBitBegun DEF Setting
    <3> QED BY <2>1, <1>0, <1>1, <3>1 DEF StoreByte, NoPhantomBits, ReadsCovered
  <2>2. CASE buffer' = buffer
    BY <2>2, <1>0, <1>1 DEF NoPhantomBits
  <2> QED BY <2>1, <2>2 DEF Next, vars, Attach, Close, CheckAndAdd, CheckUninitialized,
             TestSet, Reject, TestClear, ReadByte, WriteByte, AcceptKey, Die
<1>3. ReadsCovered'
  <2> SUFFICES ASSUME NEW v \in Workers
               PROVE  /\ (pc[v] = "write" => reg[v] \subseteq C)'
                      /\ (pc[v] = "test" =>
                            \A i \in 1 .. idx[v] - 1 : Pos[key[v]][i] \in C)'
    BY DEF ReadsCovered
  <2> DEFINE Same == pc'[v] = pc[v] /\ reg'[v] = reg[v] /\ key'[v] = key[v] /\ idx'[v] = idx[v]
  <2>1. CASE Same
    BY <2>1, <1>0, <1>1 DEF ReadsCovered
  <2>2. CASE pc'[v] \notin {"test", "write"}
    BY <2>2
  <2>4. CASE pc'[v] = "test" /\ idx'[v] = 1
    BY <2>4
  <2>5. CASE TestSet(v)
    <3>1. CurBit(v) \in C
      BY <2>5, <1>0 DEF TestSet, NoPhantomBits
    <3>2. pc[v] = "test" /\ pc'[v] = "test" /\ key'[v] = key[v] /\ idx'[v] = idx[v] + 1
      BY <2>5, <1>0 DEF TestSet, TypeOK
    <3>3. ASSUME NEW i \in 1 .. idx'[v] - 1 PROVE Pos[key[v]][i] \in C
      BY <3>1, <3>2, <1>0 DEF ReadsCovered, CurBit, TypeOK
    <3> QED BY <3>2, <3>3, <1>1
  <2>6. CASE ReadByte(v)
    <3>1. pc'[v] = "write" /\ reg'[v] \subseteq buffer
      BY <2>6, <1>0 DEF ReadByte, TypeOK
    <3> QED BY <3>1, <1>0, <1>1 DEF NoPhantomBits
  <2> DEFINE Fine == \/ Same
                     \/ pc'[v] \notin {"test", "write"}
                     \/ TestSet(v) \/ ReadByte(v)
                     \/ pc'[v] = "test" /\ idx'[v] = 1
  <2>7. Fine
    <3>1. CASE UNCHANGED vars
      BY <3>1 DEF vars
    <3>2. ASSUME NEW w \in Workers, Attach(w) \/ Close(w) PROVE Fine
      BY <3>2 DEF Attach, Close
    <3>3. ASSUME NEW w \in Workers, NEW k \in Keys, CheckAndAdd(w, k) PROVE Fine
      BY <3>3, <1>0 DEF CheckAndAdd, TypeOK
    <3>4. ASSUME NEW w \in Workers, NEW k \in Keys, CheckUninitialized(w, k) PROVE Fine
      BY <3>4 DEF CheckUninitialized
    <3>5. ASSUME NEW w \in Workers, TestSet(w) \/ ReadByte(w) PROVE Fine
      BY <3>5, <1>0 DEF TestSet, ReadByte, TypeOK
    <3>6. ASSUME NEW w \in Workers, Reject(w) \/ TestClear(w) PROVE Fine
      BY <3>6, <1>0 DEF Reject, TestClear, TypeOK
    <3>7. ASSUME NEW w \in Workers, WriteByte(w) \/ AcceptKey(w) PROVE Fine
      BY <3>7, <1>0 DEF WriteByte, AcceptKey, TypeOK
    <3>8. ASSUME NEW w \in Workers, Die(w) PROVE Fine
      BY <3>8, <1>0 DEF Die, TypeOK
    <3> QED BY <3>1, <3>2, <3>3, <3>4, <3>5, <3>6, <3>7, <3>8 DEF Next
  <2> QED BY <2>1, <2>2, <2>4, <2>5, <2>6, <2>7
<1> QED BY <1>2, <1>3 DEF PhantomInv

\* Spec keeps the invariant.
THEOREM PhantomInvariant == Spec => []PhantomInv
<1>1. Init => NoPhantomBits /\ ReadsCovered
  BY DEF Init, NoPhantomBits, ReadsCovered, Begun, Setting, Covered
<1>2. Init /\ TypeOK => PhantomInv
  BY <1>1 DEF PhantomInv
<1>3. PhantomInv /\ [Next]_vars /\ TypeOK' => PhantomInv'
  BY PhantomStep
<1> QED BY <1>2, <1>3, TypeInvariant, PTL DEF Spec

\* A False answer of check_and_add is always covered by registered keys: for
\* every number of workers and every interleaving of their byte accesses.
THEOREM RejectsAreCovered == Spec => RejectsCovered
<1> DEFINE Good(w) == Reject(w) => PosSet(key[w]) \subseteq Covered(Begun)
<1>1. PhantomInv => \A w \in Workers : Good(w)
  <2> SUFFICES ASSUME PhantomInv, NEW w \in Workers, Reject(w)
               PROVE  PosSet(key[w]) \subseteq Covered(Begun)
    OBVIOUS
  <2>1. TypeOK /\ NoPhantomBits /\ ReadsCovered
    BY DEF PhantomInv
  <2>2. idx[w] = Len(Pos[key[w]]) /\ CurBit(w) \in Covered(Begun) /\ pc[w] = "test"
    BY <2>1 DEF Reject, LastIdx, NoPhantomBits
  <2>3. idx[w] \in Nat /\ idx[w] >= 1
    BY <2>1 DEF TypeOK
  <2>4. ASSUME NEW i \in 1 .. Len(Pos[key[w]]) PROVE Pos[key[w]][i] \in Covered(Begun)
    <3>1. CASE i = idx[w]
      BY <3>1, <2>2 DEF CurBit
    <3>2. CASE i # idx[w]
      BY <3>2, <2>1, <2>2, <2>3 DEF ReadsCovered
    <3> QED BY <3>1, <3>2
  <2> QED BY <2>4 DEF PosSet
<1>2. PhantomInv /\ [Next]_vars => [\A w \in Workers : Good(w)]_vars
  BY <1>1
<1> QED BY <1>2, PhantomInvariant, PTL DEF Spec, RejectsCovered

-----------------------------------------------------------------------------
\* Writing a byte back loses no safe bit as long as the byte that was read is not stale.
LEMMA StoreKeeps ==
  ASSUME TypeOK, Retained, NEW w \in Workers, pc[w] = "write", StoreByte(w)
  PROVE  /\ buffer \cap SafeBits \subseteq buffer'
         /\ CurBit(w) \in buffer'
<1>1. buffer \cap SameByte(CurBit(w)) \cap SafeBits \subseteq reg[w] \cup {CurBit(w)}
  BY DEF Retained
<1> QED BY <1>1 DEF StoreByte

\* No step loses a safe bit (_set_bits).
LEMMA BufferGrows ==
  ASSUME TypeOK, Retained, [Next]_vars
  PROVE  buffer \cap SafeBits \subseteq buffer'
<1>1. ASSUME NEW w \in Workers, WriteByte(w) \/ AcceptKey(w)
      PROVE  buffer \cap SafeBits \subseteq buffer'
  BY <1>1, StoreKeeps DEF WriteByte, AcceptKey
<1> QED BY <1>1 DEF Next, vars, Attach, Close, CheckAndAdd, CheckUninitialized,
           TestSet, Reject, TestClear, ReadByte, Die

\* The safe positions of settled keys stay in the filter.
LEMMA SettledStep ==
  ASSUME PhantomInv, Retained, [Next]_vars
  PROVE  \A k \in settled' : PosSet(k) \cap SafeBits \subseteq buffer'
<1>0. TypeOK /\ buffer \cap SafeBits \subseteq buffer'
  BY BufferGrows DEF PhantomInv
<1>1. \A k \in settled : PosSet(k) \cap SafeBits \subseteq buffer'
  BY <1>0 DEF Retained
<1>2. ASSUME NEW w \in Workers, AcceptKey(w) PROVE PosSet(key[w]) \cap SafeBits \subseteq buffer'
  <2>1. pc[w] = "write" /\ StoreByte(w) /\ idx[w] = Len(Pos[key[w]])
    BY <1>2 DEF AcceptKey, LastIdx
  <2>2. CurBit(w) \in buffer'
    BY <2>1, <1>0, StoreKeeps
  <2>3. idx[w] \in Nat /\ idx[w] >= 1
    BY <1>0 DEF TypeOK
  <2>4. ASSUME NEW i \in 1 .. Len(Pos[key[w]]), Pos[key[w]][i] \in SafeBits
        PROVE  Pos[key[w]][i] \in buffer'
    <3>1. CASE i = idx[w]
      BY <3>1, <2>2 DEF CurBit
    <3>2. CASE i # idx[w]
      BY <3>2, <2>1, <2>3, <2>4, <1>0 DEF Retained
    <3> QED BY <3>1, <3>2
  <2> QED BY <2>4 DEF PosSet
<1>3. ASSUME NEW w \in Workers, AcceptKey(w)
      PROVE  \A k \in settled' : PosSet(k) \cap SafeBits \subseteq buffer'
  BY <1>1, <1>2, <1>3 DEF AcceptKey
<1>4. CASE settled' = settled
  BY <1>1, <1>4
<1> QED BY <1>3, <1>4 DEF Next, vars, Attach, Close, CheckAndAdd, CheckUninitialized,
           TestSet, Reject, TestClear, ReadByte, WriteByte, Die

\* The safe bits are the same in every state.
LEMMA SafeBitsFixed ==
  /\ UsedBits' = UsedBits
  /\ SafeBits' = SafeBits
  /\ \A k \in Keys : SafeKey(k)' = SafeKey(k)
<1>1. UsedBits' = UsedBits
  BY DEF UsedBits, Covered, PosSet
<1> QED BY <1>1 DEF SafeBits, SafeKey, PosSet, ByteOf

\* The conjunct of Retained about one worker.
RetainedBy(v) ==
  /\ pc[v] \in {"read", "write"} =>
       \A i \in 1 .. idx[v] - 1 : Pos[key[v]][i] \in SafeBits => Pos[key[v]][i] \in buffer
  /\ pc[v] = "write" =>
       buffer \cap SameByte(CurBit(v)) \cap SafeBits \subseteq reg[v] \cup {CurBit(v)}
  /\ before[v] \subseteq settled
  /\ pc[v] \in {"read", "write"} /\ SafeKey(key[v]) => key[v] \notin before[v]

\* A step of w keeps what v relies on when v itself does not move: if another worker
\* can move at all, a safe bit is the only bit in use in its byte.
LEMMA OthersRetained ==
  ASSUME PhantomInv, PhantomInv', Retained, [Next]_vars, NEW v \in Workers,
         pc'[v] = pc[v], key'[v] = key[v], idx'[v] = idx[v], reg'[v] = reg[v],
         before'[v] = before[v],
         NEW w \in Workers, w # v \/ buffer' = buffer
  PROVE  RetainedBy(v)'
<1>0. TypeOK /\ TypeOK' /\ buffer \cap SafeBits \subseteq buffer'
  BY BufferGrows DEF PhantomInv
<1>1. CurBit(v)' = CurBit(v)
  BY DEF CurBit
<1>2. settled \subseteq settled'
  BY DEF Next, vars, Attach, Close, CheckAndAdd, CheckUninitialized, TestSet, Reject,
     TestClear, ReadByte, WriteByte, AcceptKey, Die
<1>3. ASSUME pc[v] = "write"
      PROVE  buffer' \cap SameByte(CurBit(v)) \cap SafeBits \subseteq reg[v] \cup {CurBit(v)}
  <2>1. CASE buffer' = buffer
    BY <1>3, <2>1 DEF Retained
  <2>2. CASE w # v
    <3>1. \A p \in SafeBits : \A q \in UsedBits : ByteOf(p) = ByteOf(q) => p = q
      BY <2>2 DEF SafeBits
    <3>2. CurBit(v) \in UsedBits
      BY <1>0, CurBitIn DEF UsedBits, Covered
    <3> QED BY <3>1, <3>2 DEF SameByte
  <2> QED BY <2>1, <2>2
<1>4. key[v] \in Keys
  BY <1>0 DEF TypeOK
<1> QED BY <1>0, <1>1, <1>2, <1>3, <1>4, SafeBitsFixed DEF Retained, RetainedBy, SameByte

\* Every step keeps the safe bits of the registered keys in the filter.
LEMMA RetainedStep ==
  ASSUME PhantomInv, PhantomInv', Retained, [Next]_vars
  PROVE  Retained'
<1>0. TypeOK /\ TypeOK' /\ buffer \cap SafeBits \subseteq buffer'
  BY BufferGrows DEF PhantomInv
<1>1. \A k \in settled' : PosSet(k) \cap SafeBits' \subseteq buffer'
  BY SettledStep, SafeBitsFixed
<1>2. ASSUME NEW v \in Workers PROVE RetainedBy(v)'
  <2>0. RetainedBy(v)
    BY DEF Retained, RetainedBy
  <2> DEFINE Still == /\ pc'[v] = pc[v] /\ key'[v] = key[v] /\ idx'[v] = idx[v]
                      /\ reg'[v] = reg[v] /\ before'[v] = before[v]
  <2>1. ASSUME NEW w \in Workers, Still, w # v \/ buffer' = buffer PROVE RetainedBy(v)'
    BY <2>1, OthersRetained
  <2>2. CASE UNCHANGED vars
    BY <2>1, <2>2 DEF vars
  <2>3. ASSUME NEW w \in Workers, Attach(w) \/ Close(w) PROVE RetainedBy(v)'
    BY <2>1, <2>3 DEF Attach, Close
  <2>4. ASSUME NEW w \in Workers, NEW k \in Keys, CheckAndAdd(w, k) PROVE RetainedBy(v)'
    <3>1. CASE w = v
      BY <3>1, <2>4, <1>0 DEF CheckAndAdd, RetainedBy, TypeOK
    <3>2. CASE w # v
      BY <3>2, <2>1, <2>4, <1>0 DEF CheckAndAdd, TypeOK
    <3> QED BY <3>1, <3>2
  <2>5. ASSUME NEW w \in Workers, NEW k \in Keys, CheckUninitialized(w, k)
        PROVE  RetainedBy(v)'
    BY <2>1, <2>5 DEF CheckUninitialized
  <2>6. ASSUME NEW w \in Workers, TestSet(w) \/ Reject(w) \/ Die(w) PROVE RetainedBy(v)'
    <3>1. CASE w = v
      BY <3>1, <2>6, <2>0, <1>0 DEF TestSet, Reject, Die, RetainedBy, TypeOK
    <3>2. CASE w # v
      BY <3>2, <2>1, <2>6, <1>0 DEF TestSet, Reject, Die, TypeOK
    <3> QED BY <3>1, <3>2
  <2>7. ASSUME NEW w \in Workers, TestClear(w) PROVE RetainedBy(v)'
    <3>1. CASE w = v
      <4>1. SafeKey(key[v]) => key[v] \notin settled
        BY <3>1, <2>7, <1>0, CurBitIn DEF TestClear, Retained, SafeKey
      <4> QED BY <4>1, <3>1, <2>7, <2>0, <1>0 DEF TestClear, RetainedBy, TypeOK
    <3>2. CASE w # v
      BY <3>2, <2>1, <2>7, <1>0 DEF TestClear, TypeOK
    <3> QED BY <3>1, <3>2
  <2>8. ASSUME NEW w \in Workers, ReadByte(w) PROVE RetainedBy(v)'
    <3>1. CASE w = v
      BY <3>1, <2>8, <2>0, <1>0 DEF ReadByte, RetainedBy, TypeOK, CurBit, SameByte
    <3>2. CASE w # v
      BY <3>2, <2>1, <2>8, <1>0 DEF ReadByte, TypeOK
    <3> QED BY <3>1, <3>2
  <2>9. ASSUME NEW w \in Workers, WriteByte(w) PROVE RetainedBy(v)'
    <3>1. CASE w = v
      <4>1. CurBit(v) \in buffer'
        BY <3>1, <2>9, <1>0, StoreKeeps DEF WriteByte
      <4>2. pc'[v] = "read" /\ key'[v] = key[v] /\ idx'[v] = idx[v] + 1 /\ idx[v] \in Nat
            /\ pc[v] = "write" /\ before' = before /\ settled' = settled
        BY <3>1, <2>9, <1>0 DEF WriteByte, TypeOK
      <4>3. ASSUME NEW i \in 1 .. idx'[v] - 1, Pos[key'[v]][i] \in SafeBits
            PROVE  Pos[key'[v]][i] \in buffer'
        BY <4>1, <4>2, <4>3, <2>0, <1>0 DEF RetainedBy, CurBit
      <4> QED BY <4>2, <4>3, <2>0 DEF RetainedBy
    <3>2. CASE w # v
      BY <3>2, <2>1, <2>9, <1>0 DEF WriteByte, TypeOK
    <3> QED BY <3>1, <3>2
  <2>10. ASSUME NEW w \in Workers, AcceptKey(w) PROVE RetainedBy(v)'
    <3>1. CASE w = v
      BY <3>1, <2>10, <2>0, <1>0 DEF AcceptKey, RetainedBy, TypeOK
    <3>2. CASE w # v
      BY <3>2, <2>1, <2>10, <1>0 DEF AcceptKey, TypeOK
    <3> QED BY <3>1, <3>2
  <2> QED BY <2>2, <2>3, <2>4, <2>5, <2>6, <2>7, <2>8, <2>9, <2>10 DEF Next
<1> QED BY <1>1, <1>2 DEF Retained, RetainedBy

\* No safe position of a registered key is ever lost from the filter, however many
\* workers lose each other's updates in other bytes.
THEOREM RetainedInvariant == Spec => []Retained
<1>1. Init => Retained
  BY DEF Init, Retained, Covered
<1>2. PhantomInv /\ PhantomInv' /\ Retained /\ [Next]_vars => Retained'
  BY RetainedStep
<1> QED BY <1>1, <1>2, PhantomInvariant, PTL DEF Spec

\* Hence a safe key that some finished call answered "new" is not answered "new" by
\* any call that starts later ("judged unique is definitely unique").
THEOREM SafeStaysRejected == Spec => SafeNotAccepted
<1>1. Retained /\ [Next]_vars =>
        [\A w \in Workers : AcceptKey(w) /\ SafeKey(key[w]) => key[w] \notin before[w]]_vars
  BY DEF Retained, AcceptKey
<1> QED BY <1>1, RetainedInvariant, PTL DEF Spec, SafeNotAccepted

-----------------------------------------------------------------------------
\* What one worker remembers from the start of its call is still all there is.
Alone ==
  \A w \in Workers : pc[w] \in {"test", "read", "write"} => before[w] = settled

\* A filter with a single worker process implements the deduplicator's promise:
\* each step of check_and_add maps to an acceptance of a new key or to nothing.
THEOREM SingleWorkerImplementsDedup ==
  ASSUME \A v, w \in Workers : v = w, Modes = {"generate"}
  PROVE  Spec => DedupSpec
<1>0. \A k \in Keys : SafeKey(k)
  BY DEF SafeKey, SafeBits, UsedBits, Covered
<1> DEFINE Inv == TypeOK /\ Retained /\ Alone
<1>1. Init => Dedup!DedupInit
  <2>1. Init => settled = Restored /\ accepts = [k \in Keys |-> 0]
    BY DEF Init
  <2> QED BY <2>1 DEF Dedup!DedupInit
<1>2. Init => Alone
  BY DEF Init, Alone
<1>3. TypeOK /\ Alone /\ [Next]_vars => Alone'
  <2> SUFFICES ASSUME TypeOK, Alone, [Next]_vars PROVE Alone'
    OBVIOUS
  <2>1. CASE UNCHANGED vars
    BY <2>1 DEF vars, Alone
  <2>2. ASSUME NEW w \in Workers, Attach(w) \/ Close(w) PROVE Alone'
    BY <2>2 DEF Attach, Close, Alone
  <2>3. ASSUME NEW w \in Workers, NEW k \in Keys, CheckAndAdd(w, k) PROVE Alone'
    BY <2>3 DEF CheckAndAdd, Alone, TypeOK
  <2>4. ASSUME NEW w \in Workers, NEW k \in Keys, CheckUninitialized(w, k) PROVE Alone'
    BY <2>4 DEF CheckUninitialized, Alone
  <2>5. ASSUME NEW w \in Workers, TestSet(w) \/ Reject(w) \/ TestClear(w) PROVE Alone'
    BY <2>5 DEF TestSet, Reject, TestClear, Alone, TypeOK
  <2>6. ASSUME NEW w \in Workers, ReadByte(w) \/ WriteByte(w) PROVE Alone'
    BY <2>6 DEF ReadByte, WriteByte, Alone, TypeOK
  <2>7. ASSUME NEW w \in Workers, AcceptKey(w) PROVE Alone'
    BY <2>7 DEF AcceptKey, Alone, TypeOK
  <2>8. ASSUME NEW w \in Workers, Die(w) PROVE Alone'
    BY <2>8 DEF Die, Alone, TypeOK
  <2> QED BY <2>1, <2>2, <2>3, <2>4, <2>5, <2>6, <2>7, <2>8 DEF Next
<1>4. Inv /\ [Next]_vars => [Dedup!DedupNext]_(Dedup!dedupVars)
  <2> SUFFICES ASSUME Inv, Next PROVE Dedup!DedupNext \/ UNCHANGED <<settled, accepts>>
    BY DEF vars, Dedup!dedupVars
  <2>1. ASSUME NEW w \in Workers, AcceptKey(w) PROVE Dedup!Accept(key[w]) /\ key[w] \in Keys
    <3>1. key[w] \notin settled /\ key[w] \in Keys
      BY <2>1, <1>0 DEF AcceptKey, Retained, Alone, TypeOK
    <3> QED BY <2>1, <3>1 DEF AcceptKey, Dedup!Accept
  <2>2. ASSUME NEW w \in Workers, NEW k \in Keys, CheckUninitialized(w, k) PROVE FALSE
    BY <2>2 DEF CheckUninitialized, TypeOK
  <2> QED BY <2>1, <2>2 DEF Next, Attach, Close, CheckAndAdd, TestSet, Reject, TestClear,
             ReadByte, WriteByte, Die, Dedup!DedupNext
<1>5. Spec => []Inv
  BY <1>0, <1>2, <1>3, TypeInvariant, RetainedInvariant, PTL DEF Spec
<1> QED BY <1>1, <1>4, <1>5, PTL DEF Spec, DedupSpec, Dedup!DedupSpec
-----------------------------------------------------------------------------
\* Calls that may still answer "new" for k although k is registered: they began before.
Racing(k) ==
  {w \in Workers : pc[w] \in {"test", "read", "write"} /\ key[w] = k /\ k \notin before[w]}

\* Each answer "new" but the first uses up one of these calls.
FewAccepts ==
  mode = "generate" =>
    \A k \in Keys : SafeKey(k) =>
      /\ k \notin settled => accepts[k] = 0
      /\ k \in settled => accepts[k] + Cardinality(Racing(k)) <= Cardinality(Workers)

LEMMA FewerElements ==
  ASSUME NEW S, IsFiniteSet(S), NEW T \in SUBSET S
  PROVE  /\ Cardinality(T) \in Nat /\ Cardinality(S) \in Nat
         /\ Cardinality(T) <= Cardinality(S)
         /\ \A x \in S : x \notin T => Cardinality(T) + 1 <= Cardinality(S)
<1>1. ASSUME NEW x \in S, x \notin T
      PROVE  Cardinality(T) + 1 <= Cardinality(S)
  <2>1. IsFiniteSet(S \ {x}) /\ Cardinality(S \ {x}) = Cardinality(S) - 1
    BY FS_RemoveElement
  <2>2. Cardinality(T) <= Cardinality(S \ {x})
    BY <1>1, <2>1, FS_Subset
  <2>3. Cardinality(S) \in Nat /\ Cardinality(T) \in Nat
    BY FS_Subset, FS_CardinalityType
  <2> QED BY <2>1, <2>2, <2>3
<1> QED BY <1>1, FS_Subset, FS_CardinalityType

\* Nobody joins the race for a registered key.
LEMMA RacingShrinks ==
  ASSUME TypeOK, [Next]_vars, NEW k \in settled
  PROVE  Racing(k)' \subseteq Racing(k)
<1>1. ASSUME NEW w \in Workers, NEW j \in Keys, CheckAndAdd(w, j)
      PROVE  Racing(k)' \subseteq Racing(k)
  BY <1>1 DEF CheckAndAdd, Racing, TypeOK
<1> QED BY <1>1 DEF Next, vars, Attach, Close, CheckUninitialized, TestSet, Reject, TestClear,
           ReadByte, WriteByte, AcceptKey, Die, Racing, TypeOK

LEMMA FewAcceptsStep ==
  ASSUME IsFiniteSet(Workers), TypeOK, TypeOK', Retained, FewAccepts, [Next]_vars
  PROVE  FewAccepts'
<1> SUFFICES ASSUME mode = "generate", NEW k \in Keys, SafeKey(k)
             PROVE  /\ k \notin settled' => accepts'[k] = 0
                    /\ k \in settled' =>
                         accepts'[k] + Cardinality(Racing(k)') <= Cardinality(Workers)
  <2>1. mode' = mode
    BY DEF Next, vars, Attach, Close, CheckAndAdd, CheckUninitialized, TestSet, Reject,
           TestClear, ReadByte, WriteByte, AcceptKey, Die
  <2> QED BY <2>1, SafeBitsFixed DEF FewAccepts
<1>0. /\ Racing(k) \in SUBSET Workers /\ Racing(k)' \in SUBSET Workers
      /\ accepts[k] \in Nat
  BY DEF Racing, TypeOK
<1>1. /\ k \notin settled => accepts[k] = 0
      /\ k \in settled => accepts[k] + Cardinality(Racing(k)) <= Cardinality(Workers)
  BY DEF FewAccepts
<1>2. /\ Cardinality(Workers) \in Nat
      /\ Cardinality(Racing(k)) \in Nat /\ Cardinality(Racing(k)') \in Nat
      /\ k \in settled => Cardinality(Racing(k)') <= Cardinality(Racing(k))
  <2>1. IsFiniteSet(Racing(k))
    BY <1>0, FS_Subset
  <2> QED BY <1>0, <2>1, FewerElements, RacingShrinks
<1>3. CASE accepts'[k] = accepts[k] /\ (k \in settled' <=> k \in settled)
  BY <1>0, <1>1, <1>2, <1>3
<1>4. ASSUME NEW w \in Workers, AcceptKey(w), key[w] = k
      PROVE  k \in settled' /\ accepts'[k] + Cardinality(Racing(k)') <= Cardinality(Workers)
  <2>1. k \in settled' /\ accepts'[k] = accepts[k] + 1
    BY <1>4 DEF AcceptKey, TypeOK
  <2>2. w \in Racing(k) /\ w \notin Racing(k)'
    BY <1>4 DEF AcceptKey, Retained, Racing, TypeOK
  <2>3. CASE k \in settled
    <3>1. IsFiniteSet(Racing(k)) /\ Racing(k)' \in SUBSET Racing(k)
      BY <1>0, <2>3, FS_Subset, RacingShrinks
    <3>2. Cardinality(Racing(k)') + 1 <= Cardinality(Racing(k))
      BY <2>2, <3>1, FewerElements
    <3> QED BY <1>0, <1>1, <1>2, <2>1, <2>3, <3>2
  <2>4. CASE k \notin settled
    <3>1. Cardinality(Racing(k)') + 1 <= Cardinality(Workers)
      BY <1>0, <2>2, FewerElements
    <3> QED BY <1>1, <1>2, <2>1, <2>4, <3>1
  <2> QED BY <2>1, <2>3, <2>4
<1>5. ASSUME NEW w \in Workers, AcceptKey(w), key[w] # k
      PROVE  accepts'[k] = accepts[k] /\ (k \in settled' <=> k \in settled)
  BY <1>5 DEF AcceptKey, TypeOK
<1>6. CASE ~ \E w \in Workers : AcceptKey(w)
  <2>1. accepts'[k] = accepts[k] /\ settled' = settled
    BY <1>6 DEF Next, vars, Attach, Close, CheckAndAdd, CheckUninitialized, TestSet, Reject,
           TestClear, ReadByte, WriteByte, Die
  <2> QED BY <1>3, <2>1
<1> QED BY <1>3, <1>4, <1>5, <1>6

\* The race between check_and_add's test and _set_bits answers "new" to a combination
\* that lost updates cannot reach at most once per worker, for every finite number of
\* workers: a call that begins behind the first answer finds all positions set.
THEOREM AcceptsStayBounded ==
  ASSUME IsFiniteSet(Workers)
  PROVE  Spec => []AcceptsBounded
<1>1. Init => FewAccepts
  <2> SUFFICES ASSUME Init, NEW k \in Keys
               PROVE  accepts[k] + Cardinality(Racing(k)) <= Cardinality(Workers)
                      /\ accepts[k] = 0
    BY DEF FewAccepts
  <2>1. accepts[k] = 0 /\ Racing(k) = {}
    BY DEF Init, Racing
  <2>2. Cardinality(Workers) \in Nat
    BY FS_CardinalityType
  <2> QED BY <2>1, <2>2, FS_EmptySet
<1>2. TypeOK /\ FewAccepts => AcceptsBounded
  <2> SUFFICES ASSUME TypeOK, FewAccepts, mode = "generate", NEW k \in Keys, SafeKey(k)
               PROVE  accepts[k] <= Cardinality(Workers)
    BY DEF AcceptsBounded
  <2>1. Racing(k) \in SUBSET Workers /\ accepts[k] \in Nat
    BY DEF Racing, TypeOK
  <2>2. Cardinality(Racing(k)) \in Nat /\ Cardinality(Workers) \in Nat
    BY <2>1, FewerElements
  <2> QED BY <2>1, <2>2 DEF FewAccepts
<1>3. TypeOK /\ TypeOK' /\ Retained /\ FewAccepts /\ [Next]_vars => FewAccepts'
  BY FewAcceptsStep
<1> QED BY <1>1, <1>2, <1>3, TypeInvariant, RetainedInvariant, PTL DEF Spec
=============================================================================
