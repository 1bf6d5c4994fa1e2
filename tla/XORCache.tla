------------------------------ MODULE XORCache ------------------------------
(***************************************************************************)
(* generator/reg_analyzer/xor_cache.py: the Bloom filter in shared memory  *)
(* that all generator worker processes test and fill without a lock.       *)
(*                                                                         *)
(* One check_and_add is many steps here, because the processes interleave  *)
(* between them: each test of a bit reads one byte, and each iteration of  *)
(* _set_bits reads a byte, ors one bit in and writes the byte back.        *)
(* The hash is abstract: Pos gives the positions of a key in order.        *)
(***************************************************************************)
EXTENDS Naturals, Sequences, FiniteSets

CONSTANTS
  Workers,    \* worker processes attached to the shared memory
  Keys,       \* (opcode, value) combinations
  Pos,        \* Pos[k]: the bit positions of k, in the order of the hash list
  SizeBits,   \* number of bits of the filter
  ByteWidth,  \* bits per byte of the buffer (8 in the code)
  Modes,      \* modes considered: only in "generate" the master calls create()
  Restored,   \* keys an earlier run registered, loaded before the workers start
  MaxCalls    \* bound on the calls one worker makes

Bits == 0 .. SizeBits - 1

ASSUME ConstantsAssumption ==
  /\ SizeBits \in Nat
  /\ ByteWidth \in Nat \ {0}
  /\ Pos \in [Keys -> Seq(Bits)]
  /\ \A k \in Keys : Len(Pos[k]) > 0
  /\ Modes \subseteq {"generate", "mutate"}
  /\ Restored \subseteq Keys
  /\ MaxCalls \in Nat

VARIABLES
  mode,       \* the mode of this invocation, never changed
  buffer,     \* the bits that are set in the shared memory
  pc,         \* where each worker is in check_and_add
  key,        \* the key of the worker's current or last call
  idx,        \* index into Pos[key] of the loop the worker is in
  reg,        \* the byte _set_bits has read, as its set bits
  attached,   \* whether the worker's _buffer is not None
  calls,      \* calls each worker has started
  settled,    \* history: keys some finished call has answered "new" (or restored)
  before,     \* history: settled when the worker's current call began
  accepts     \* history: how often each key was answered "new"

vars == <<mode, buffer, pc, key, idx, reg, attached, calls, settled, before, accepts>>

PosSet(k) == {Pos[k][i] : i \in 1 .. Len(Pos[k])}
Covered(S) == UNION {PosSet(k) : k \in S}
ByteOf(p) == p \div ByteWidth
SameByte(p) == {q \in Bits : ByteOf(q) = ByteOf(p)}
CurBit(w) == Pos[key[w]][idx[w]]
LastIdx(w) == idx[w] = Len(Pos[key[w]])

TypeOK ==
  /\ mode \in Modes
  /\ buffer \subseteq Bits
  /\ pc \in [Workers -> {"idle", "test", "read", "write", "dead", "half"}]
  /\ key \in [Workers -> Keys]
  /\ idx \in [Workers -> Nat \ {0}]
  /\ \A w \in Workers : idx[w] <= Len(Pos[key[w]])
  /\ reg \in [Workers -> SUBSET Bits]
  /\ attached \in [Workers -> BOOLEAN]
  /\ calls \in [Workers -> Nat]
  /\ settled \subseteq Keys
  /\ before \in [Workers -> SUBSET Keys]
  /\ accepts \in [Keys -> Nat]

\* create() zeroes the memory and load() overwrites it before any worker runs.
Init ==
  /\ mode \in Modes
  /\ buffer = IF mode = "generate" THEN Covered(Restored) ELSE {}
  /\ pc = [w \in Workers |-> "idle"]
  /\ key \in [Workers -> Keys]
  /\ idx = [w \in Workers |-> 1]
  /\ reg = [w \in Workers |-> {}]
  /\ attached = [w \in Workers |-> FALSE]
  /\ calls = [w \in Workers |-> 0]
  /\ settled = IF mode = "generate" THEN Restored ELSE {}
  /\ before = [w \in Workers |-> {}]
  /\ accepts = [k \in Keys |-> 0]

-----------------------------------------------------------------------------
\* from_worker_state: a seed's task attaches to the memory the master created.
Attach(w) ==
  /\ mode = "generate"
  /\ pc[w] = "idle" /\ ~attached[w]
  /\ attached' = [attached EXCEPT ![w] = TRUE]
  /\ UNCHANGED <<mode, buffer, pc, key, idx, reg, calls, settled, before, accepts>>

\* close() at the end of a seed: a worker is not the owner, so the memory stays.
Close(w) ==
  /\ pc[w] = "idle" /\ attached[w]
  /\ attached' = [attached EXCEPT ![w] = FALSE]
  /\ UNCHANGED <<mode, buffer, pc, key, idx, reg, calls, settled, before, accepts>>

\* check_and_add on a cache nobody created: "Not initialized, allow all".
CheckUninitialized(w, k) ==
  /\ mode = "mutate"
  /\ pc[w] = "idle" /\ ~attached[w]
  /\ calls[w] < MaxCalls
  /\ calls' = [calls EXCEPT ![w] = @ + 1]
  /\ accepts' = [accepts EXCEPT ![k] = @ + 1]
  /\ UNCHANGED <<mode, buffer, pc, key, idx, reg, attached, settled, before>>

\* check_and_add: the positions are computed and the test loop begins.
CheckAndAdd(w, k) ==
  /\ attached[w]
  /\ pc[w] = "idle"
  /\ calls[w] < MaxCalls
  /\ pc' = [pc EXCEPT ![w] = "test"]
  /\ key' = [key EXCEPT ![w] = k]
  /\ idx' = [idx EXCEPT ![w] = 1]
  /\ calls' = [calls EXCEPT ![w] = @ + 1]
  /\ before' = [before EXCEPT ![w] = settled]
  /\ UNCHANGED <<mode, buffer, reg, attached, settled, accepts>>

\* Mutant of TestSet: the loop runs past the last position.
TestSetPastEnd(w) ==
  /\ pc[w] = "test"
  /\ CurBit(w) \in buffer
  /\ idx' = [idx EXCEPT ![w] = @ + 1]
  /\ UNCHANGED <<mode, buffer, pc, key, reg, attached, calls, settled, before, accepts>>

\* One iteration of the test loop that finds the bit set and more bits follow.
TestSet(w) ==
  /\ pc[w] = "test"
  /\ CurBit(w) \in buffer
  /\ ~LastIdx(w)
  /\ idx' = [idx EXCEPT ![w] = @ + 1]
  /\ UNCHANGED <<mode, buffer, pc, key, reg, attached, calls, settled, before, accepts>>

\* The last bit is set too: the call answers False ("may exist").
Reject(w) ==
  /\ pc[w] = "test"
  /\ CurBit(w) \in buffer
  /\ LastIdx(w)
  /\ pc' = [pc EXCEPT ![w] = "idle"]
  /\ UNCHANGED <<mode, buffer, key, idx, reg, attached, calls, settled, before, accepts>>

\* A bit is 0, "definitely new": _set_bits begins with the first position.
TestClear(w) ==
  /\ pc[w] = "test"
  /\ CurBit(w) \notin buffer
  /\ pc' = [pc EXCEPT ![w] = "read"]
  /\ idx' = [idx EXCEPT ![w] = 1]
  /\ UNCHANGED <<mode, buffer, key, reg, attached, calls, settled, before, accepts>>

\* _set_bits, buffer[b] |= m: the byte is read ...
ReadByte(w) ==
  /\ pc[w] = "read"
  /\ reg' = [reg EXCEPT ![w] = buffer \cap SameByte(CurBit(w))]
  /\ pc' = [pc EXCEPT ![w] = "write"]
  /\ UNCHANGED <<mode, buffer, key, idx, attached, calls, settled, before, accepts>>

\* Mutants of StoreByte: the mask covers the whole byte; "=" in place of "|=".
StoreFullMask(w) == buffer' = buffer \cup SameByte(CurBit(w))
StoreOverwrites(w) == buffer' = (buffer \ SameByte(CurBit(w))) \cup {CurBit(w)}

\* ... and written back with the bit set: the byte becomes what w read plus the bit.
StoreByte(w) ==
  buffer' = (buffer \ SameByte(CurBit(w))) \cup reg[w] \cup {CurBit(w)}

WriteByte(w) ==
  /\ pc[w] = "write"
  /\ ~LastIdx(w)
  /\ StoreByte(w)
  /\ pc' = [pc EXCEPT ![w] = "read"]
  /\ idx' = [idx EXCEPT ![w] = @ + 1]
  /\ UNCHANGED <<mode, key, reg, attached, calls, settled, before, accepts>>

\* Mutant of AcceptKey: the loop of _set_bits stops one position early.
AcceptKeyEarly(w) ==
  /\ pc[w] = "write"
  /\ LastIdx(w)
  /\ buffer' = buffer
  /\ pc' = [pc EXCEPT ![w] = "idle"]
  /\ settled' = settled \cup {key[w]}
  /\ accepts' = [accepts EXCEPT ![key[w]] = @ + 1]
  /\ UNCHANGED <<mode, key, idx, reg, attached, calls, before>>

\* The last position is written: the call answers True.
AcceptKey(w) ==
  /\ pc[w] = "write"
  /\ LastIdx(w)
  /\ StoreByte(w)
  /\ pc' = [pc EXCEPT ![w] = "idle"]
  /\ settled' = settled \cup {key[w]}
  /\ accepts' = [accepts EXCEPT ![key[w]] = @ + 1]
  /\ UNCHANGED <<mode, key, idx, reg, attached, calls, before>>

\* The worker process is killed, possibly half-way through _set_bits.
Die(w) ==
  /\ pc[w] \notin {"dead", "half"}
  /\ pc' = [pc EXCEPT ![w] = IF @ \in {"read", "write"} THEN "half" ELSE "dead"]
  /\ UNCHANGED <<mode, buffer, key, idx, reg, attached, calls, settled, before, accepts>>

Next ==
  \E w \in Workers :
    \/ Attach(w) \/ Close(w)
    \/ \E k \in Keys : CheckAndAdd(w, k) \/ CheckUninitialized(w, k)
    \/ TestSet(w) \/ Reject(w) \/ TestClear(w)
    \/ ReadByte(w) \/ WriteByte(w) \/ AcceptKey(w)
    \/ Die(w)

Spec == Init /\ [][Next]_vars
-----------------------------------------------------------------------------

\* Keys whose registration has begun: restored, registered, being set, or left
\* half set by a worker that died.
Setting(w) == pc[w] \in {"read", "write", "half"}
Begun == settled \cup {k \in Keys : \E w \in Workers : key[w] = k /\ Setting(w)}

\* check_and_add answers False only when every position of the key belongs to
\* keys whose registration had begun: no lost update, crash or reload ever
\* invents a bit, so a rejection is never due to anything but registered keys.
RejectsCovered ==
  [][\A w \in Workers : Reject(w) => PosSet(key[w]) \subseteq Covered(Begun)]_vars

\* A call that starts after a call on the same key has answered "new" does not
\* answer "new" again ("judged unique is definitely unique").
SettledNotAccepted ==
  [][\A w \in Workers : AcceptKey(w) => key[w] \notin before[w]]_vars

\* A position is safe from lost updates if there is one worker only, or no other
\* position in use is in its byte; a key is, if all its positions are.
UsedBits == Covered(Keys)
SafeBits ==
  {p \in UsedBits :
     \/ \A v, w \in Workers : v = w
     \/ \A q \in UsedBits : ByteOf(p) = ByteOf(q) => p = q}
SafeKey(k) == PosSet(k) \subseteq SafeBits

\* The same promise for the keys it can be kept for, whatever lost updates do to
\* the bytes of other keys and wherever workers die.
SafeNotAccepted ==
  [][\A w \in Workers : AcceptKey(w) /\ SafeKey(key[w]) => key[w] \notin before[w]]_vars

\* The race between the test and the setting of the bits answers "new" to a safe
\* combination at most once per worker.
AcceptsBounded ==
  mode = "generate" =>
    \A k \in Keys : SafeKey(k) => accepts[k] <= Cardinality(Workers)

\* With one worker the filter implements the deduplicator's promise; the keys
\* with a finished registration are the known ones.
Dedup == INSTANCE DedupSet WITH known <- settled
DedupSpec == Dedup!DedupSpec
-----------------------------------------------------------------------------
(* The inductive invariant behind the properties above.                    *)

\* Bits are set only on account of keys whose registration has begun.
NoPhantomBits == buffer \subseteq Covered(Begun)

\* So were the bytes read by _set_bits, and the bits a test has seen set.
ReadsCovered ==
  \A w \in Workers :
    /\ pc[w] = "write" => reg[w] \subseteq Covered(Begun)
    /\ pc[w] = "test" => \A i \in 1 .. idx[w] - 1 : Pos[key[w]][i] \in Covered(Begun)

PhantomInv == TypeOK /\ NoPhantomBits /\ ReadsCovered

\* What is safe stays: the safe positions of every registered key, and of a key being
\* set up to the current one; a byte read is not stale except for the bit being set;
\* and a call that found a zero bit has not overlooked a safe settled key.
Retained ==
  /\ \A k \in settled : PosSet(k) \cap SafeBits \subseteq buffer
  /\ \A w \in Workers :
       /\ pc[w] \in {"read", "write"} =>
            \A i \in 1 .. idx[w] - 1 : Pos[key[w]][i] \in SafeBits => Pos[key[w]][i] \in buffer
       /\ pc[w] = "write" =>
            buffer \cap SameByte(CurBit(w)) \cap SafeBits \subseteq reg[w] \cup {CurBit(w)}
       /\ before[w] \subseteq settled
       /\ pc[w] \in {"read", "write"} /\ SafeKey(key[w]) => key[w] \notin before[w]

=============================================================================
