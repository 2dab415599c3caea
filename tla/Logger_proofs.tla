----------------------------- MODULE Logger_proofs -----------------------------
(***************************************************************************)
(* Proofs about module Logger: the buffer is the newest part of its trace  *)
(* and within its bound, and what is printed is printed once, in order,    *)
(* and with the keys of the invocation that prints it; for any programs,   *)
(* traces and sizes of records.                                            *)
(***************************************************************************)
EXTENDS Logger, FiniteSetTheorems, SequenceTheorems, WellFoundedInduction, TLAPS

------------------------------------------------------------------------------
(* Induction up to a bound, over sets instead of predicates, and the sums that
   Total is defined by *)

LEMMA Least ==
  ASSUME NEW T \in SUBSET Nat, T # {}
  PROVE  \E x \in T : \A y \in T : x <= y
PROOF
<1>1. PICK R : R = {p \in Nat \X Nat : p[1] < p[2]}
  OBVIOUS
<1>2. IsWellFoundedOn(R, Nat)
  BY <1>1, NatLessThanWellFounded DEF OpToRel
<1>3. PICK x \in T : \A y \in T : ~(<<y, x>> \in R)
  BY <1>2, WFMin
<1>4. ASSUME NEW y \in T PROVE x <= y
  <2>1. x \in Nat /\ y \in Nat /\ <<y, x>> \notin R
    BY <1>3
  <2>2. ~(y < x)
    BY <1>1, <2>1
  <2>3. QED
    BY <2>1, <2>2
<1>5. QED
  BY <1>4

LEMMA UpTo ==
  ASSUME NEW N \in Nat, NEW T, 0 \in T, \A k \in 1 .. N : k - 1 \in T => k \in T
  PROVE  0 .. N \subseteq T
PROOF
<1> DEFINE U == {k \in 0 .. N : k \notin T}
<1>1. SUFFICES ASSUME U # {} PROVE FALSE
  OBVIOUS
<1>2. PICK k \in U : \A j \in U : k <= j
  <2>1. U \in SUBSET Nat
    OBVIOUS
  <2> HIDE DEF U
  <2>2. QED
    BY <1>1, <2>1, Least
<1>3. k \in 1 .. N /\ k - 1 \notin U
  <2>1. k \in 1 .. N
    OBVIOUS
  <2>2. \A j \in U : j \in Nat
    OBVIOUS
  <2> HIDE DEF U
  <2>3. QED
    BY <1>2, <2>1, <2>2
<1>4. QED
  BY <1>3

\* There is a function that adds up what a gives.
LEMMA Adder ==
  ASSUME NEW N \in Nat, NEW a
  PROVE  \E f : f = [n \in 0 .. N |-> IF n = 0 THEN 0 ELSE f[n - 1] + a[n]]
PROOF
<1> DEFINE T == {k \in Nat : \E f : f = [n \in 0 .. k |-> IF n = 0 THEN 0 ELSE f[n - 1] + a[n]]}
<1>1. 0 \in T
  <2>1. PICK z : z = [n \in 0 .. 0 |-> 0]
    OBVIOUS
  <2>2. z = [n \in 0 .. 0 |-> IF n = 0 THEN 0 ELSE z[n - 1] + a[n]]
    BY <2>1
  <2>3. QED
    BY <2>2
<1>2. ASSUME NEW k \in 1 .. N, k - 1 \in T PROVE k \in T
  <2>1. PICK f : f = [n \in 0 .. k - 1 |-> IF n = 0 THEN 0 ELSE f[n - 1] + a[n]]
    BY <1>2
  <2> DEFINE g == [n \in 0 .. k |-> IF n = k THEN f[k - 1] + a[k] ELSE f[n]]
  <2>2. ASSUME NEW n \in 0 .. k PROVE g[n] = IF n = 0 THEN 0 ELSE g[n - 1] + a[n]
    <3>1. CASE n = k
      BY <3>1
    <3>2. CASE n # k
      <4>1. n \in 0 .. k - 1 /\ (n # 0 => n - 1 \in 0 .. k - 1)
        BY <3>2
      <4>2. f[n] = IF n = 0 THEN 0 ELSE f[n - 1] + a[n]
        BY <2>1, <4>1
      <4>3. QED
        BY <4>1, <4>2
    <3>3. QED
      BY <3>1, <3>2
  <2>3. g = [n \in 0 .. k |-> IF n = 0 THEN 0 ELSE g[n - 1] + a[n]]
    <3>1. g = [n \in 0 .. k |-> g[n]]
      OBVIOUS
    <3> HIDE DEF g
    <3>2. QED
      BY <2>2, <3>1
  <2>4. k \in Nat
    OBVIOUS
  <2> HIDE DEF g
  <2>5. QED
    BY <2>3, <2>4
<1>3. 0 .. N \subseteq T
  <2> HIDE DEF T
  <2>1. QED
    BY <1>1, <1>2, UpTo
<1>4. N \in T
  BY <1>3
<1>5. QED
  BY <1>4

\* The partial sums of a sequence of records.
Sums(f, s, log) ==
  /\ f[0] = 0
  /\ \A n \in 1 .. Len(s) : f[n] = f[n - 1] + log[s[n]].size
  /\ \A n \in 0 .. Len(s) : f[n] \in Nat /\ f[n] >= n
  /\ Total(s, log) = f[Len(s)]

Sized(s, log) ==
  /\ Len(s) \in Nat
  /\ \A n \in 1 .. Len(s) : log[s[n]].size \in Nat \ {0}

LEMMA Summed ==
  ASSUME NEW s, NEW log, Sized(s, log)
  PROVE  \E f : Sums(f, s, log)
PROOF
<1> DEFINE Rec(f) == f = [n \in 0 .. Len(s) |-> IF n = 0 THEN 0 ELSE f[n - 1] + log[s[n]].size]
<1>1. \E f : Rec(f)
  <2>1. PICK a : a = [n \in 1 .. Len(s) |-> log[s[n]].size]
    OBVIOUS
  <2>2. PICK f : f = [n \in 0 .. Len(s) |-> IF n = 0 THEN 0 ELSE f[n - 1] + a[n]]
    BY Adder DEF Sized
  <2>3. \A n \in 0 .. Len(s) : (IF n = 0 THEN 0 ELSE f[n - 1] + a[n])
                                = (IF n = 0 THEN 0 ELSE f[n - 1] + log[s[n]].size)
    BY <2>1
  <2>4. Rec(f)
    BY <2>2, <2>3
  <2>5. QED
    BY <2>4
<1>2. PICK f : f = CHOOSE g : Rec(g)
  OBVIOUS
<1>3. Rec(f)
  <2> HIDE DEF Rec
  <2>1. QED
    BY <1>1, <1>2
<1>4. Total(s, log) = f[Len(s)]
  BY <1>2 DEF Total
<1>5. f[0] = 0 /\ \A n \in 1 .. Len(s) : f[n] = f[n - 1] + log[s[n]].size
  <2>1. \A n \in 0 .. Len(s) : f[n] = IF n = 0 THEN 0 ELSE f[n - 1] + log[s[n]].size
    BY <1>3
  <2>2. QED
    BY <2>1 DEF Sized
<1> DEFINE T == {n \in Nat : f[n] \in Nat /\ f[n] >= n}
<1>6. 0 .. Len(s) \subseteq T
  <2>1. 0 \in T
    BY <1>5
  <2>2. ASSUME NEW k \in 1 .. Len(s), k - 1 \in T PROVE k \in T
    <3>1. f[k] = f[k - 1] + log[s[k]].size /\ log[s[k]].size \in Nat \ {0} /\ k \in Nat
      BY <1>5 DEF Sized
    <3>2. QED
      BY <2>2, <3>1
  <2> HIDE DEF T
  <2>3. QED
    BY <2>1, <2>2, UpTo DEF Sized
<1>7. QED
  BY <1>4, <1>5, <1>6 DEF Sums

LEMMA TotalPositive ==
  ASSUME NEW s, NEW log, Sized(s, log)
  PROVE  Total(s, log) \in Nat /\ Total(s, log) >= Len(s) /\ (Len(s) = 0 => Total(s, log) = 0)
PROOF
<1>1. PICK f : Sums(f, s, log)
  BY Summed
<1>2. QED
  BY <1>1 DEF Sums, Sized

SameSizes(s, logs, u, logu, n) == \A i \in 1 .. n : logs[s[i]].size = logu[u[i]].size

\* Two sequences whose beginnings have the same sizes add up to the same there.
LEMMA SameSums ==
  ASSUME NEW s, NEW u, NEW logs, NEW logu, NEW n \in Nat, Sized(s, logs), Sized(u, logu),
         NEW f, NEW g, Sums(f, s, logs), Sums(g, u, logu), n <= Len(s), n <= Len(u),
         SameSizes(s, logs, u, logu, n)
  PROVE  f[n] = g[n]
PROOF
<1> DEFINE T == {k \in Nat : f[k] = g[k]}
<1>1. 0 \in T
  BY DEF Sums
<1>2. ASSUME NEW k \in 1 .. n, k - 1 \in T PROVE k \in T
  <2>1. k \in 1 .. Len(s) /\ k \in 1 .. Len(u) /\ k \in Nat
    BY DEF Sized
  <2>2. f[k] = f[k - 1] + logs[s[k]].size /\ g[k] = g[k - 1] + logu[u[k]].size
    BY <2>1 DEF Sums
  <2>3. QED
    BY <1>2, <2>1, <2>2 DEF SameSizes
<1>3. 0 .. n \subseteq T
  <2> HIDE DEF T
  <2>1. QED
    BY <1>1, <1>2, UpTo
<1>4. QED
  BY <1>3

LEMMA TotalSame ==
  ASSUME NEW s, NEW log, NEW grown, Sized(s, log), Sized(s, grown),
         SameSizes(s, log, s, grown, Len(s))
  PROVE  Total(s, grown) = Total(s, log)
PROOF
<1>1. PICK f : Sums(f, s, log)
  BY Summed
<1>2. PICK g : Sums(g, s, grown)
  BY Summed
<1>3. Len(s) \in Nat
  BY DEF Sized
<1>4. f[Len(s)] = g[Len(s)]
  BY <1>1, <1>2, <1>3, SameSums
<1>5. QED
  BY <1>1, <1>2, <1>4 DEF Sums

LEMMA TotalAppend ==
  ASSUME NEW s \in Seq(Nat), NEW r \in Nat, NEW log, Sized(s, log), log[r].size \in Nat \ {0}
  PROVE  Sized(Append(s, r), log) /\ Total(Append(s, r), log) = Total(s, log) + log[r].size
PROOF
<1>1. PICK u : u = Append(s, r)
  OBVIOUS
<1>2. /\ Len(s) \in Nat /\ Len(u) = Len(s) + 1 /\ u[Len(s) + 1] = r
      /\ \A i \in 1 .. Len(s) : u[i] = s[i]
  BY <1>1
<1>3. Sized(u, log)
  BY <1>2, SMTT(30) DEF Sized
<1>4. PICK f : Sums(f, s, log)
  BY Summed
<1>5. PICK g : Sums(g, u, log)
  BY <1>3, Summed
<1>6. f[Len(s)] = g[Len(s)]
  <2>1. SameSizes(s, log, u, log, Len(s))
    BY <1>2 DEF SameSizes
  <2>2. Len(s) <= Len(s) /\ Len(s) <= Len(u)
    BY <1>2
  <2>3. QED
    BY <1>2, <1>3, <1>4, <1>5, <2>1, <2>2, SameSums
<1>7. g[Len(s) + 1] = g[Len(s)] + log[r].size
  BY <1>2, <1>5 DEF Sums
<1>8. Total(u, log) = Total(s, log) + log[r].size
  BY <1>2, <1>4, <1>5, <1>6, <1>7 DEF Sums
<1>9. QED
  BY <1>1, <1>3, <1>8

\* The beginning and the end of a sequence.
LEMMA Cut ==
  ASSUME NEW s \in Seq(Nat), NEW n \in 0 .. Len(s)
  PROVE  /\ SubSeq(s, 1, n) \in Seq(Nat) /\ SubSeq(s, n + 1, Len(s)) \in Seq(Nat)
         /\ Len(SubSeq(s, 1, n)) = n /\ Len(SubSeq(s, n + 1, Len(s))) = Len(s) - n
         /\ \A i \in 1 .. n : SubSeq(s, 1, n)[i] = s[i]
         /\ \A i \in 1 .. Len(s) - n : SubSeq(s, n + 1, Len(s))[i] = s[n + i]
PROOF
<1>1. Len(s) \in Nat /\ n \in Int /\ n + 1 \in Int /\ Len(s) \in Int /\ \A i \in 1 .. Len(s) : s[i] \in Nat
  OBVIOUS
<1>2. /\ SubSeq(s, 1, n) \in Seq(Nat) /\ Len(SubSeq(s, 1, n)) = n
      /\ \A i \in 1 .. n : SubSeq(s, 1, n)[i] = s[i]
  <2>1. \A i \in 1 .. n : s[i] \in Nat
    BY <1>1
  <2>2. /\ SubSeq(s, 1, n) \in Seq(Nat)
        /\ Len(SubSeq(s, 1, n)) = IF 1 <= n THEN n - 1 + 1 ELSE 0
        /\ \A i \in 1 .. n - 1 + 1 : SubSeq(s, 1, n)[i] = s[1 + i - 1]
    BY <1>1, <2>1, SubSeqProperties
  <2>3. QED
    BY <1>1, <2>2
<1>3. /\ SubSeq(s, n + 1, Len(s)) \in Seq(Nat) /\ Len(SubSeq(s, n + 1, Len(s))) = Len(s) - n
      /\ \A i \in 1 .. Len(s) - n : SubSeq(s, n + 1, Len(s))[i] = s[n + i]
  <2>1. PICK m : m = n + 1 /\ m \in Int
    BY <1>1
  <2>2. \A i \in m .. Len(s) : s[i] \in Nat
    BY <1>1, <2>1
  <2>3. /\ SubSeq(s, m, Len(s)) \in Seq(Nat)
        /\ Len(SubSeq(s, m, Len(s))) = IF m <= Len(s) THEN Len(s) - m + 1 ELSE 0
        /\ \A i \in 1 .. Len(s) - m + 1 : SubSeq(s, m, Len(s))[i] = s[m + i - 1]
    BY <1>1, <2>1, <2>2, SubSeqProperties
  <2>4. QED
    BY <1>1, <2>1, <2>3
<1>4. QED
  BY <1>2, <1>3

\* What is left of a sequence adds up to the rest.
LEMMA TotalRest ==
  ASSUME NEW s \in Seq(Nat), NEW log, Sized(s, log), NEW n \in 0 .. Len(s)
  PROVE  /\ SubSeq(s, n + 1, Len(s)) \in Seq(Nat)
         /\ Sized(SubSeq(s, n + 1, Len(s)), log)
         /\ Total(SubSeq(s, n + 1, Len(s)), log) = Total(s, log) - Total(SubSeq(s, 1, n), log)
PROOF
<1>1. PICK u, v : u = SubSeq(s, 1, n) /\ v = SubSeq(s, n + 1, Len(s))
  OBVIOUS
<1>2. /\ Len(s) \in Nat /\ n \in Nat /\ n <= Len(s)
      /\ Len(u) = n /\ Len(v) = Len(s) - n /\ v \in Seq(Nat)
      /\ \A i \in 1 .. n : u[i] = s[i]
      /\ \A i \in 1 .. Len(s) - n : v[i] = s[n + i]
  BY <1>1, Cut
<1>3. Sized(u, log) /\ Sized(v, log)
  <2>1. Sized(u, log)
    <3>1. ASSUME NEW i \in 1 .. Len(u) PROVE log[u[i]].size \in Nat \ {0}
      <4>1. i \in 1 .. n /\ i \in 1 .. Len(s) /\ u[i] = s[i]
        BY <1>2
      <4>2. QED
        BY <4>1 DEF Sized
    <3>2. QED
      BY <1>2, <3>1 DEF Sized
  <2>2. ASSUME NEW i \in 1 .. Len(v) PROVE log[v[i]].size \in Nat \ {0}
    <3>1. n + i \in 1 .. Len(s) /\ v[i] = s[n + i]
      BY <1>2
    <3>2. QED
      BY <3>1 DEF Sized
  <2>3. QED
    BY <1>2, <2>1, <2>2 DEF Sized
<1>4. PICK f : Sums(f, s, log)
  BY Summed
<1>5. PICK g : Sums(g, u, log)
  BY <1>3, Summed
<1>6. PICK h : Sums(h, v, log)
  BY <1>3, Summed
<1>7. f[n] = g[n]
  <2>1. n <= Len(s) /\ n <= Len(u) /\ n \in Nat
    BY <1>2
  <2>2. SameSizes(s, log, u, log, n)
    BY <1>2 DEF SameSizes
  <2>3. QED
    BY <1>3, <1>4, <1>5, <2>1, <2>2, SameSums
<1> DEFINE T == {k \in Nat : h[k] = f[n + k] - f[n]}
<1>8. 0 .. Len(v) \subseteq T
  <2>1. 0 \in T
    BY <1>2, <1>4, <1>6 DEF Sums
  <2>2. ASSUME NEW k \in 1 .. Len(v), k - 1 \in T PROVE k \in T
    <3>1. k \in Nat /\ n + k \in 1 .. Len(s) /\ n + k - 1 \in 0 .. Len(s) /\ n \in 0 .. Len(s)
      BY <1>2
    <3>2. /\ h[k] = h[k - 1] + log[v[k]].size
          /\ f[n + k] = f[n + k - 1] + log[s[n + k]].size
      BY <1>4, <1>6, <3>1 DEF Sums
    <3>3. v[k] = s[n + k] /\ log[s[n + k]].size \in Nat
      BY <1>2, <3>1 DEF Sized
    <3>4. h[k - 1] = f[n + k - 1] - f[n] /\ f[n + k - 1] \in Nat /\ f[n] \in Nat
      BY <1>4, <2>2, <3>1 DEF Sums
    <3>5. n + k - 1 = n + (k - 1)
      BY <3>1
    <3>6. h[k] = f[n + k] - f[n]
      <4>1. PICK x \in Nat : x = log[s[n + k]].size
        BY <3>3
      <4>2. h[k] = h[k - 1] + x /\ f[n + k] = f[n + k - 1] + x
        BY <3>2, <3>3, <4>1
      <4>3. QED
        BY <3>4, <4>2
    <3>7. QED
      BY <3>1, <3>6
  <2>3. Len(v) \in Nat
    BY <1>2
  <2> HIDE DEF T
  <2>4. QED
    BY <2>1, <2>2, <2>3, UpTo
<1>9. h[Len(v)] = f[Len(s)] - f[n]
  <2>1. Len(v) \in 0 .. Len(v) /\ n + Len(v) = Len(s)
    BY <1>2
  <2>2. QED
    BY <1>8, <2>1
<1>10. Total(v, log) = Total(s, log) - Total(u, log)
  BY <1>2, <1>4, <1>5, <1>6, <1>7, <1>9 DEF Sums
<1>11. QED
  BY <1>1, <1>2, <1>3, <1>10

------------------------------------------------------------------------------
(* The invariant *)

RecordType == [logger : Loggers, size : Nat \ {0}, inv : Nat, buffered : BOOLEAN]
LineType == [record : Nat, inv : Nat, keys : SUBSET Nat, thread : SUBSET Nat, request : Nat]
KeyBufferType == [cache : Seq(Nat), current_size : Int, has_evicted : BOOLEAN]

RecordsOK ==
  /\ records \in Seq(RecordType) /\ Len(records) <= app.records
  /\ \A r \in DOMAIN records : records[r].inv <= Len(traces) /\ (records[r].buffered => Buffering)

LinesOK ==
  /\ emitted \in Seq(LineType)
  /\ \A i \in DOMAIN emitted : emitted[i].record \in DOMAIN records /\ emitted[i].inv <= Len(traces)

\* The buffer kb of trace t.
BufferOK(kb, t) ==
  /\ kb \in KeyBufferType /\ kb.cache # <<>>
  /\ kb.current_size = Total(kb.cache, records) /\ kb.current_size <= MaxBytes
  /\ \A i, j \in DOMAIN kb.cache : i < j => kb.cache[i] < kb.cache[j]
  /\ \A i \in DOMAIN kb.cache :
       kb.cache[i] \in DOMAIN records /\ TraceOf(records[kb.cache[i]].inv) = t

\* A record in a buffer waits for its logger to print it, after those the
\* logger printed before. A logger that decorates the handler keeps none from
\* one invocation to the next.
Waiting(l, r) ==
  /\ records[r].logger = l /\ records[r].buffered
  /\ \A i \in DOMAIN emitted :
       LET f == records[emitted[i].record]
       IN emitted[i].record # r /\ (f.logger = l /\ f.buffered => emitted[i].record < r)
  /\ l = app.decorator => mode = "handler" /\ records[r].inv = Running

CacheOK(l) ==
  /\ DOMAIN caches[l] # {} => Buffering
  /\ \A t, u \in DOMAIN caches[l] : t = u
  /\ \A t \in DOMAIN caches[l] :
       /\ t \in Traces /\ BufferOK(caches[l][t], t)
       /\ \A i \in DOMAIN caches[l][t].cache : Waiting(l, caches[l][t].cache[i])

\* What the running invocation misses in the buffer of l.
Kept(l) == Get(caches[l], TracerId)
Lost(l) == Pending(l) \ ToSet(Kept(l))
LostOldest(l) ==
  mode = "handler" =>
    /\ \A r \in Lost(l), k \in ToSet(Kept(l)) : r < k
    /\ Lost(l) # {} => Kept(l) # <<>> /\ caches[l][TracerId].has_evicted

BufferInv ==
  /\ RecordsOK /\ LinesOK
  /\ cleared \in [Loggers -> 0 .. Len(records)]
  /\ DOMAIN caches = Loggers
  /\ \A l \in Loggers : CacheOK(l) /\ LostOldest(l)

\* The request id among keys.
Request(keys) == IF "function_request_id" \in DOMAIN keys THEN keys["function_request_id"] ELSE 0

\* What a decorated handler prints with.
KeysCurrent ==
  /\ Request(log_format) \in {0, Running}
  /\ Request(keys_combined) \in {0, Running}
  /\ app.clear_state =>
       /\ Owners(log_format) \subseteq {0, Running}
       /\ Owners(keys_combined) \subseteq {0, Running}
       /\ app.decorator = "service" => Owners(thread_keys) \subseteq {0, Running}

\* What the next invocation starts from.
KeysReset ==
  ~(app.decorator = "child" /\ app.clear_state) =>
    /\ Request(keys_combined) = 0
    /\ app.clear_state => Owners(keys_combined) \subseteq {0}

KeysOK == Decorated => KeysReset /\ (mode # "idle" => KeysCurrent)

StateTyped ==
  /\ app \in Apps
  /\ mode \in {"init", "handler", "idle"}
  /\ cold \in BOOLEAN
  /\ traces \in Seq(Traces) /\ Len(traces) <= app.invocations
  /\ level \in [Loggers -> Levels]

KeysTyped ==
  /\ {log_format, keys_combined, thread_keys} \subseteq KeyMaps
  /\ in_context \in BOOLEAN

KeyInv == StateTyped /\ KeysTyped /\ KeysOK

LoggerInv == KeyInv /\ BufferInv /\ EmittedByOwner

------------------------------------------------------------------------------
(* Keys *)

LEMMA KeyMap ==
  ASSUME NEW f
  PROVE  /\ f \in KeyMaps => /\ f = [k \in DOMAIN f |-> f[k]]
                             /\ DOMAIN f \subseteq Keys
                             /\ \A k \in DOMAIN f : f[k] \in 0 .. app.invocations
                             /\ Owners(f) \subseteq 0 .. app.invocations
         /\ (/\ f = [k \in DOMAIN f |-> f[k]]
             /\ DOMAIN f \subseteq Keys
             /\ \A k \in DOMAIN f : f[k] \in 0 .. app.invocations) => f \in KeyMaps
PROOF
<1>1. ASSUME f \in KeyMaps
      PROVE  /\ f = [k \in DOMAIN f |-> f[k]]
             /\ DOMAIN f \subseteq Keys
             /\ \A k \in DOMAIN f : f[k] \in 0 .. app.invocations
             /\ Owners(f) \subseteq 0 .. app.invocations
  <2>1. PICK ks \in SUBSET Keys : f \in [ks -> 0 .. app.invocations]
    BY <1>1 DEF KeyMaps
  <2>2. QED
    BY <2>1 DEF Owners
<1>2. ASSUME /\ f = [k \in DOMAIN f |-> f[k]]
             /\ DOMAIN f \subseteq Keys
             /\ \A k \in DOMAIN f : f[k] \in 0 .. app.invocations
      PROVE  f \in KeyMaps
  <2>1. f \in [DOMAIN f -> 0 .. app.invocations]
    BY <1>2
  <2>2. QED
    BY <1>2, <2>1 DEF KeyMaps
<1>3. QED
  BY <1>1, <1>2

LEMMA EmptyKeys == Empty \in KeyMaps /\ Owners(Empty) = {} /\ Request(Empty) = 0
PROOF
<1>1. DOMAIN Empty = {} /\ Empty = [k \in DOMAIN Empty |-> Empty[k]]
  BY DEF Empty
<1>2. QED
  BY <1>1, KeyMap DEF Owners, Request

\* append_keys
LEMMA WithKey ==
  ASSUME NEW f \in KeyMaps, NEW i \in 0 .. app.invocations, NEW g, g = With(f, "user", i)
  PROVE  g \in KeyMaps /\ Owners(g) \subseteq Owners(f) \cup {i} /\ Request(g) = Request(f)
PROOF
<1>1. /\ DOMAIN g = DOMAIN f \cup {"user"} /\ g = [k \in DOMAIN g |-> g[k]]
      /\ \A k \in DOMAIN g : g[k] = IF k = "user" THEN i ELSE f[k]
  BY DEF With
<1>2. g \in KeyMaps
  BY <1>1, KeyMap DEF Keys
<1>3. Owners(g) \subseteq Owners(f) \cup {i}
  BY <1>1 DEF Owners
<1>4. QED
  BY <1>1, <1>2, <1>3 DEF Request

LEMMA WithoutKey ==
  ASSUME NEW f \in KeyMaps, NEW g, g = Without(f, "user")
  PROVE  g \in KeyMaps /\ Owners(g) \subseteq Owners(f) /\ Request(g) = Request(f)
PROOF
<1>1. /\ DOMAIN g = DOMAIN f \ {"user"} /\ g = [k \in DOMAIN g |-> g[k]]
      /\ \A k \in DOMAIN g : g[k] = f[k]
  BY DEF Without
<1>2. g \in KeyMaps
  BY <1>1, KeyMap DEF Keys
<1>3. Owners(g) \subseteq Owners(f)
  BY <1>1 DEF Owners
<1>4. QED
  BY <1>1, <1>2, <1>3 DEF Request

LEMMA OverKeys ==
  ASSUME NEW f \in KeyMaps, NEW e \in KeyMaps, NEW g, g = Over(f, e)
  PROVE  /\ g \in KeyMaps /\ Owners(g) \subseteq Owners(f) \cup Owners(e)
         /\ Request(g) = IF "function_request_id" \in DOMAIN f THEN Request(f) ELSE Request(e)
PROOF
<1>1. /\ DOMAIN g = DOMAIN f \cup DOMAIN e /\ g = [k \in DOMAIN g |-> g[k]]
      /\ \A k \in DOMAIN g : g[k] = IF k \in DOMAIN f THEN f[k] ELSE e[k]
  BY DEF Over
<1>2. g \in KeyMaps
  BY <1>1, KeyMap DEF Keys
<1>3. Owners(g) \subseteq Owners(f) \cup Owners(e)
  BY <1>1 DEF Owners
<1>4. QED
  BY <1>1, <1>2, <1>3 DEF Request

LEMMA GivenKeys ==
  ASSUME app \in Apps
  PROVE  /\ ConstructorKeys \in KeyMaps /\ Owners(ConstructorKeys) \subseteq {0}
         /\ Request(ConstructorKeys) = 0
         /\ \A i \in 0 .. app.invocations :
              /\ ContextKeys(i) \in KeyMaps /\ Owners(ContextKeys(i)) \subseteq {i}
              /\ Request(ContextKeys(i)) = i /\ "function_request_id" \in DOMAIN ContextKeys(i)
PROOF
<1>1. app.constructor \subseteq {"user"} /\ app.invocations \in Nat
  BY AppsAssumption DEF AppType
<1>2. /\ ConstructorKeys \in KeyMaps /\ Owners(ConstructorKeys) \subseteq {0}
      /\ Request(ConstructorKeys) = 0
  <2>1. PICK g : g = ConstructorKeys
    OBVIOUS
  <2>2. /\ DOMAIN g \subseteq {"user"} /\ g = [k \in DOMAIN g |-> g[k]]
        /\ \A k \in DOMAIN g : g[k] = 0
    BY <1>1, <2>1 DEF ConstructorKeys
  <2>3. g \in KeyMaps
    BY <1>1, <2>2, KeyMap DEF Keys
  <2>4. QED
    BY <2>1, <2>2, <2>3 DEF Owners, Request
<1>3. ASSUME NEW i \in 0 .. app.invocations
      PROVE  /\ ContextKeys(i) \in KeyMaps /\ Owners(ContextKeys(i)) \subseteq {i}
             /\ Request(ContextKeys(i)) = i /\ "function_request_id" \in DOMAIN ContextKeys(i)
  <2>1. PICK g : g = ContextKeys(i)
    OBVIOUS
  <2>2. /\ DOMAIN g = {"function_request_id"} /\ g = [k \in DOMAIN g |-> g[k]]
        /\ \A k \in DOMAIN g : g[k] = i
    BY <2>1 DEF ContextKeys
  <2>3. g \in KeyMaps
    BY <2>2, KeyMap DEF Keys
  <2>4. QED
    BY <2>1, <2>2, <2>3 DEF Owners, Request
<1>4. QED
  BY <1>2, <1>3

LEMMA State ==
  ASSUME StateTyped
  PROVE  /\ app \in AppType /\ app.invocations \in Nat /\ app.records \in Nat
         /\ app.decorator \in Loggers \cup {Never} /\ app.clear_state \in BOOLEAN
         /\ app.level \in Levels /\ app.sampled \in BOOLEAN
         /\ Len(traces) \in 0 .. app.invocations
         /\ Running \in 0 .. Len(traces) /\ Running \in 0 .. app.invocations
         /\ SampledLevels \subseteq Levels
PROOF
<1>1. /\ app \in AppType /\ app.invocations \in Nat /\ app.records \in Nat
      /\ app.decorator \in Loggers \cup {Never} /\ app.clear_state \in BOOLEAN
      /\ app.level \in Levels /\ app.sampled \in BOOLEAN
  BY AppsAssumption DEF StateTyped, AppType
<1>2. Len(traces) \in 0 .. app.invocations
  BY <1>1 DEF StateTyped
<1>3. Running \in 0 .. Len(traces) /\ Running \in 0 .. app.invocations
  BY <1>1, <1>2 DEF Running
<1>4. SampledLevels \subseteq Levels
  BY <1>1 DEF SampledLevels, Levels, Severity
<1>5. QED
  BY <1>1, <1>2, <1>3, <1>4

LEMMA KeysChanged ==
  ASSUME KeyInv, UNCHANGED <<app, mode, traces, keys_combined>>,
         Request(log_format') = Request(log_format),
         Owners(log_format') \subseteq Owners(log_format) \cup {0, Running},
         Owners(thread_keys') \subseteq Owners(thread_keys) \cup {0, Running}
  PROVE  KeysOK'
PROOF
<1>1. Running' = Running /\ (Decorated' <=> Decorated)
  BY DEF Running, Decorated
<1>2. KeysReset => KeysReset'
  BY DEF KeysReset
<1>3. KeysCurrent => KeysCurrent'
  BY <1>1 DEF KeysCurrent
<1>4. QED
  BY <1>1, <1>2, <1>3 DEF KeyInv, KeysOK

LEMMA KeyStepsKeep ==
  ASSUME KeyInv, AppendKeys \/ RemoveKeys \/ EnterContext \/ ExitContext \/ ThreadKeys
  PROVE  KeyInv'
PROOF
<1>1. /\ UNCHANGED <<app, mode, cold, traces, level, keys_combined>>
      /\ StateTyped /\ KeysTyped
      /\ Running \in 0 .. app.invocations
      /\ log_format \in KeyMaps /\ keys_combined \in KeyMaps /\ thread_keys \in KeyMaps
  BY State DEF AppendKeys, RemoveKeys, EnterContext, ExitContext, ThreadKeys, KeyStep, KeyInv,
     KeysTyped
<1>2. in_context' \in BOOLEAN
  BY <1>1 DEF AppendKeys, RemoveKeys, EnterContext, ExitContext, ThreadKeys, KeysTyped
<1>3. \/ log_format' \in {log_format, With(log_format, "user", Running), Without(log_format, "user")}
         /\ thread_keys' = thread_keys
      \/ /\ thread_keys' \in {With(thread_keys, "user", Running), Without(thread_keys, "user"), Empty}
         /\ log_format' = log_format
  BY DEF AppendKeys, RemoveKeys, EnterContext, ExitContext, ThreadKeys, Unwound
<1>4. /\ log_format' \in KeyMaps /\ Request(log_format') = Request(log_format)
      /\ Owners(log_format') \subseteq Owners(log_format) \cup {0, Running}
  BY <1>1, <1>3, WithKey, WithoutKey
<1>5. /\ thread_keys' \in KeyMaps
      /\ Owners(thread_keys') \subseteq Owners(thread_keys) \cup {0, Running}
  BY <1>1, <1>3, WithKey, WithoutKey, EmptyKeys
<1>6. KeysOK'
  BY <1>1, <1>4, <1>5, KeysChanged
<1>7. StateTyped' /\ KeysTyped'
  BY <1>1, <1>2, <1>4, <1>5 DEF StateTyped, KeysTyped, KeyMaps
<1>8. QED
  BY <1>6, <1>7 DEF KeyInv

LEMMA ClearStateKeeps ==
  ASSUME KeyInv, NEW l \in Loggers, ClearState(l)
  PROVE  KeyInv'
PROOF
<1>1. /\ UNCHANGED <<app, mode, cold, traces, level>>
      /\ StructureLogs(l, Empty) /\ StateTyped /\ KeysTyped /\ KeysOK
      /\ log_format \in KeyMaps /\ keys_combined \in KeyMaps /\ thread_keys \in KeyMaps
      /\ in_context' \in BOOLEAN
  BY DEF ClearState, StructureLogs, KeyStep, KeyInv, KeysTyped
<1>2. Running' = Running /\ (Decorated' <=> Decorated) /\ KeyMaps' = KeyMaps
  BY <1>1 DEF Running, Decorated, KeyMaps
<1>3. CASE l = "service"
  <2>1. log_format' = Over(Empty, keys_combined) /\ thread_keys' = Empty /\ keys_combined' = keys_combined
    BY <1>1, <1>3 DEF StructureLogs
  <2>2. /\ log_format' \in KeyMaps /\ Owners(log_format') \subseteq Owners(keys_combined)
        /\ Request(log_format') = Request(keys_combined)
    <3>1. "function_request_id" \notin DOMAIN Empty
      BY DEF Empty
    <3>2. QED
      BY <1>1, <2>1, <3>1, OverKeys, EmptyKeys
  <2>3. KeysOK'
    <3>1. KeysReset => KeysReset'
      BY <1>1, <2>1 DEF KeysReset
    <3>2. KeysCurrent => KeysCurrent'
      BY <1>1, <1>2, <2>1, <2>2, EmptyKeys DEF KeysCurrent
    <3>3. QED
      BY <1>1, <1>2, <3>1, <3>2 DEF KeysOK
  <2>4. StateTyped' /\ KeysTyped'
    BY <1>1, <1>2, <2>1, <2>2, EmptyKeys DEF StateTyped, KeysTyped
  <2>5. QED
    BY <2>3, <2>4 DEF KeyInv
<1>4. CASE l = "child"
  <2>1. log_format' = Empty /\ thread_keys' = thread_keys /\ keys_combined' = Empty
    BY <1>1, <1>4 DEF StructureLogs
  <2>2. KeysReset'
    BY <2>1, EmptyKeys DEF KeysReset
  <2>3. KeysCurrent => KeysCurrent'
    BY <1>1, <1>2, <2>1, EmptyKeys DEF KeysCurrent
  <2>4. KeysOK'
    BY <1>1, <1>2, <2>2, <2>3 DEF KeysOK
  <2>5. StateTyped' /\ KeysTyped'
    BY <1>1, <1>2, <2>1, EmptyKeys DEF StateTyped, KeysTyped
  <2>6. QED
    BY <2>4, <2>5 DEF KeyInv
<1>5. QED
  BY <1>3, <1>4 DEF Loggers

LEMMA BeginKeys ==
  ASSUME KeyInv, NEW t \in Traces, Begin(t)
  PROVE  KeyInv' /\ Running' = Len(traces) + 1 /\ Len(traces') = Len(traces) + 1
PROOF
<1>1. PICK i : i = Len(traces)'
  OBVIOUS
<1>2. /\ app' = app /\ mode' = "handler" /\ cold' = FALSE /\ in_context' \in BOOLEAN
      /\ traces' = Append(traces, t) /\ Len(traces) < app.invocations
      /\ StateTyped /\ KeysTyped /\ KeysOK
      /\ log_format \in KeyMaps /\ keys_combined \in KeyMaps /\ thread_keys \in KeyMaps
  BY DEF Begin, StructureLogs, KeyInv, KeysTyped
<1>3. /\ i = Len(traces) + 1 /\ i \in 0 .. app.invocations /\ Running' = i
      /\ (Decorated' <=> Decorated) /\ KeyMaps' = KeyMaps
  BY <1>1, <1>2, State DEF Running, Decorated, KeyMaps, StateTyped
<1>4. PICK context : context = ContextKeys(i)
  OBVIOUS
<1>5. /\ context \in KeyMaps /\ Owners(context) \subseteq {i}
      /\ Request(context) = i /\ "function_request_id" \in DOMAIN context
  BY <1>2, <1>3, <1>4, GivenKeys DEF StateTyped
<1>6. IF Decorated /\ app.clear_state
      THEN StructureLogs(app.decorator, context)
      ELSE /\ log_format' = IF Decorated THEN Over(context, log_format) ELSE log_format
           /\ UNCHANGED <<keys_combined, thread_keys>>
  BY <1>1, <1>4 DEF Begin
<1>7. StateTyped'
  <2>1. level' \in [Loggers -> Levels]
    <3>1. SampledLevels \subseteq Levels /\ level \in [Loggers -> Levels]
      BY <1>2, State DEF StateTyped
    <3>2. level' = level \/ \E lvl \in SampledLevels : level' = [level EXCEPT ![app.decorator] = lvl]
      BY DEF Begin
    <3>3. QED
      BY <3>1, <3>2
  <2>2. traces' \in Seq(Traces) /\ Len(traces') <= app.invocations
    BY <1>1, <1>2, <1>3 DEF StateTyped
  <2>3. QED
    BY <1>2, <2>1, <2>2 DEF StateTyped
<1>8. CASE Decorated /\ app.clear_state
  <2>1. app.decorator \in Loggers
    BY <1>2, <1>8, State DEF Decorated
  <2>2. CASE app.decorator = "service"
    <3>1. log_format' = Over(context, keys_combined) /\ thread_keys' = Empty
          /\ keys_combined' = keys_combined
      BY <1>6, <1>8, <2>2 DEF StructureLogs
    <3>2. /\ log_format' \in KeyMaps /\ Request(log_format') = i
          /\ Owners(log_format') \subseteq {i} \cup Owners(keys_combined)
      BY <1>2, <1>5, <3>1, OverKeys
    <3>3. KeysReset /\ Request(keys_combined) = 0 /\ Owners(keys_combined) \subseteq {0}
      BY <1>2, <1>8, <2>2 DEF KeysOK, KeysReset
    <3>4. KeysReset' /\ KeysCurrent'
      BY <1>2, <1>3, <3>1, <3>2, <3>3, EmptyKeys DEF KeysReset, KeysCurrent
    <3>5. KeysTyped'
      BY <1>2, <1>3, <3>1, <3>2, EmptyKeys DEF KeysTyped
    <3>6. QED
      BY <1>1, <1>3, <1>7, <3>4, <3>5 DEF KeyInv, KeysOK
  <2>3. CASE app.decorator = "child"
    <3>1. log_format' = context /\ keys_combined' = context /\ thread_keys' = thread_keys
      BY <1>6, <1>8, <2>3 DEF StructureLogs
    <3>2. KeysReset' /\ KeysCurrent'
      BY <1>2, <1>3, <1>5, <1>8, <2>3, <3>1 DEF KeysReset, KeysCurrent
    <3>3. KeysTyped'
      BY <1>2, <1>3, <1>5, <3>1 DEF KeysTyped
    <3>4. QED
      BY <1>1, <1>3, <1>7, <3>2, <3>3 DEF KeyInv, KeysOK
  <2>4. QED
    BY <2>1, <2>2, <2>3 DEF Loggers
<1>9. CASE Decorated /\ ~app.clear_state
  <2>1. log_format' = Over(context, log_format) /\ UNCHANGED <<keys_combined, thread_keys>>
    BY <1>6, <1>9
  <2>2. log_format' \in KeyMaps /\ Request(log_format') = i
    BY <1>2, <1>5, <2>1, OverKeys
  <2>3. KeysReset' /\ KeysCurrent'
    BY <1>2, <1>3, <1>9, <2>1, <2>2 DEF KeysReset, KeysCurrent, KeysOK
  <2>4. KeysTyped'
    BY <1>2, <1>3, <2>1, <2>2 DEF KeysTyped
  <2>5. QED
    BY <1>1, <1>3, <1>7, <2>3, <2>4 DEF KeyInv, KeysOK
<1>10. CASE ~Decorated
  <2>1. UNCHANGED <<log_format, keys_combined, thread_keys>>
    BY <1>6, <1>10
  <2>2. KeysTyped'
    BY <1>2, <1>3, <2>1 DEF KeysTyped
  <2>3. QED
    BY <1>1, <1>3, <1>7, <1>10, <2>2 DEF KeyInv, KeysOK
<1>11. QED
  BY <1>8, <1>9, <1>10

LEMMA UnwoundKeys ==
  ASSUME KeysTyped
  PROVE  /\ Unwound \in KeyMaps /\ Owners(Unwound) \subseteq Owners(log_format)
         /\ Request(Unwound) = Request(log_format)
BY WithoutKey DEF Unwound, KeysTyped

LEMMA EndedKeys ==
  ASSUME KeyInv, Ended
  PROVE  KeyInv' /\ Running' = 0
PROOF
<1>1. /\ UNCHANGED <<app, cold, traces, level, keys_combined, thread_keys>>
      /\ mode' = "idle" /\ in_context' = FALSE /\ log_format' = Unwound
      /\ StateTyped /\ KeysTyped /\ KeysOK
  BY DEF Ended, KeyInv
<1>2. StateTyped' /\ KeysTyped'
  <2>1. KeyMaps' = KeyMaps /\ Unwound \in KeyMaps
    BY <1>1, UnwoundKeys DEF KeyMaps
  <2>2. QED
    BY <1>1, <2>1 DEF StateTyped, KeysTyped
<1>3. KeysOK'
  BY <1>1 DEF KeysOK, KeysReset, Decorated
<1>4. QED
  BY <1>1, <1>2, <1>3 DEF KeyInv, Running

LEMMA InitKeys ==
  ASSUME Init
  PROVE  KeyInv /\ Running = 0
PROOF
<1>1. /\ app \in Apps /\ app \in AppType /\ mode = "init" /\ cold = TRUE /\ traces = <<>>
      /\ in_context = FALSE /\ thread_keys = Empty
      /\ log_format = ConstructorKeys /\ keys_combined = ConstructorKeys
      /\ level \in {LevelsWith(lvl) : lvl \in SampledLevels}
  BY AppsAssumption DEF Init, Fresh
<1>2. Running = 0 /\ app.invocations \in Nat
  BY <1>1 DEF Running, AppType
<1>3. level \in [Loggers -> Levels]
  BY <1>1 DEF LevelsWith, SampledLevels, Levels, Severity, AppType
<1>4. KeysOK /\ KeysTyped
  BY <1>1, <1>2, GivenKeys, EmptyKeys DEF KeysOK, KeysReset, KeysCurrent, KeysTyped
<1>5. StateTyped
  BY <1>1, <1>2, <1>3 DEF StateTyped
<1>6. QED
  BY <1>2, <1>4, <1>5 DEF KeyInv

LEMMA RestartKeys ==
  ASSUME KeyInv, Restart
  PROVE  KeyInv' /\ Running' = 0
PROOF
<1>1. /\ app' = app /\ traces' = traces /\ mode' = "init" /\ cold' = TRUE
      /\ in_context' = FALSE /\ thread_keys' = Empty
      /\ log_format' = ConstructorKeys /\ keys_combined' = ConstructorKeys
      /\ \E lvl \in SampledLevels : level' = LevelsWith(lvl)
      /\ StateTyped /\ app \in AppType /\ app \in Apps
  BY AppsAssumption DEF Restart, KeyInv, StateTyped
<1>2. Running' = 0 /\ KeyMaps' = KeyMaps
  BY <1>1 DEF Running, KeyMaps
<1>3. level' \in [Loggers -> Levels]
  BY <1>1, State DEF LevelsWith
<1>4. KeysOK' /\ KeysTyped'
  BY <1>1, <1>2, GivenKeys, EmptyKeys DEF KeysOK, KeysReset, KeysCurrent, KeysTyped
<1>5. StateTyped'
  BY <1>1, <1>3 DEF StateTyped
<1>6. QED
  BY <1>2, <1>4, <1>5 DEF KeyInv

LEMMA KeysStay ==
  ASSUME KeyInv, UNCHANGED <<app, mode, cold, traces, level, key_vars>>
  PROVE  KeyInv' /\ Running' = Running /\ TracerId' = TracerId
BY DEF key_vars, KeyInv, StateTyped, KeysTyped, KeysOK, KeysReset, KeysCurrent, Running, Decorated,
   KeyMaps, TracerId, TraceOf

------------------------------------------------------------------------------
(* Buffers *)

LEMMA Room ==
  ASSUME NEW kb \in KeyBufferType, NEW size \in 1 .. MaxBytes,
         Sized(kb.cache, records), kb.current_size = Total(kb.cache, records)
  PROVE  /\ Evictions(kb, size) \in 0 .. Len(kb.cache)
         /\ RemoveOldest(kb, Evictions(kb, size)).current_size + size <= MaxBytes
PROOF
<1> DEFINE Fits(n) == n = Len(kb.cache) \/ RemoveOldest(kb, n).current_size + size <= MaxBytes
           enough == {n \in 0 .. Len(kb.cache) : Fits(n)}
           P(n) == \A m \in enough : n <= m
<1>1. Len(kb.cache) \in Nat /\ kb.cache \in Seq(Nat) /\ MaxBytes \in Nat
  BY BytesAssumption DEF KeyBufferType
<1>2. enough \in SUBSET Nat /\ enough # {}
  BY <1>1
<1>3. Evictions(kb, size) = CHOOSE n \in enough : P(n)
  BY DEF Evictions
<1>4. Evictions(kb, size) \in enough
  <2>1. \E n \in enough : P(n)
    <3> HIDE DEF enough
    <3>1. QED
      BY <1>2, Least
  <2> HIDE DEF enough, P
  <2>2. QED
    BY <1>3, <2>1
<1>5. RemoveOldest(kb, Len(kb.cache)).current_size + size <= MaxBytes
  <2>1. PICK n : n = Len(kb.cache)
    OBVIOUS
  <2>2. PICK v : v = SubSeq(kb.cache, n + 1, Len(kb.cache))
    OBVIOUS
  <2>3. /\ Sized(v, records) /\ Len(v) = 0
        /\ Total(v, records) = kb.current_size - Total(SubSeq(kb.cache, 1, n), records)
    BY <1>1, <2>1, <2>2, TotalRest, Cut
  <2>4. Total(v, records) = 0
    BY <2>3, TotalPositive
  <2>5. RemoveOldest(kb, n).current_size = kb.current_size - Total(SubSeq(kb.cache, 1, n), records)
    BY DEF RemoveOldest
  <2>6. QED
    BY <1>1, <2>1, <2>3, <2>4, <2>5
<1>6. PICK n \in 0 .. Len(kb.cache) : n = Evictions(kb, size) /\ Fits(n)
  BY <1>4
<1>7. QED
  BY <1>5, <1>6

\* new is kb with r, and without its n oldest records; log: the records with r.
Newer(kb, n, r, log, new) ==
  /\ new \in KeyBufferType
  /\ new.cache = Append(SubSeq(kb.cache, n + 1, Len(kb.cache)), r)
  /\ new.current_size = Total(new.cache, log) /\ new.current_size <= MaxBytes
  /\ kb.has_evicted \/ n > 0 => new.has_evicted

LEMMA AddedBuffer ==
  ASSUME NEW kb \in KeyBufferType, NEW r \in Nat, NEW size \in 1 .. MaxBytes, NEW log,
         Sized(kb.cache, records), kb.current_size = Total(kb.cache, records),
         Sized(kb.cache, log), SameSizes(kb.cache, records, kb.cache, log, Len(kb.cache)),
         log[r].size = size, NEW new, new = KeyBufferAdd(kb, r, size)
  PROVE  \E n \in 0 .. Len(kb.cache) : Newer(kb, n, r, log, new)
PROOF
<1>1. PICK n : n = Evictions(kb, size)
  OBVIOUS
<1>2. PICK room : room = RemoveOldest(kb, n)
  OBVIOUS
<1>3. n \in 0 .. Len(kb.cache) /\ room.current_size + size <= MaxBytes
  BY <1>1, <1>2, Room
<1>4. PICK v : v = SubSeq(kb.cache, n + 1, Len(kb.cache))
  OBVIOUS
<1>5. kb.cache \in Seq(Nat) /\ kb.current_size \in Int /\ kb.has_evicted \in BOOLEAN
  BY DEF KeyBufferType
<1>6. /\ v \in Seq(Nat) /\ Sized(v, records)
      /\ Total(v, records) = Total(kb.cache, records) - Total(SubSeq(kb.cache, 1, n), records)
  BY <1>3, <1>4, <1>5, TotalRest
<1>7. room = [cache |-> v, current_size |-> Total(v, records), has_evicted |-> kb.has_evicted \/ n > 0]
  BY <1>2, <1>4, <1>6 DEF RemoveOldest
<1>8. /\ new.cache = Append(v, r) /\ new.current_size = Total(v, records) + size
      /\ new.has_evicted = (kb.has_evicted \/ n > 0)
      /\ new = [cache |-> new.cache, current_size |-> new.current_size, has_evicted |-> new.has_evicted]
  <2>1. new = [room EXCEPT !.cache = Append(@, r), !.current_size = @ + size]
    BY <1>1, <1>2 DEF KeyBufferAdd
  <2>2. QED
    BY <1>7, <2>1
<1>9. Sized(v, log) /\ SameSizes(v, records, v, log, Len(v))
  <2>1. /\ Len(v) = Len(kb.cache) - n /\ Len(kb.cache) \in Nat
        /\ \A i \in 1 .. Len(kb.cache) - n : v[i] = kb.cache[n + i]
    BY <1>3, <1>4, <1>5, Cut
  <2>2. ASSUME NEW i \in 1 .. Len(v)
        PROVE log[v[i]].size \in Nat \ {0} /\ records[v[i]].size = log[v[i]].size
    <3>1. n + i \in 1 .. Len(kb.cache) /\ v[i] = kb.cache[n + i]
      BY <1>3, <2>1
    <3>2. QED
      BY <3>1 DEF Sized, SameSizes
  <2>3. QED
    BY <1>6, <2>2 DEF Sized, SameSizes
<1>10. Total(v, log) = Total(v, records)
  BY <1>6, <1>9, TotalSame
<1>11. Total(Append(v, r), log) = Total(v, log) + size
  BY <1>6, <1>9, TotalAppend
<1>12. Total(v, records) \in Nat
  BY <1>6, TotalPositive
<1>13. new \in KeyBufferType
  <2>1. new.cache \in Seq(Nat) /\ new.current_size \in Int /\ new.has_evicted \in BOOLEAN
    BY <1>5, <1>6, <1>8, <1>12
  <2>2. QED
    BY <1>8, <2>1 DEF KeyBufferType
<1>14. QED
  BY <1>3, <1>4, <1>7, <1>8, <1>10, <1>11, <1>13 DEF Newer

------------------------------------------------------------------------------
(* What stays when there are more records, lines or invocations *)

Grows ==
  /\ app' = app
  /\ \A r \in DOMAIN records : r \in DOMAIN records' /\ records'[r] = records[r]
  /\ \A i \in 0 .. Len(traces) : TraceOf(i)' = TraceOf(i)

\* No new line is of a buffered record of m.
SilentFor(m) ==
  \A i \in DOMAIN emitted' :
    \/ i \in DOMAIN emitted /\ emitted'[i] = emitted[i]
    \/ LET f == records'[emitted'[i].record] IN ~(f.logger = m /\ f.buffered)

LEMMA BufferStays ==
  ASSUME RecordsOK, Grows, NEW kb, NEW t, BufferOK(kb, t)
  PROVE  BufferOK(kb, t)' /\ Sized(kb.cache, records) /\ Sized(kb.cache, records')
         /\ SameSizes(kb.cache, records, kb.cache, records', Len(kb.cache))
PROOF
<1>1. PICK s : s = kb.cache
  OBVIOUS
<1>2. /\ s \in Seq(Nat) /\ Len(s) \in Nat /\ DOMAIN s = 1 .. Len(s)
      /\ kb.current_size = Total(s, records)
  BY <1>1 DEF BufferOK, KeyBufferType
<1>3. ASSUME NEW i \in 1 .. Len(s)
      PROVE  /\ records[s[i]] \in RecordType /\ records'[s[i]] = records[s[i]]
             /\ s[i] \in DOMAIN records' /\ TraceOf(records[s[i]].inv)' = t
  <2>1. s[i] \in DOMAIN records /\ TraceOf(records[s[i]].inv) = t
    BY <1>1, <1>2, <1>3 DEF BufferOK
  <2>2. records[s[i]] \in RecordType /\ records[s[i]].inv <= Len(traces)
    BY <2>1 DEF RecordsOK
  <2>3. PICK j \in 0 .. Len(traces) : j = records[s[i]].inv
    <3>1. records[s[i]].inv \in Nat
      BY <2>2 DEF RecordType
    <3>2. QED
      BY <2>2, <3>1
  <2>4. s[i] \in DOMAIN records' /\ records'[s[i]] = records[s[i]]
    BY <2>1 DEF Grows
  <2>5. TraceOf(j)' = t
    BY <2>1, <2>3 DEF Grows
  <2>6. TraceOf(records[s[i]].inv)' = t
    BY <2>3, <2>4, <2>5 DEF TraceOf
  <2>7. QED
    BY <2>2, <2>4, <2>6
<1>4. Sized(s, records) /\ Sized(s, records') /\ SameSizes(s, records, s, records', Len(s))
  BY <1>2, <1>3 DEF Sized, SameSizes, RecordType
<1>5. Total(s, records') = Total(s, records)
  BY <1>4, TotalSame
<1>6. BufferOK(kb, t)'
  BY <1>1, <1>2, <1>3, <1>5 DEF BufferOK
<1>7. QED
  BY <1>1, <1>4, <1>6

LEMMA WaitingStays ==
  ASSUME RecordsOK, LinesOK, Grows, NEW m \in Loggers, NEW r \in DOMAIN records, Waiting(m, r),
         SilentFor(m), m = app.decorator => mode' = mode /\ Running' = Running
  PROVE  Waiting(m, r)'
PROOF
<1>1. records'[r] = records[r] /\ app' = app
  BY DEF Grows
<1>2. ASSUME NEW i \in DOMAIN emitted'
      PROVE  LET f == records'[emitted'[i].record]
             IN emitted'[i].record # r /\ (f.logger = m /\ f.buffered => emitted'[i].record < r)
  <2>1. CASE i \in DOMAIN emitted /\ emitted'[i] = emitted[i]
    <3>1. emitted[i].record \in DOMAIN records
      BY <2>1 DEF LinesOK
    <3>2. records'[emitted[i].record] = records[emitted[i].record]
      BY <3>1 DEF Grows
    <3>3. QED
      BY <2>1, <3>2 DEF Waiting
  <2>2. CASE LET f == records'[emitted'[i].record] IN ~(f.logger = m /\ f.buffered)
    BY <1>1, <2>2 DEF Waiting
  <2>3. QED
    BY <2>1, <2>2 DEF SilentFor
<1>3. QED
  BY <1>1, <1>2 DEF Waiting

LEMMA CacheStays ==
  ASSUME RecordsOK, LinesOK, Grows, NEW m \in Loggers, CacheOK(m), caches'[m] = caches[m],
         SilentFor(m), m = app.decorator => mode' = mode /\ Running' = Running
  PROVE  CacheOK(m)'
PROOF
<1>1. DOMAIN caches[m] # {} => Buffering'
  BY DEF CacheOK, Buffering, Grows
<1>2. ASSUME NEW t \in DOMAIN caches[m]
      PROVE  /\ BufferOK(caches[m][t], t)'
             /\ \A i \in DOMAIN caches[m][t].cache : Waiting(m, caches[m][t].cache[i])'
  <2>1. PICK kb : kb = caches[m][t]
    OBVIOUS
  <2>2. /\ BufferOK(kb, t)
        /\ \A i \in DOMAIN kb.cache : kb.cache[i] \in DOMAIN records /\ Waiting(m, kb.cache[i])
    BY <2>1 DEF CacheOK, BufferOK
  <2>3. BufferOK(kb, t)'
    BY <2>2, BufferStays
  <2>4. ASSUME NEW i \in DOMAIN kb.cache PROVE Waiting(m, kb.cache[i])'
    <3>1. PICK r \in DOMAIN records : r = kb.cache[i] /\ Waiting(m, r)
      BY <2>2
    <3>2. Waiting(m, r)'
      BY <3>1, WaitingStays
    <3>3. QED
      BY <3>1, <3>2
  <2>5. caches'[m][t] = kb
    BY <2>1
  <2>6. BufferOK(caches[m][t], t)'
    BY <2>3, <2>5 DEF BufferOK
  <2>7. ASSUME NEW i \in DOMAIN caches[m][t].cache PROVE Waiting(m, caches[m][t].cache[i])'
    BY <2>1, <2>4, <2>5, <2>7 DEF Waiting
  <2>8. QED
    BY <2>6, <2>7
<1>3. QED
  BY <1>1, <1>2 DEF CacheOK

LEMMA CacheEmpty ==
  ASSUME NEW m, caches'[m] = Empty
  PROVE  CacheOK(m)'
PROOF
<1>1. DOMAIN caches'[m] = {}
  BY DEF Empty
<1>2. QED
  BY <1>1 DEF CacheOK

LEMMA LostStays ==
  ASSUME NEW m \in Loggers, mode' = mode, TracerId' = TracerId, caches'[m] = caches[m],
         LostOldest(m), Pending(m)' \subseteq Pending(m)
  PROVE  LostOldest(m)'
PROOF
<1>1. Kept(m)' = Kept(m) /\ caches'[m][TracerId'] = caches[m][TracerId]
  BY DEF Kept, Get
<1>2. Lost(m)' \subseteq Lost(m)
  BY <1>1 DEF Lost
<1>3. QED
  BY <1>1, <1>2 DEF LostOldest

LEMMA LostNone ==
  ASSUME NEW m, mode' = "handler" => Pending(m)' = {}
  PROVE  LostOldest(m)'
BY DEF LostOldest, Lost

------------------------------------------------------------------------------
(* Printing *)

\* Keys a decorated handler may print with.
CurrentKeys(keys) ==
  Decorated =>
    /\ Request(keys) \in {0, Running}
    /\ app.clear_state => /\ Owners(keys) \subseteq {0, Running}
                          /\ app.decorator = "service" => Owners(thread_keys) \subseteq {0, Running}

\* l may print the record r of those there are after the step.
Printable(l, r) ==
  /\ r \in DOMAIN records' /\ records'[r].logger = l
  /\ TraceOf(records'[r].inv) = TracerId
  /\ records'[r].inv = Running \/ (records'[r].buffered /\ l # app.decorator)
  /\ \A i \in DOMAIN emitted :
       LET f == records[emitted[i].record]
       IN /\ emitted[i].record # r
          /\ f.logger = l /\ f.buffered /\ records'[r].buffered => emitted[i].record < r

\* A line by itself, after those before it.
OwnLine(i) ==
  LET e == emitted[i]
      r == records[e.record]
  IN /\ r.inv = e.inv \/ (Lingers(r) /\ TraceOf(r.inv) = TraceOf(e.inv))
     /\ \A j \in 1 .. i - 1 :
          LET f == emitted[j]
          IN /\ f.record # e.record
             /\ records[f.record].buffered /\ r.buffered /\ records[f.record].logger = r.logger
                  => f.record < e.record
     /\ Decorated => e.request \in {0, e.inv}
     /\ Decorated /\ app.clear_state =>
          e.keys \cup (IF app.decorator = "child" THEN {} ELSE e.thread) \subseteq {0, e.inv}

LEMMA OwnLines == EmittedByOwner <=> \A i \in DOMAIN emitted : OwnLine(i)
BY DEF EmittedByOwner, OwnLine

Rising(s) == \A i, j \in DOMAIN s : i < j => s[i] < s[j]

LEMMA LinesTyped ==
  ASSUME KeyInv, NEW s \in Seq(Nat), NEW keys \in KeyMaps
  PROVE  LET lines == Lines(s, keys)
         IN /\ lines \in Seq(LineType) /\ Len(lines) = Len(s)
            /\ Len(s) \in Nat /\ DOMAIN s = 1 .. Len(s)
            /\ \A k \in 1 .. Len(s) :
                 /\ s[k] \in Nat /\ lines[k] = Line(s[k], keys)
                 /\ lines[k].record = s[k] /\ lines[k].inv = Running
                 /\ lines[k].keys = Owners(keys) /\ lines[k].thread = Owners(thread_keys)
                 /\ lines[k].request = Request(keys)
PROOF
<1>2. Running \in 0 .. Len(traces) /\ Len(traces) \in Nat /\ app.invocations \in Nat
      /\ app.decorator \in Loggers \cup {Never}
  BY State DEF KeyInv
<1>3. /\ Owners(keys) \subseteq Nat /\ Owners(thread_keys) \subseteq Nat /\ Request(keys) \in Nat
  <2>1. thread_keys \in KeyMaps
    BY DEF KeyInv, KeysTyped
  <2>2. QED
    BY <1>2, <2>1, KeyMap DEF Request
<1>4. PICK lines : lines = Lines(s, keys)
  OBVIOUS
<1>5. /\ DOMAIN lines = 1 .. Len(s) /\ Len(s) \in Nat /\ DOMAIN s = 1 .. Len(s)
      /\ \A k \in 1 .. Len(s) : s[k] \in Nat /\ lines[k] = Line(s[k], keys)
  BY <1>4 DEF Lines
<1>6. \A k \in 1 .. Len(s) :
        /\ lines[k] \in LineType /\ lines[k].record = s[k] /\ lines[k].inv = Running
        /\ lines[k].keys = Owners(keys) /\ lines[k].thread = Owners(thread_keys)
        /\ lines[k].request = Request(keys)
  BY <1>2, <1>3, <1>5 DEF Line, LineType, Request
<1>7. lines \in Seq(LineType) /\ Len(lines) = Len(s)
  <2>1. lines \in [1 .. Len(s) -> LineType]
    <3>1. lines = [k \in DOMAIN lines |-> lines[k]]
      BY <1>4 DEF Lines
    <3>2. QED
      BY <1>5, <1>6, <3>1
  <2>2. lines \in Seq(LineType)
    <3>1. PICK m \in Nat : m = Len(s)
      BY <1>5
    <3>2. lines \in [1 .. m -> LineType]
      BY <2>1, <3>1
    <3>3. lines \in UNION {[1 .. k -> LineType] : k \in Nat}
      BY <3>2
    <3>4. QED
      BY <3>3, SeqDef
  <2>3. Len(lines) \in Nat /\ DOMAIN lines = 1 .. Len(lines)
    BY <2>2
  <2>4. QED
    BY <1>5, <2>2, <2>3
<1>8. QED
  BY <1>4, <1>5, <1>6, <1>7

LEMMA LineOK ==
  ASSUME LinesOK, NEW i \in DOMAIN emitted
  PROVE  /\ emitted[i] \in LineType
         /\ emitted[i].record \in DOMAIN records /\ emitted[i].inv <= Len(traces)
PROOF
<1>1. PICK q \in Seq(LineType) : q = emitted
  BY DEF LinesOK
<1>2. q[i] \in LineType
  <2> HIDE DEF LineType
  <2>1. i \in DOMAIN q
    BY <1>1
  <2>2. QED
    BY <2>1
<1>3. QED
  BY <1>1, <1>2 DEF LinesOK

LEMMA Printing ==
  ASSUME KeyInv, RecordsOK, LinesOK, EmittedByOwner, Grows, traces' = traces,
         NEW l \in Loggers, NEW s \in Seq(Nat), NEW keys \in KeyMaps, CurrentKeys(keys),
         emitted' = emitted \o Lines(s, keys),
         \A i \in DOMAIN s : Printable(l, s[i]), Rising(s)
  PROVE  /\ LinesOK' /\ EmittedByOwner'
         /\ \A m : (\A k \in DOMAIN s : ~(records'[s[k]].logger = m /\ records'[s[k]].buffered))
                  => SilentFor(m)
PROOF
<1>1. PICK n \in Nat : n = Len(emitted) /\ DOMAIN emitted = 1 .. n /\ emitted \in Seq(LineType)
  BY DEF LinesOK
<1>2. Running \in 0 .. Len(traces) /\ Len(traces) \in Nat /\ app.invocations \in Nat
      /\ app.decorator \in Loggers \cup {Never}
  BY State DEF KeyInv
<1>4. PICK lines : lines = Lines(s, keys)
  OBVIOUS
<1>5. Len(s) \in Nat /\ DOMAIN s = 1 .. Len(s) /\ \A k \in 1 .. Len(s) : s[k] \in Nat
  BY <1>4, LinesTyped
<1>6. \A k \in 1 .. Len(s) :
        /\ lines[k].record = s[k] /\ lines[k].inv = Running
        /\ lines[k].keys = Owners(keys) /\ lines[k].thread = Owners(thread_keys)
        /\ lines[k].request = Request(keys)
  BY <1>4, LinesTyped
<1>7. lines \in Seq(LineType) /\ Len(lines) = Len(s)
  BY <1>4, LinesTyped
<1>8. /\ emitted' \in Seq(LineType) /\ DOMAIN emitted' = 1 .. n + Len(s)
      /\ \A i \in 1 .. n : emitted'[i] = emitted[i]
      /\ \A k \in 1 .. Len(s) : emitted'[n + k] = lines[k]
  <2>1. emitted' = emitted \o lines
    BY <1>4
  <2>2. PICK m \in Nat : m = Len(s) /\ m = Len(lines)
    BY <1>5, <1>7
  <2>3. /\ emitted' \in Seq(LineType) /\ Len(emitted') = n + m
        /\ \A i \in 1 .. n + m : emitted'[i] = IF i <= n THEN emitted[i] ELSE lines[i - n]
    <3>1. /\ emitted \o lines \in Seq(LineType) /\ Len(emitted \o lines) = Len(emitted) + Len(lines)
          /\ \A i \in 1 .. Len(emitted) + Len(lines) :
               (emitted \o lines)[i] = IF i <= Len(emitted) THEN emitted[i] ELSE lines[i - Len(emitted)]
      <4>1. emitted \in Seq(LineType) /\ lines \in Seq(LineType)
        BY <1>1, <1>7
      <4>2. QED
        BY <4>1, ConcatProperties, Zenon
    <3>2. Len(emitted) = n /\ Len(lines) = m
      BY <1>1, <2>2
    <3>3. QED
      BY <2>1, <3>1, <3>2
  <2>4. DOMAIN emitted' = 1 .. n + m
    BY <2>3
  <2>5. \A k \in 1 .. m : n + k \in 1 .. n + m /\ ~(n + k <= n) /\ n + k - n = k
    OBVIOUS
  <2>6. \A k \in 1 .. n : k \in 1 .. n + m /\ k <= n
    OBVIOUS
  <2>7. QED
    BY <2>2, <2>3, <2>4, <2>5, <2>6
<1>9. ASSUME NEW i \in 1 .. n + Len(s), i > n
      PROVE  \E k \in 1 .. Len(s) : i = n + k /\ emitted'[i] = lines[k]
  <2>1. i - n \in 1 .. Len(s) /\ i = n + (i - n)
    BY <1>1, <1>5, <1>9
  <2>2. QED
    BY <1>8, <2>1
<1>10. ASSUME NEW i \in 1 .. n
       PROVE  /\ emitted[i].record \in DOMAIN records /\ emitted[i].inv <= Len(traces)
              /\ records'[emitted[i].record] = records[emitted[i].record]
              /\ emitted[i].record \in DOMAIN records' /\ emitted[i].record \in Nat
  <2>1. emitted[i] \in LineType /\ emitted[i].record \in DOMAIN records /\ emitted[i].inv <= Len(traces)
    BY <1>1, LineOK
  <2>2. QED
    BY <2>1 DEF Grows, LineType
<1>11. LinesOK'
  <2>1. ASSUME NEW i \in 1 .. n + Len(s)
        PROVE emitted'[i].record \in DOMAIN records' /\ emitted'[i].inv <= Len(traces)
    <3>1. CASE i \in 1 .. n
      BY <1>8, <1>10, <3>1
    <3>2. CASE i > n
      <4>1. PICK k \in 1 .. Len(s) : emitted'[i] = lines[k]
        BY <1>9, <3>2
      <4>2. s[k] \in DOMAIN records'
        BY <1>5 DEF Printable
      <4>3. emitted'[i].record = s[k] /\ emitted'[i].inv = Running
        BY <1>6, <4>1
      <4>4. QED
        BY <1>2, <4>2, <4>3
    <3>3. i \in 1 .. n \/ i > n
      BY <1>1, <1>5
    <3>4. QED
      BY <3>1, <3>2, <3>3
  <2>2. QED
    BY <1>8, <2>1 DEF LinesOK
<1>12. \A x : TraceOf(x)' = TraceOf(x)
  BY DEF TraceOf
<1>13. app' = app /\ (Decorated' <=> Decorated)
  BY DEF Grows, Decorated
<1>14. ASSUME NEW i \in 1 .. n PROVE OwnLine(i)'
  <2>1. OwnLine(i)
    BY <1>1, OwnLines
  <2>2. PICK e : e = emitted[i] /\ e = emitted'[i]
    BY <1>8
  <2>3. PICK r : r = records[e.record] /\ r = records'[e.record]
    BY <1>10, <2>2
  <2>4. /\ r.inv = e.inv \/ (Lingers(r) /\ TraceOf(r.inv) = TraceOf(e.inv))
        /\ Decorated => e.request \in {0, e.inv}
        /\ Decorated /\ app.clear_state =>
             e.keys \cup (IF app.decorator = "child" THEN {} ELSE e.thread) \subseteq {0, e.inv}
    BY <2>1, <2>2, <2>3 DEF OwnLine
  <2>5. ASSUME NEW j \in 1 .. i - 1
        PROVE  LET f == emitted'[j]
               IN /\ f.record # e.record
                  /\ records'[f.record].buffered /\ r.buffered
                     /\ records'[f.record].logger = r.logger => f.record < e.record
    <3>1. j \in 1 .. n
      BY <1>1
    <3>2. /\ emitted'[j] = emitted[j]
          /\ records'[emitted[j].record] = records[emitted[j].record]
      BY <1>8, <1>10, <3>1
    <3>3. QED
      BY <2>1, <2>2, <2>3, <3>2, ZenonT(40) DEF OwnLine
  <2>6. \/ r.inv = e.inv
        \/ Lingers(r)' /\ TraceOf(records[emitted[i].record].inv)' = TraceOf(emitted[i].inv)'
    BY <1>12, <1>13, <2>2, <2>3, <2>4 DEF TraceOf, Lingers
  <2>7. QED
    BY <1>13, <2>2, <2>3, <2>4, <2>5, <2>6 DEF OwnLine
<1>15. ASSUME NEW k \in 1 .. Len(s), NEW m, m = n + k PROVE OwnLine(m)'
  <2>1. PICK e : e = emitted'[m] /\ e = lines[k]
    BY <1>8, <1>15
  <2>2. PICK p : p = s[k] /\ p \in Nat /\ Printable(l, p) /\ e.record = p
    BY <1>5, <1>6, <2>1
  <2>3. PICK r : r = records'[p]
    OBVIOUS
  <2>4. /\ r.logger = l
        /\ r.inv = e.inv \/ (Lingers(r) /\ TraceOf(r.inv) = TraceOf(e.inv))
    BY <1>6, <2>1, <2>2, <2>3 DEF Printable, TracerId, Lingers
  <2>5. ASSUME NEW j \in 1 .. m - 1
        PROVE  LET f == emitted'[j]
               IN /\ f.record # p
                  /\ records'[f.record].buffered /\ r.buffered
                     /\ records'[f.record].logger = r.logger => f.record < p
    <3>1. CASE j \in 1 .. n
      <4>1. /\ emitted'[j] = emitted[j] /\ j \in DOMAIN emitted
            /\ records'[emitted[j].record] = records[emitted[j].record]
        BY <1>1, <1>8, <1>10, <3>1
      <4>2. QED
        BY <2>2, <2>3, <2>4, <4>1 DEF Printable
    <3>2. CASE j > n
      <4>1. j \in 1 .. n + Len(s)
        BY <1>1, <1>5, <1>15
      <4>2. PICK h \in 1 .. Len(s) : j = n + h /\ emitted'[j] = lines[h]
        BY <1>9, <3>2, <4>1
      <4>3. h < k
        BY <1>1, <1>15, <4>2
      <4>4. s[h] < s[k] /\ s[h] \in Nat
        BY <1>5, <4>3 DEF Rising
      <4>5. emitted'[j].record = s[h]
        BY <1>6, <4>2
      <4>6. QED
        BY <2>2, <4>4, <4>5
    <3>3. j \in 1 .. n \/ j > n
      BY <1>1, <1>5, <1>15
    <3>4. QED
      BY <3>1, <3>2, <3>3
  <2>6. Decorated => e.request \in {0, e.inv}
    BY <1>6, <2>1 DEF CurrentKeys
  <2>7. Decorated /\ app.clear_state =>
          e.keys \cup (IF app.decorator = "child" THEN {} ELSE e.thread) \subseteq {0, e.inv}
    <3>1. e.keys = Owners(keys) /\ e.thread = Owners(thread_keys) /\ e.inv = Running
      BY <1>6, <2>1
    <3>2. Decorated /\ app.decorator # "child" => app.decorator = "service"
      BY <1>2 DEF Loggers, Decorated
    <3>3. QED
      BY <3>1, <3>2 DEF CurrentKeys
  <2>8. \/ r.inv = e.inv
        \/ Lingers(r)' /\ TraceOf(records[emitted[m].record].inv)' = TraceOf(emitted[m].inv)'
    <3>1. records'[emitted'[m].record].inv = r.inv /\ emitted'[m].inv = e.inv
      BY <2>1, <2>2, <2>3
    <3>2. QED
      BY <1>13, <2>4, <3>1 DEF TraceOf, Lingers
  <2>9. QED
    BY <1>13, <2>1, <2>2, <2>3, <2>4, <2>5, <2>6, <2>7, <2>8 DEF OwnLine
<1>16. EmittedByOwner'
  <2>1. ASSUME NEW i \in 1 .. n + Len(s) PROVE OwnLine(i)'
    <3>1. CASE i \in 1 .. n
      BY <1>14, <3>1
    <3>2. CASE i > n
      <4>1. PICK k \in 1 .. Len(s) : i = n + k
        BY <1>9, <3>2
      <4>2. QED
        BY <1>15, <4>1
    <3>3. i \in 1 .. n \/ i > n
      BY <1>1, <1>5
    <3>4. QED
      BY <3>1, <3>2, <3>3
  <2>2. \A i \in DOMAIN emitted' : OwnLine(i)'
    BY <1>8, <2>1
  <2>3. QED
    BY <2>2 DEF EmittedByOwner, OwnLine
<1>17. ASSUME NEW m, \A k \in DOMAIN s : ~(records'[s[k]].logger = m /\ records'[s[k]].buffered)
       PROVE  SilentFor(m)
  <2>1. ASSUME NEW i \in DOMAIN emitted'
        PROVE  \/ i \in DOMAIN emitted /\ emitted'[i] = emitted[i]
               \/ LET f == records'[emitted'[i].record] IN ~(f.logger = m /\ f.buffered)
    <3>1. i \in 1 .. n \/ i > n
      BY <1>1, <1>5, <1>8
    <3>2. CASE i \in 1 .. n
      BY <1>1, <1>8, <3>2
    <3>3. CASE i > n
      <4>1. PICK k \in 1 .. Len(s) : emitted'[i] = lines[k]
        BY <1>8, <1>9, <3>3
      <4>2. emitted'[i].record = s[k]
        BY <1>6, <4>1
      <4>3. QED
        BY <1>5, <1>17, <4>2
    <3>4. QED
      BY <3>1, <3>2, <3>3
  <2>2. QED
    BY <2>1 DEF SilentFor
<1>18. QED
  BY <1>11, <1>16, <1>17

\* A step that prints nothing.
LEMMA Silent ==
  ASSUME RecordsOK, LinesOK, EmittedByOwner, Grows, emitted' = emitted, Len(traces) <= Len(traces'),
         Len(traces) \in Nat, Len(traces') \in Nat
  PROVE  LinesOK' /\ EmittedByOwner' /\ \A m : SilentFor(m)
PROOF
<1>1. ASSUME NEW i \in DOMAIN emitted
      PROVE  /\ emitted[i].record \in DOMAIN records /\ emitted[i].record \in DOMAIN records'
             /\ records'[emitted[i].record] = records[emitted[i].record]
             /\ emitted[i].inv \in 0 .. Len(traces)
             /\ records[emitted[i].record].inv \in 0 .. Len(traces)
  <2>1. emitted[i] \in LineType /\ emitted[i].record \in DOMAIN records /\ emitted[i].inv <= Len(traces)
    BY DEF LinesOK
  <2>2. records[emitted[i].record] \in RecordType /\ records[emitted[i].record].inv <= Len(traces)
    BY <2>1 DEF RecordsOK
  <2>3. emitted[i].inv \in Nat /\ records[emitted[i].record].inv \in Nat
    BY <2>1, <2>2 DEF LineType, RecordType
  <2>4. QED
    BY <2>1, <2>2, <2>3 DEF Grows
<1>2. LinesOK'
  <2>1. ASSUME NEW i \in DOMAIN emitted
        PROVE  emitted[i].record \in DOMAIN records' /\ emitted[i].inv <= Len(traces')
    BY <1>1
  <2>2. QED
    BY <2>1 DEF LinesOK
<1>3. EmittedByOwner'
  <2>1. \A i \in DOMAIN emitted : \A j \in 1 .. i - 1 : j \in DOMAIN emitted
    BY DEF LinesOK
  <2>2. app' = app /\ (Decorated' <=> Decorated)
    BY DEF Grows, Decorated
  <2>3. ASSUME NEW i \in DOMAIN emitted
        PROVE  \/ records[emitted[i].record].inv = emitted[i].inv
               \/ /\ Lingers(records[emitted[i].record])'
                  /\ TraceOf(records[emitted[i].record].inv)' = TraceOf(emitted[i].inv)'
    <3>1. PICK x \in 0 .. Len(traces) : x = records[emitted[i].record].inv
      BY <1>1
    <3>2. PICK y \in 0 .. Len(traces) : y = emitted[i].inv
      BY <1>1
    <3>3. x = y \/ (Lingers(records[emitted[i].record]) /\ TraceOf(x) = TraceOf(y))
      BY <3>1, <3>2 DEF EmittedByOwner
    <3>4. TraceOf(x)' = TraceOf(x) /\ TraceOf(y)' = TraceOf(y)
      BY DEF Grows
    <3>5. QED
      BY <1>1, <2>2, <3>1, <3>2, <3>3, <3>4 DEF TraceOf, Lingers
  <2>4. QED
    BY <1>1, <2>1, <2>2, <2>3 DEF EmittedByOwner
<1>4. QED
  BY <1>2, <1>3 DEF SilentFor

------------------------------------------------------------------------------
(* Logging *)

LEMMA Recorded ==
  ASSUME KeyInv, RecordsOK, NEW l \in Loggers, NEW size \in Nat \ {0}, NEW b \in BOOLEAN,
         b => Buffering, Record(l, size, b)
  PROVE  /\ KeyInv' /\ RecordsOK' /\ Grows
         /\ Running' = Running /\ TracerId' = TracerId /\ mode' = mode /\ traces' = traces
         /\ Next_r \in Nat /\ Next_r \notin DOMAIN records
         /\ DOMAIN records' = DOMAIN records \cup {Next_r} /\ Len(records') = Next_r
         /\ \A r \in DOMAIN records : r \in Nat /\ r < Next_r /\ records'[r] = records[r]
         /\ records'[Next_r] = [logger |-> l, size |-> size, inv |-> Running, buffered |-> b]
PROOF
<1>1. PICK rec : rec = [logger |-> l, size |-> size, inv |-> Running, buffered |-> b]
  OBVIOUS
<1>2. /\ records' = Append(records, rec) /\ Len(records) < app.records
      /\ UNCHANGED <<app, mode, cold, traces, level, key_vars>>
  BY <1>1 DEF Record
<1>3. KeyInv' /\ Running' = Running /\ TracerId' = TracerId
  BY <1>2, KeysStay
<1>4. Running \in 0 .. Len(traces) /\ Len(traces) \in Nat /\ app.records \in Nat
  BY State DEF KeyInv
<1>5. rec \in RecordType /\ rec.inv <= Len(traces) /\ rec.buffered = b
  BY <1>1, <1>4 DEF RecordType
<1>6. records \in Seq(RecordType) /\ Len(records) \in Nat /\ DOMAIN records = 1 .. Len(records)
  BY DEF RecordsOK
<1>7. /\ records' \in Seq(RecordType) /\ Len(records') = Next_r /\ Next_r \in Nat
      /\ Next_r = Len(records) + 1
      /\ DOMAIN records' = 1 .. Next_r /\ records'[Next_r] = rec
      /\ \A r \in 1 .. Len(records) : records'[r] = records[r]
  BY <1>2, <1>5, <1>6 DEF Next_r
<1>8. /\ Next_r \notin DOMAIN records /\ DOMAIN records' = DOMAIN records \cup {Next_r}
      /\ \A r \in DOMAIN records : r \in Nat /\ r < Next_r /\ records'[r] = records[r]
  BY <1>6, <1>7
<1>9. Grows
  BY <1>2, <1>6, <1>8 DEF Grows, TraceOf
<1>10. RecordsOK'
  <2>1. \A r \in DOMAIN records' :
          records'[r].inv <= Len(traces) /\ (records'[r].buffered => Buffering)
    BY <1>5, <1>7, <1>8 DEF RecordsOK
  <2>2. Len(records') <= app.records
    BY <1>2, <1>4, <1>6, <1>7
  <2>3. QED
    BY <1>2, <1>7, <2>1, <2>2 DEF RecordsOK, Buffering
<1>11. QED
  BY <1>1, <1>2, <1>3, <1>7, <1>8, <1>9, <1>10

\* A record that m does not buffer.
LEMMA PendingStays ==
  ASSUME NEW m, Running' = Running, cleared'[m] = cleared[m],
         \A r \in DOMAIN records' :
           \/ r \in DOMAIN records /\ records'[r] = records[r]
           \/ ~(records'[r].logger = m /\ records'[r].buffered)
  PROVE  Pending(m)' \subseteq Pending(m)
BY DEF Pending

LEMMA InHandler ==
  ASSUME KeyInv
  PROVE  /\ TracerId # NoTrace <=> mode = "handler" /\ Running # 0
         /\ TracerId # NoTrace => TracerId \in Traces
PROOF
<1>1. Running \in 0 .. Len(traces) /\ traces \in Seq(Traces)
  BY State DEF KeyInv, StateTyped
<1>2. Running # 0 => traces[Running] \in Traces /\ mode = "handler"
  BY <1>1 DEF Running
<1>3. QED
  BY <1>2, BytesAssumption DEF TracerId, TraceOf

\* s are records of trace t that wait for l to print them.
WaitingOf(l, t, s) ==
  \A i \in DOMAIN s : s[i] \in DOMAIN records /\ TraceOf(records[s[i]].inv) = t /\ Waiting(l, s[i])

\* The buffer a record is added to.
Current(l, t) == IF Get(caches[l], t) = <<>> THEN Empty ELSE caches[l]
CurrentBuffer(l, t) == IF t \in DOMAIN Current(l, t) THEN Current(l, t)[t] ELSE NewBuffer

LEMMA OldBuffer ==
  ASSUME RecordsOK, Grows, NEW l \in Loggers, CacheOK(l), NEW t,
         NEW kb, kb = CurrentBuffer(l, t)
  PROVE  /\ kb.cache = Get(caches[l], t) /\ kb \in KeyBufferType
         /\ DOMAIN Current(l, t) \subseteq {t}
         /\ kb.current_size = Total(kb.cache, records)
         /\ Sized(kb.cache, records) /\ Sized(kb.cache, records')
         /\ SameSizes(kb.cache, records, kb.cache, records', Len(kb.cache))
         /\ Rising(kb.cache) /\ WaitingOf(l, t, kb.cache)
         /\ kb.cache # <<>> => kb = caches[l][t]
PROOF
<1>1. CASE t \in DOMAIN caches[l]
  <2>1. BufferOK(caches[l][t], t) /\ DOMAIN caches[l] = {t}
    BY <1>1 DEF CacheOK
  <2>2. Current(l, t) = caches[l] /\ kb = caches[l][t]
    BY <1>1, <2>1 DEF BufferOK, Get, Current, CurrentBuffer
  <2>3. BufferOK(kb, t)
    BY <2>1, <2>2
  <2>4. /\ Sized(kb.cache, records) /\ Sized(kb.cache, records')
        /\ SameSizes(kb.cache, records, kb.cache, records', Len(kb.cache))
    BY <2>3, BufferStays
  <2>5. \A i \in DOMAIN kb.cache : Waiting(l, kb.cache[i])
    BY <1>1, <2>2 DEF CacheOK
  <2>6. QED
    BY <1>1, <2>1, <2>2, <2>3, <2>4, <2>5 DEF BufferOK, Get, Rising, WaitingOf
<1>2. CASE t \notin DOMAIN caches[l]
  <2>1. /\ Current(l, t) = Empty /\ kb = NewBuffer /\ Get(caches[l], t) = <<>>
        /\ DOMAIN Current(l, t) = {}
    BY <1>2 DEF Get, Empty, Current, CurrentBuffer
  <2>2. kb \in KeyBufferType /\ kb.cache = <<>> /\ kb.current_size = 0
    BY <2>1 DEF NewBuffer, KeyBufferType
  <2>3. Sized(kb.cache, records) /\ Sized(kb.cache, records')
        /\ SameSizes(kb.cache, records, kb.cache, records', Len(kb.cache))
    BY <2>2 DEF Sized, SameSizes
  <2>4. Total(kb.cache, records) = 0
    BY <2>2, <2>3, TotalPositive
  <2>5. QED
    BY <2>1, <2>2, <2>3, <2>4 DEF Rising, WaitingOf
<1>3. QED
  BY <1>1, <1>2

\* A record goes to the buffer of its logger.
LEMMA Buffered ==
  ASSUME KeyInv, BufferInv, EmittedByOwner, NEW l \in Loggers, NEW lvl, NEW size \in Sizes,
         LogBuffered(l, lvl, size), TracerId # NoTrace, ~Oversized(size)
  PROVE  CacheOK(l)' /\ LostOldest(l)'
PROOF
<1>1. /\ Buffering /\ Record(l, size, TRUE) /\ emitted' = emitted /\ cleared' = cleared
      /\ caches' = [caches EXCEPT ![l] = CacheAdd(@, TracerId, Next_r, size)]
      /\ size \in 1 .. MaxBytes /\ size \in Nat \ {0}
  <2>1. size \in 1 .. MaxBytes /\ size \in Nat \ {0}
    BY BytesAssumption DEF Oversized
  <2>2. PICK b : b = (TracerId # NoTrace /\ ~Oversized(size))
    OBVIOUS
  <2>3. Record(l, size, b) /\ b = TRUE
    BY <2>2 DEF LogBuffered
  <2>4. Record(l, size, TRUE)
    BY <2>3
  <2>5. QED
    BY <2>1, <2>4 DEF LogBuffered, Buffers
<1>2. /\ RecordsOK /\ LinesOK /\ CacheOK(l) /\ LostOldest(l) /\ DOMAIN caches = Loggers
  BY DEF BufferInv
<1>3. /\ Grows /\ Running' = Running /\ TracerId' = TracerId /\ mode' = mode /\ traces' = traces
      /\ Next_r \in Nat /\ Next_r \notin DOMAIN records
      /\ DOMAIN records' = DOMAIN records \cup {Next_r} /\ Len(records') = Next_r
      /\ \A x \in DOMAIN records : x \in Nat /\ x < Next_r /\ records'[x] = records[x]
      /\ records'[Next_r] = [logger |-> l, size |-> size, inv |-> Running, buffered |-> TRUE]
      /\ RecordsOK'
  BY <1>1, <1>2, Recorded
<1>4. mode = "handler" /\ TracerId \in Traces /\ TracerId' = TracerId /\ TracerId = TraceOf(Running)
  BY InHandler, <1>3 DEF TracerId
<1>5. PICK r, t : r = Next_r /\ t = TracerId
  OBVIOUS
<1>7. PICK kb : kb = CurrentBuffer(l, t)
  OBVIOUS
<1>8. PICK new : new = KeyBufferAdd(kb, r, size)
  OBVIOUS
<1>9. DOMAIN caches'[l] = {t} /\ caches'[l][t] = new
  <2>1. caches'[l] = With(Current(l, t), t, new)
    BY <1>1, <1>2, <1>5, <1>7, <1>8 DEF CacheAdd, Current, CurrentBuffer
  <2>2. DOMAIN Current(l, t) \subseteq {t}
    BY <1>2, <1>3, <1>7, OldBuffer
  <2>3. QED
    BY <2>1, <2>2 DEF With
<1>10. /\ kb.cache = Get(caches[l], t) /\ kb \in KeyBufferType
       /\ kb.current_size = Total(kb.cache, records)
       /\ Sized(kb.cache, records) /\ Sized(kb.cache, records')
       /\ SameSizes(kb.cache, records, kb.cache, records', Len(kb.cache)) /\ Rising(kb.cache)
       /\ WaitingOf(l, t, kb.cache)
       /\ kb.cache # <<>> => kb = caches[l][t]
  <2>1. RecordsOK /\ Grows /\ CacheOK(l)
    BY <1>2, <1>3
  <2>2. kb.cache = Get(caches[l], t) /\ kb \in KeyBufferType /\ Rising(kb.cache)
    BY <1>7, <2>1, OldBuffer
  <2>6. kb.current_size = Total(kb.cache, records)
    BY <1>7, <2>1, OldBuffer
  <2>7. kb.cache # <<>> => kb = caches[l][t]
    BY <1>7, <2>1, OldBuffer
  <2>3. /\ Sized(kb.cache, records) /\ Sized(kb.cache, records')
        /\ SameSizes(kb.cache, records, kb.cache, records', Len(kb.cache))
    BY <1>7, <2>1, OldBuffer
  <2>4. WaitingOf(l, t, kb.cache)
    BY <1>7, <2>1, OldBuffer
  <2>5. QED
    BY <2>2, <2>3, <2>4, <2>6, <2>7
<1>11. records'[r].size = size /\ r \in Nat
  BY <1>3, <1>5
<1>12. PICK n \in 0 .. Len(kb.cache) : Newer(kb, n, r, records', new)
  <2>1. PICK log : log = records'
    OBVIOUS
  <2>2. /\ kb \in KeyBufferType /\ r \in Nat /\ size \in 1 .. MaxBytes
        /\ Sized(kb.cache, records) /\ kb.current_size = Total(kb.cache, records)
        /\ Sized(kb.cache, log) /\ SameSizes(kb.cache, records, kb.cache, log, Len(kb.cache))
        /\ log[r].size = size
    BY <1>1, <1>10, <1>11, <2>1
  <2>3. \E n \in 0 .. Len(kb.cache) : Newer(kb, n, r, log, new)
    BY <1>8, <2>2, AddedBuffer
  <2>4. QED
    BY <2>1, <2>3
<1>13. PICK m \in Nat : m = Len(kb.cache) - n /\ n \in Nat
  <2>1. Len(kb.cache) \in Nat /\ n \in 0 .. Len(kb.cache)
    BY <1>10, <1>12 DEF Sized
  <2>2. QED
    BY <2>1
<1>14. PICK old : old = kb.cache
  OBVIOUS
<1>15. /\ old \in Seq(Nat) /\ DOMAIN old = 1 .. n + m /\ n \in Nat /\ Len(old) = n + m
       /\ Len(new.cache) = m + 1 /\ DOMAIN new.cache = 1 .. m + 1 /\ new.cache[m + 1] = r
       /\ \A i \in 1 .. m : new.cache[i] = old[n + i]
  <2>1. old \in Seq(Nat) /\ Len(old) \in Nat
    BY <1>10, <1>14 DEF KeyBufferType
  <2>2. Len(old) = n + m /\ n \in Nat /\ DOMAIN old = 1 .. n + m
    BY <1>13, <1>14, <2>1
  <2>3. PICK rest : rest = SubSeq(old, n + 1, Len(old))
    OBVIOUS
  <2>4. rest \in Seq(Nat) /\ Len(rest) = m /\ \A i \in 1 .. m : rest[i] = old[n + i]
    BY <1>12, <1>13, <1>14, <2>1, <2>3, Cut
  <2>5. new.cache = Append(rest, r)
    BY <1>12, <1>14, <2>3 DEF Newer
  <2>6. /\ Len(new.cache) = m + 1 /\ DOMAIN new.cache = 1 .. m + 1 /\ new.cache[m + 1] = r
        /\ \A i \in 1 .. m : new.cache[i] = rest[i]
    BY <2>4, <2>5, <1>11
  <2>7. QED
    BY <2>1, <2>2, <2>4, <2>6
<1>16. \A i \in 1 .. m : n + i \in DOMAIN old /\ new.cache[i] \in DOMAIN records
  <2>1. ASSUME NEW i \in 1 .. m PROVE n + i \in DOMAIN old /\ new.cache[i] \in DOMAIN records
    <3>1. n + i \in DOMAIN old /\ new.cache[i] = old[n + i]
      BY <1>15
    <3>2. old[n + i] \in DOMAIN records
      BY <1>10, <1>14, <3>1 DEF WaitingOf
    <3>3. QED
      BY <3>1, <3>2
  <2>2. QED
    BY <2>1
<1>17. Rising(new.cache)
  <2>1. ASSUME NEW i \in 1 .. m + 1, NEW j \in 1 .. m + 1, i < j PROVE new.cache[i] < new.cache[j]
    <3>1. i \in 1 .. m
      BY <2>1
    <3>2. CASE j = m + 1
      BY <1>3, <1>5, <1>15, <1>16, <3>1, <3>2
    <3>3. CASE j # m + 1
      <4>1. j \in 1 .. m /\ n + i < n + j
        BY <1>15, <2>1, <3>3
      <4>2. old[n + i] < old[n + j]
        BY <1>10, <1>14, <1>16, <3>1, <4>1 DEF Rising
      <4>3. QED
        BY <1>15, <3>1, <4>1, <4>2
    <3>4. QED
      BY <3>2, <3>3
  <2>2. QED
    BY <1>15, <2>1 DEF Rising
<1>18. ASSUME NEW i \in DOMAIN new.cache
       PROVE  /\ new.cache[i] \in DOMAIN records' /\ TraceOf(records[new.cache[i]].inv)' = t
              /\ Waiting(l, new.cache[i])'
  <2>1. CASE i = m + 1
    <3>1. new.cache[i] = r /\ r \in DOMAIN records' /\ records'[r].inv = Running
      BY <1>3, <1>5, <1>15, <2>1
    <3>2. TraceOf(Running)' = t
      BY <1>3, <1>4, <1>5 DEF TracerId
    <3>3. TraceOf(records[new.cache[i]].inv)' = t
      BY <1>3, <3>1, <3>2 DEF TraceOf
    <3>4. \A j \in DOMAIN emitted : emitted[j].record \in DOMAIN records
      BY <1>2 DEF LinesOK
    <3>5. \A j \in DOMAIN emitted : emitted[j].record # r /\ emitted[j].record < r
      BY <1>3, <1>5, <3>4
    <3>6. records'[r].logger = l /\ records'[r].buffered
      BY <1>3, <1>5
    <3>7. Waiting(l, r)'
      BY <1>1, <1>3, <1>4, <3>1, <3>5, <3>6 DEF Waiting, Grows
    <3>8. QED
      BY <3>1, <3>3, <3>7 DEF Waiting
  <2>2. CASE i # m + 1
    <3>1. i \in 1 .. m
      BY <1>15, <2>2
    <3>2. PICK x \in DOMAIN records : x = new.cache[i] /\ Waiting(l, x) /\ TraceOf(records[x].inv) = t
      BY <1>10, <1>14, <1>15, <1>16, <3>1 DEF WaitingOf
    <3>3. SilentFor(l)
      BY <1>1 DEF SilentFor
    <3>4. Waiting(l, x)'
      BY <1>2, <1>3, <3>2, <3>3, WaitingStays
    <3>5. x \in DOMAIN records' /\ records'[x] = records[x]
      BY <1>3
    <3>6. TraceOf(records[new.cache[i]].inv)' = t
      BY <1>3, <3>2, <3>5 DEF TraceOf
    <3>7. QED
      BY <3>2, <3>4, <3>5, <3>6 DEF Waiting
  <2>3. QED
    BY <2>1, <2>2
<1>19. BufferOK(new, t)'
  <2>1. new.cache # <<>>
    BY <1>15
  <2>2. QED
    BY <1>12, <1>17, <1>18, <2>1 DEF Newer, BufferOK, Rising
<1>20. CacheOK(l)'
  <2>1. Buffering'
    BY <1>1, <1>3 DEF Buffering, Grows
  <2>2. \A u \in DOMAIN caches'[l] : u = t
    BY <1>9
  <2>3. t \in Traces
    BY <1>4, <1>5
  <2>4. QED
    BY <1>9, <1>18, <1>19, <2>1, <2>2, <2>3 DEF CacheOK, BufferOK, Waiting
<1>21. LostOldest(l)'
  <2>1. Kept(l) = old /\ Kept(l)' = new.cache /\ caches'[l][TracerId'] = new
    BY <1>3, <1>5, <1>9, <1>10, <1>14 DEF Kept, Get
  <2>2. r \in ToSet(Kept(l)')
    BY <1>15, <2>1 DEF ToSet
  <2>3. ASSUME NEW x \in Lost(l)'
        PROVE  (\A k \in ToSet(Kept(l)') : x < k) /\ new.has_evicted
    <3>1. x \in Pending(l)' /\ x # r /\ x \in DOMAIN records' /\ x \notin ToSet(Kept(l)')
      BY <2>2, <2>3 DEF Lost, Pending
    <3>2. x \in DOMAIN records /\ x < r /\ x \in Pending(l)
      BY <1>1, <1>3, <1>5, <3>1 DEF Pending
    <3>3. CASE x \in ToSet(old)
      <4>1. PICK i \in 1 .. n + m : x = old[i]
        BY <1>15, <3>3 DEF ToSet
      <4>2. i <= n
        <5>1. CASE i > n
          <6>1. PICK j \in 1 .. m : i = n + j
            <7>1. i - n \in 1 .. m /\ i = n + (i - n)
              BY <1>15, <5>1
            <7>2. QED
              BY <7>1
          <6>2. new.cache[j] = x /\ j \in DOMAIN new.cache
            BY <1>15, <4>1, <6>1
          <6>3. QED
            BY <2>1, <3>1, <6>2 DEF ToSet
        <5>2. QED
          BY <1>15, <5>1
      <4>3. new.has_evicted
        <5>1. n > 0
          BY <1>15, <4>2
        <5>2. QED
          BY <1>12, <5>1 DEF Newer
      <4>4. ASSUME NEW j \in 1 .. m + 1 PROVE x < new.cache[j]
        <5>1. CASE j = m + 1
          BY <1>15, <3>2, <5>1
        <5>2. CASE j # m + 1
          <6>1. j \in 1 .. m /\ i < n + j /\ n + j \in DOMAIN old /\ i \in DOMAIN old
            BY <1>15, <4>1, <4>2, <5>2
          <6>2. QED
            BY <1>10, <1>14, <1>15, <4>1, <6>1 DEF Rising
        <5>3. QED
          BY <5>1, <5>2
      <4>5. QED
        BY <1>15, <2>1, <4>3, <4>4 DEF ToSet
    <3>4. CASE x \notin ToSet(old)
      <4>1. x \in Lost(l)
        BY <2>1, <3>2, <3>4 DEF Lost
      <4>2. (\A k \in ToSet(old) : x < k) /\ old # <<>> /\ caches[l][t].has_evicted
        BY <1>2, <1>4, <1>5, <2>1, <4>1 DEF LostOldest
      <4>3. new.has_evicted
        BY <1>10, <1>12, <1>14, <4>2 DEF Newer
      <4>4. ASSUME NEW j \in 1 .. m + 1 PROVE x < new.cache[j]
        <5>1. CASE j = m + 1
          BY <1>15, <3>2, <5>1
        <5>2. CASE j # m + 1
          <6>1. j \in 1 .. m
            BY <5>2
          <6>2. new.cache[j] \in ToSet(old)
            BY <1>15, <1>16, <6>1 DEF ToSet
          <6>3. QED
            BY <4>2, <6>2
        <5>3. QED
          BY <5>1, <5>2
      <4>5. QED
        BY <1>15, <2>1, <4>3, <4>4 DEF ToSet
    <3>5. QED
      BY <3>3, <3>4
  <2>4. Kept(l)' # <<>>
    BY <1>15, <2>1
  <2>5. QED
    BY <2>1, <2>3, <2>4 DEF LostOldest
<1>22. QED
  BY <1>20, <1>21

------------------------------------------------------------------------------
(* Flushing, and what is not buffered *)

LEMMA ToFlush ==
  ASSUME BufferInv, NEW l \in Loggers
  PROVE  /\ Flushed(l) = Kept(l) /\ Flushed(l) \in Seq(Nat) /\ Rising(Flushed(l))
         /\ WaitingOf(l, TracerId, Flushed(l))
PROOF
<1>1. CacheOK(l)
  BY DEF BufferInv
<1>2. CASE TracerId \in DOMAIN caches[l]
  <2>1. PICK kb : kb = caches[l][TracerId]
    OBVIOUS
  <2>2. BufferOK(kb, TracerId) /\ Buffering /\ \A i \in DOMAIN kb.cache : Waiting(l, kb.cache[i])
    BY <1>1, <1>2, <2>1 DEF CacheOK
  <2>3. Flushed(l) = kb.cache /\ Kept(l) = kb.cache
    BY <1>2, <2>1, <2>2 DEF Flushed, Kept, Get
  <2>4. QED
    BY <2>2, <2>3 DEF BufferOK, KeyBufferType, Rising, WaitingOf
<1>3. CASE TracerId \notin DOMAIN caches[l]
  <2>1. Flushed(l) = <<>> /\ Kept(l) = <<>>
    BY <1>3 DEF Flushed, Kept, Get
  <2>2. QED
    BY <2>1 DEF Rising, WaitingOf
<1>4. QED
  BY <1>2, <1>3

\* At most records that l does not buffer are new.
LoggedBy(l) ==
  /\ Grows /\ KeyInv' /\ RecordsOK' /\ Len(records) <= Len(records')
  /\ mode' = mode /\ Running' = Running /\ TracerId' = TracerId /\ traces' = traces
  /\ \A r \in DOMAIN records' \ DOMAIN records :
       /\ records'[r].logger = l /\ ~records'[r].buffered /\ records'[r].inv = Running
       /\ r \in Nat /\ r > Len(records)

\* l prints s: what its buffer has of the trace, new records, or both.
PrintedBy(l, s) ==
  /\ s \in Seq(Nat) /\ Rising(s)
  /\ emitted' = emitted \o Lines(s, log_format)
  /\ \A i \in DOMAIN s :
       \/ s[i] \in DOMAIN records' \ DOMAIN records
       \/ \E j \in DOMAIN Flushed(l) : s[i] = Flushed(l)[j]

\* What becomes of the buffers of m.
KeptOrEmptied(l, s, m) ==
  \/ /\ caches'[m] = caches[m] /\ cleared'[m] = cleared[m]
     /\ m = l => \A i \in DOMAIN s : s[i] \in DOMAIN records' \ DOMAIN records
  \/ /\ caches'[m] = Empty
     /\ cleared'[m] = Len(records) \/ (cleared'[m] = cleared[m] /\ Kept(m) = <<>>)

LEMMA PendingLogged ==
  ASSUME NEW m, NEW l, LoggedBy(l), RecordsOK
  PROVE  /\ cleared'[m] = cleared[m] => Pending(m)' \subseteq Pending(m)
         /\ cleared'[m] = Len(records) => Pending(m)' = {}
PROOF
<1>1. /\ \A r \in DOMAIN records' : r \in DOMAIN records \/ ~records'[r].buffered
      /\ \A r \in DOMAIN records : records'[r] = records[r]
      /\ Running' = Running
  BY DEF LoggedBy, Grows
<1>2. \A r \in DOMAIN records : ~(r > Len(records))
  BY DEF RecordsOK
<1>3. QED
  BY <1>1, <1>2 DEF Pending

LEMMA CurrentFormat ==
  ASSUME KeyInv, mode # "idle", NEW keys, Request(keys) = Request(log_format),
         Owners(keys) \subseteq Owners(log_format)
  PROVE  CurrentKeys(keys)
BY DEF KeyInv, KeysOK, KeysCurrent, CurrentKeys

LEMMA Unbuffered ==
  ASSUME LoggerInv, mode # "idle", NEW l \in Loggers, LoggedBy(l), NEW s, PrintedBy(l, s),
         cleared' \in [Loggers -> 0 .. Len(records)], DOMAIN caches' = Loggers,
         \A m \in Loggers : KeptOrEmptied(l, s, m)
  PROVE  LoggerInv'
PROOF
<1>1. /\ KeyInv /\ BufferInv /\ EmittedByOwner /\ RecordsOK /\ LinesOK
      /\ \A m \in Loggers : CacheOK(m) /\ LostOldest(m)
  BY DEF LoggerInv, BufferInv
<1>2. /\ Grows /\ KeyInv' /\ RecordsOK' /\ Len(records) <= Len(records')
      /\ mode' = mode /\ Running' = Running /\ TracerId' = TracerId /\ traces' = traces
  BY DEF LoggedBy
<1>3. /\ Flushed(l) = Kept(l) /\ Flushed(l) \in Seq(Nat) /\ Rising(Flushed(l))
      /\ WaitingOf(l, TracerId, Flushed(l))
  BY <1>1, ToFlush
<1>4. log_format \in KeyMaps /\ CurrentKeys(log_format)
  BY <1>1, CurrentFormat DEF KeyInv, KeysTyped
<1>5. s \in Seq(Nat) /\ Rising(s) /\ emitted' = emitted \o Lines(s, log_format)
  BY DEF PrintedBy
<1>6. ASSUME NEW r \in DOMAIN records' \ DOMAIN records PROVE Printable(l, r)
  <2>1. /\ records'[r].logger = l /\ ~records'[r].buffered /\ records'[r].inv = Running
        /\ r \in DOMAIN records'
    BY DEF LoggedBy
  <2>2. \A i \in DOMAIN emitted : emitted[i].record # r
    BY <1>1 DEF LinesOK
  <2>3. QED
    BY <2>1, <2>2 DEF Printable, TracerId
<1>7. ASSUME NEW j \in DOMAIN Flushed(l) PROVE Printable(l, Flushed(l)[j]) /\ Flushed(l)[j] \in DOMAIN records
  <2>1. PICK r \in DOMAIN records : r = Flushed(l)[j] /\ TraceOf(records[r].inv) = TracerId /\ Waiting(l, r)
    BY <1>3 DEF WaitingOf
  <2>2. r \in DOMAIN records' /\ records'[r] = records[r]
    BY <1>2 DEF Grows
  <2>3. Printable(l, r)
    BY <2>1, <2>2 DEF Printable, Waiting
  <2>4. QED
    BY <2>1, <2>3
<1>8. \A i \in DOMAIN s : Printable(l, s[i])
  BY <1>6, <1>7 DEF PrintedBy
<1>9. /\ LinesOK' /\ EmittedByOwner'
      /\ \A m : (\A k \in DOMAIN s : ~(records'[s[k]].logger = m /\ records'[s[k]].buffered)) => SilentFor(m)
  BY <1>1, <1>2, <1>4, <1>5, <1>8, Printing
<1>10. ASSUME NEW m \in Loggers PROVE CacheOK(m)' /\ LostOldest(m)'
  <2>1. CASE /\ caches'[m] = caches[m] /\ cleared'[m] = cleared[m]
             /\ m = l => \A i \in DOMAIN s : s[i] \in DOMAIN records' \ DOMAIN records
    <3>1. ASSUME NEW k \in DOMAIN s PROVE ~(records'[s[k]].logger = m /\ records'[s[k]].buffered)
      <4>1. CASE m = l
        BY <2>1, <4>1 DEF LoggedBy
      <4>2. CASE m # l
        BY <1>8, <4>2 DEF Printable
      <4>3. QED
        BY <4>1, <4>2
    <3>2. SilentFor(m)
      BY <1>9, <3>1
    <3>3. CacheOK(m)'
      BY <1>1, <1>2, <2>1, <3>2, CacheStays
    <3>4. Pending(m)' \subseteq Pending(m)
      BY <1>1, <2>1, PendingLogged
    <3>5. QED
      BY <1>1, <1>2, <2>1, <3>3, <3>4, LostStays
  <2>2. CASE /\ caches'[m] = Empty
             /\ cleared'[m] = Len(records) \/ (cleared'[m] = cleared[m] /\ Kept(m) = <<>>)
    <3>1. CacheOK(m)'
      BY <2>2, CacheEmpty
    <3>2. CASE cleared'[m] = Len(records)
      BY <1>1, <3>1, <3>2, PendingLogged, LostNone
    <3>3. CASE cleared'[m] = cleared[m] /\ Kept(m) = <<>>
      <4>1. ASSUME mode = "handler" PROVE Pending(m)' = {}
        <5>1. Lost(m) = Pending(m)
          BY <3>3 DEF Lost, ToSet
        <5>2. Lost(m) = {}
          BY <1>1, <3>3, <4>1 DEF LostOldest
        <5>3. QED
          BY <1>1, <3>3, <5>1, <5>2, PendingLogged
      <4>2. QED
        BY <1>2, <3>1, <4>1, LostNone
    <3>4. QED
      BY <2>2, <3>2, <3>3
  <2>3. QED
    BY <2>1, <2>2 DEF KeptOrEmptied
<1>11. cleared' \in [Loggers -> 0 .. Len(records')]
  <2>1. Len(records) \in Nat /\ Len(records') \in Nat
    BY <1>1, <1>2 DEF RecordsOK
  <2>2. 0 .. Len(records) \subseteq 0 .. Len(records')
    BY <1>2, <2>1
  <2>3. QED
    BY <2>2
<1>12. QED
  BY <1>2, <1>9, <1>10, <1>11 DEF LoggerInv, BufferInv

LEMMA NoLines ==
  ASSUME LinesOK, NEW keys
  PROVE  emitted \o Lines(<<>>, keys) = emitted
PROOF
<1>1. Lines(<<>>, keys) = <<>>
  BY DEF Lines
<1>2. QED
  BY <1>1, ConcatEmptySeq DEF LinesOK

LEMMA OneLine ==
  ASSUME NEW r \in Nat, NEW keys
  PROVE  Lines(<<r>>, keys) = <<Line(r, keys)>>
PROOF
<1>1. DOMAIN <<r>> = {1} /\ <<r>>[1] = r
  OBVIOUS
<1>2. Lines(<<r>>, keys) = [i \in {1} |-> Line(r, keys)]
  BY <1>1 DEF Lines
<1>3. <<Line(r, keys)>> = [i \in {1} |-> Line(r, keys)]
  OBVIOUS
<1>4. QED
  BY <1>2, <1>3

LEMMA LinesAnd ==
  ASSUME KeyInv, LinesOK, NEW s \in Seq(Nat), NEW r \in Nat, NEW keys \in KeyMaps
  PROVE  emitted \o Lines(s, keys) \o <<Line(r, keys)>> = emitted \o Lines(Append(s, r), keys)
PROOF
<1>1. PICK u : u = Append(s, r)
  OBVIOUS
<1>2. PICK a, b, c : a = Lines(s, keys) /\ b = Lines(u, keys) /\ c = <<Line(r, keys)>>
  OBVIOUS
<1>3. u \in Seq(Nat) /\ Len(s) \in Nat /\ Len(u) = Len(s) + 1 /\ u[Len(s) + 1] = r
      /\ \A k \in 1 .. Len(s) : u[k] = s[k]
  BY <1>1
<1>4. /\ a \in Seq(LineType) /\ Len(a) = Len(s) /\ \A k \in 1 .. Len(s) : a[k] = Line(s[k], keys)
  BY <1>2, LinesTyped
<1>5. /\ b \in Seq(LineType) /\ Len(b) = Len(u) /\ \A k \in 1 .. Len(u) : b[k] = Line(u[k], keys)
  BY <1>2, <1>3, LinesTyped
<1>6. c \in Seq(LineType) /\ Len(c) = 1 /\ c[1] = Line(r, keys)
  <2>1. Len(s) + 1 \in 1 .. Len(u)
    BY <1>3
  <2>2. b[Len(s) + 1] = Line(r, keys) /\ b[Len(s) + 1] \in LineType
    BY <1>3, <1>5, <2>1
  <2>3. QED
    BY <1>2, <2>2
<1>7. a \o c = b
  <2>1. /\ a \o c \in Seq(LineType) /\ Len(a \o c) = Len(s) + 1
        /\ \A i \in 1 .. Len(s) + 1 : (a \o c)[i] = IF i <= Len(s) THEN a[i] ELSE c[i - Len(s)]
    <3>1. /\ a \o c \in Seq(LineType) /\ Len(a \o c) = Len(a) + Len(c)
          /\ \A i \in 1 .. Len(a) + Len(c) :
               (a \o c)[i] = IF i <= Len(a) THEN a[i] ELSE c[i - Len(a)]
      <4>1. a \in Seq(LineType) /\ c \in Seq(LineType)
        BY <1>4, <1>6
      <4>2. QED
        BY <4>1, ConcatProperties, Zenon
    <3>2. Len(a) = Len(s) /\ Len(c) = 1
      BY <1>4, <1>6
    <3>3. QED
      BY <3>1, <3>2
  <2>2. ASSUME NEW i \in 1 .. Len(s) + 1 PROVE (a \o c)[i] = b[i]
    <3>1. CASE i <= Len(s)
      <4>1. i \in 1 .. Len(s) /\ i \in 1 .. Len(u)
        BY <1>3, <3>1
      <4>2. QED
        BY <1>3, <1>4, <1>5, <2>1, <3>1, <4>1
    <3>2. CASE ~(i <= Len(s))
      <4>1. i = Len(s) + 1 /\ i - Len(s) = 1 /\ i \in 1 .. Len(u)
        BY <1>3, <3>2
      <4>2. (a \o c)[i] = c[1]
        BY <2>1, <3>2, <4>1
      <4>3. QED
        BY <1>3, <1>5, <1>6, <4>1, <4>2
    <3>3. QED
      BY <3>1, <3>2
  <2>3. Len(a \o c) = Len(b) /\ \A i \in 1 .. Len(a \o c) : (a \o c)[i] = b[i]
    BY <1>3, <1>5, <2>1, <2>2
  <2>4. QED
    BY <1>5, <2>1, <2>3, SeqEqual
<1>8. (emitted \o a) \o c = emitted \o (a \o c)
  <2>1. emitted \in Seq(LineType) /\ a \in Seq(LineType) /\ c \in Seq(LineType)
    BY <1>4, <1>6 DEF LinesOK
  <2>2. QED
    BY <2>1, ConcatAssociative, SMTT(30)
<1>9. QED
  BY <1>1, <1>2, <1>7, <1>8

LEMMA RecordedPlain ==
  ASSUME KeyInv, RecordsOK, NEW l \in Loggers, NEW size \in Nat \ {0}, Record(l, size, FALSE)
  PROVE  /\ LoggedBy(l) /\ mode # "idle"
         /\ Next_r \in DOMAIN records' \ DOMAIN records /\ Next_r \in Nat
         /\ \A r \in DOMAIN records : r \in Nat /\ r < Next_r
PROOF
<1>1. FALSE \in BOOLEAN /\ (FALSE => Buffering)
  OBVIOUS
<1>2. PICK rec : rec = [logger |-> l, size |-> size, inv |-> Running, buffered |-> FALSE]
  OBVIOUS
<1>3. /\ KeyInv' /\ RecordsOK' /\ Grows
      /\ Running' = Running /\ TracerId' = TracerId /\ mode' = mode /\ traces' = traces
      /\ Next_r \in Nat /\ Next_r \notin DOMAIN records
      /\ DOMAIN records' = DOMAIN records \cup {Next_r} /\ Len(records') = Next_r
      /\ \A r \in DOMAIN records : r \in Nat /\ r < Next_r
      /\ records'[Next_r] = rec
  BY <1>1, <1>2, Recorded
<1>4. rec.logger = l /\ ~rec.buffered /\ rec.inv = Running
  BY <1>2
<1>5. Len(records) \in Nat /\ Next_r = Len(records) + 1
  BY DEF RecordsOK, Next_r
<1>6. LoggedBy(l)
  BY <1>3, <1>4, <1>5 DEF LoggedBy
<1>7. mode # "idle"
  BY DEF Record
<1>8. QED
  BY <1>3, <1>6, <1>7

LEMMA PrintsNothing ==
  ASSUME LinesOK, emitted' = emitted, NEW l
  PROVE  PrintedBy(l, <<>>)
BY NoLines DEF PrintedBy, Rising

LEMMA PrintsOne ==
  ASSUME NEW l, NEW r \in Nat, r \in DOMAIN records' \ DOMAIN records, LinesOK,
         emitted' = Append(emitted, Line(r, log_format))
  PROVE  PrintedBy(l, <<r>>)
PROOF
<1>1. emitted' = emitted \o Lines(<<r>>, log_format)
  <2>1. Lines(<<r>>, log_format) = <<Line(r, log_format)>>
    BY OneLine
  <2>2. emitted' = emitted \o <<Line(r, log_format)>>
    <3>1. \A x : Append(emitted, x) = emitted \o <<x>>
      BY DEF LinesOK
    <3>2. QED
      BY <3>1
  <2>3. QED
    BY <2>1, <2>2
<1>2. <<r>> \in Seq(Nat) /\ Rising(<<r>>) /\ \A i \in DOMAIN <<r>> : <<r>>[i] = r
  BY DEF Rising
<1>3. QED
  BY <1>1, <1>2 DEF PrintedBy

LEMMA LogBufferedKeeps ==
  ASSUME LoggerInv, NEW l \in Loggers, NEW lvl, NEW size \in Sizes, LogBuffered(l, lvl, size)
  PROVE  LoggerInv'
PROOF
<1>1. /\ KeyInv /\ BufferInv /\ EmittedByOwner /\ RecordsOK /\ LinesOK
      /\ cleared \in [Loggers -> 0 .. Len(records)] /\ DOMAIN caches = Loggers
      /\ \A m \in Loggers : CacheOK(m) /\ LostOldest(m)
  BY DEF LoggerInv, BufferInv
<1>2. size \in Nat \ {0} /\ cleared' = cleared
  BY BytesAssumption DEF LogBuffered
<1>3. PICK b : b = (TracerId # NoTrace /\ ~Oversized(size))
  OBVIOUS
<1>4. b \in BOOLEAN /\ Record(l, size, b) /\ Buffering
  BY <1>3 DEF LogBuffered, Buffers
<1>5. CASE TracerId = NoTrace
  <2>1. Record(l, size, FALSE)
    BY <1>3, <1>4, <1>5
  <2>2. caches' = caches /\ emitted' = emitted
    BY <1>5 DEF LogBuffered
  <2>3. LoggedBy(l) /\ mode # "idle"
    BY <1>1, <1>2, <2>1, RecordedPlain
  <2>4. PrintedBy(l, <<>>)
    BY <1>1, <2>2, PrintsNothing
  <2>5. \A m \in Loggers : KeptOrEmptied(l, <<>>, m)
    BY <1>2, <2>2 DEF KeptOrEmptied
  <2>6. QED
    BY <1>1, <1>2, <2>2, <2>3, <2>4, <2>5, Unbuffered
<1>6. CASE TracerId # NoTrace /\ Oversized(size)
  <2>1. Record(l, size, FALSE)
    BY <1>3, <1>4, <1>6
  <2>2. /\ caches' = [caches EXCEPT ![l] = Current(l, TracerId)]
        /\ emitted' = Append(emitted, Line(Next_r, log_format))
    BY <1>6, <1>1 DEF LogBuffered, CacheAdd, Current
  <2>3. /\ LoggedBy(l) /\ mode # "idle"
        /\ Next_r \in DOMAIN records' \ DOMAIN records /\ Next_r \in Nat
    BY <1>1, <1>2, <2>1, RecordedPlain
  <2>4. PrintedBy(l, <<Next_r>>)
    BY <1>1, <2>2, <2>3, PrintsOne
  <2>5. ASSUME NEW m \in Loggers PROVE KeptOrEmptied(l, <<Next_r>>, m)
    <3>1. \A i \in DOMAIN <<Next_r>> : <<Next_r>>[i] \in DOMAIN records' \ DOMAIN records
      BY <2>3
    <3>2. caches'[m] = caches[m] \/ (caches'[m] = Empty /\ Kept(m) = <<>>)
      BY <1>1, <2>2 DEF Current, Kept
    <3>3. cleared'[m] = cleared[m]
      BY <1>2
    <3>4. QED
      BY <3>1, <3>2, <3>3 DEF KeptOrEmptied
  <2>6. DOMAIN caches' = Loggers
    BY <1>1, <2>2
  <2>7. QED
    BY <1>1, <1>2, <2>3, <2>4, <2>5, <2>6, Unbuffered
<1>7. CASE TracerId # NoTrace /\ ~Oversized(size)
  <2>1. Record(l, size, TRUE)
    BY <1>3, <1>4, <1>7
  <2>2. /\ emitted' = emitted
        /\ caches' = [caches EXCEPT ![l] = CacheAdd(@, TracerId, Next_r, size)]
    BY <1>7 DEF LogBuffered
  <2>3. /\ KeyInv' /\ RecordsOK' /\ Grows
        /\ Running' = Running /\ TracerId' = TracerId /\ mode' = mode /\ traces' = traces
        /\ DOMAIN records' = DOMAIN records \cup {Next_r} /\ Len(records') = Next_r
        /\ \A r \in DOMAIN records : r \in Nat /\ r < Next_r /\ records'[r] = records[r]
        /\ records'[Next_r] = [logger |-> l, size |-> size, inv |-> Running, buffered |-> TRUE]
    BY <1>1, <1>2, <1>4, <2>1, Recorded
  <2>4. Len(traces) \in Nat
    BY <1>1, State DEF KeyInv
  <2>5. LinesOK' /\ EmittedByOwner' /\ \A m : SilentFor(m)
    BY <1>1, <2>2, <2>3, <2>4, Silent
  <2>6. ASSUME NEW m \in Loggers PROVE CacheOK(m)' /\ LostOldest(m)'
    <3>1. CASE m = l
      BY <1>1, <1>7, <3>1, Buffered
    <3>2. CASE m # l
      <4>1. caches'[m] = caches[m] /\ cleared'[m] = cleared[m]
        BY <1>1, <1>2, <2>2, <3>2
      <4>2. Pending(m)' \subseteq Pending(m)
        <5>1. records'[Next_r].logger # m
          BY <2>3, <3>2
        <5>2. QED
          BY <2>3, <4>1, <5>1, PendingStays
      <4>3. QED
        BY <1>1, <2>3, <2>5, <4>1, <4>2, CacheStays, LostStays
    <3>3. QED
      BY <3>1, <3>2
  <2>7. cleared' \in [Loggers -> 0 .. Len(records')] /\ DOMAIN caches' = Loggers
    <3>1. Len(records) \in Nat /\ Len(records') = Len(records) + 1
      BY <1>1, <2>3 DEF RecordsOK, Next_r
    <3>2. QED
      BY <1>1, <1>2, <2>2, <3>1
  <2>8. QED
    BY <2>3, <2>5, <2>6, <2>7 DEF LoggerInv, BufferInv
<1>8. QED
  BY <1>5, <1>6, <1>7

LEMMA LogNowKeeps ==
  ASSUME LoggerInv, NEW l \in Loggers, NEW lvl, LogNow(l, lvl)
  PROVE  LoggerInv'
PROOF
<1>1. /\ KeyInv /\ RecordsOK /\ LinesOK
      /\ cleared \in [Loggers -> 0 .. Len(records)] /\ DOMAIN caches = Loggers
  BY DEF LoggerInv, BufferInv
<1>2. Record(l, 1, FALSE) /\ caches' = caches /\ cleared' = cleared /\ 1 \in Nat \ {0}
  <2>1. Record(l, 1, FALSE) /\ caches' = caches /\ cleared' = cleared
    BY Zenon DEF LogNow
  <2>2. 1 \in Nat \ {0}
    OBVIOUS
  <2>3. QED
    BY <2>1, <2>2, Zenon
<1>3. /\ LoggedBy(l) /\ mode # "idle"
      /\ Next_r \in DOMAIN records' \ DOMAIN records /\ Next_r \in Nat
  BY <1>1, <1>2, RecordedPlain
<1>4. \E s : PrintedBy(l, s) /\ \A m \in Loggers : KeptOrEmptied(l, s, m)
  <2>1. CASE emitted' = emitted
    <3>1. PrintedBy(l, <<>>)
      BY <1>1, <2>1, PrintsNothing
    <3>2. \A m \in Loggers : KeptOrEmptied(l, <<>>, m)
      BY <1>2 DEF KeptOrEmptied
    <3>3. QED
      BY <3>1, <3>2
  <2>2. CASE emitted' = Append(emitted, Line(Next_r, log_format))
    <3>1. PrintedBy(l, <<Next_r>>)
      BY <1>1, <1>3, <2>2, PrintsOne
    <3>2. \A i \in DOMAIN <<Next_r>> : <<Next_r>>[i] \in DOMAIN records' \ DOMAIN records
      BY <1>3
    <3>3. \A m \in Loggers : KeptOrEmptied(l, <<Next_r>>, m)
      BY <1>2, <3>2 DEF KeptOrEmptied
    <3>4. QED
      BY <3>1, <3>3
  <2>3. QED
    BY <2>1, <2>2 DEF LogNow
<1>5. QED
  BY <1>1, <1>2, <1>3, <1>4, Unbuffered

\* What a flush does to the cache of every logger.
LEMMA FlushedOf ==
  ASSUME BufferInv, NEW l \in Loggers, NEW s, NEW keys, NEW after, Flushes(l, keys, after),
         Flushed(l) = <<>> => \A i \in DOMAIN s : s[i] \in DOMAIN records' \ DOMAIN records
  PROVE  /\ \A m \in Loggers : KeptOrEmptied(l, s, m)
         /\ cleared' \in [Loggers -> 0 .. Len(records)] /\ DOMAIN caches' = Loggers
PROOF
<1>1. /\ DOMAIN caches = Loggers /\ cleared \in [Loggers -> 0 .. Len(records)]
      /\ Len(records) \in Nat /\ Len(records) \in 0 .. Len(records)
  BY DEF BufferInv, RecordsOK
<1>2. /\ caches' = [caches EXCEPT ![l] = IF Flushed(l) = <<>> THEN @ ELSE Empty]
      /\ cleared' = [cleared EXCEPT ![l] = IF Flushed(l) = <<>> THEN @ ELSE Len(records)]
  BY DEF Flushes
<1>3. CASE Flushed(l) = <<>>
  <2>1. \A m \in Loggers : caches'[m] = caches[m] /\ cleared'[m] = cleared[m]
    BY <1>1, <1>2, <1>3
  <2>2. \A m \in Loggers : KeptOrEmptied(l, s, m)
    BY <1>3, <2>1 DEF KeptOrEmptied
  <2>3. cleared' \in [Loggers -> 0 .. Len(records)] /\ DOMAIN caches' = Loggers
    BY <1>1, <1>2, <1>3
  <2>4. QED
    BY <2>2, <2>3
<1>4. CASE Flushed(l) # <<>>
  <2>1. \A m \in Loggers : IF m = l THEN caches'[m] = Empty /\ cleared'[m] = Len(records)
                            ELSE caches'[m] = caches[m] /\ cleared'[m] = cleared[m]
    BY <1>1, <1>2, <1>4
  <2>2. \A m \in Loggers : KeptOrEmptied(l, s, m)
    BY <2>1 DEF KeptOrEmptied
  <2>3. cleared' \in [Loggers -> 0 .. Len(records)] /\ DOMAIN caches' = Loggers
    BY <1>1, <1>2, <1>4
  <2>4. QED
    BY <2>2, <2>3
<1>5. QED
  BY <1>3, <1>4

LEMMA LogErrorKeeps ==
  ASSUME LoggerInv, NEW l \in Loggers, LogError(l)
  PROVE  LoggerInv'
PROOF
<1>1. /\ KeyInv /\ RecordsOK /\ LinesOK /\ BufferInv
      /\ cleared \in [Loggers -> 0 .. Len(records)] /\ DOMAIN caches = Loggers
  BY DEF LoggerInv, BufferInv
<1>2. Record(l, 1, FALSE) /\ 1 \in Nat \ {0}
  <2>1. Record(l, 1, FALSE)
    BY Zenon DEF LogError
  <2>2. 1 \in Nat \ {0}
    OBVIOUS
  <2>3. QED
    BY <2>1, <2>2, Zenon
<1>3. PICK r : r = Next_r
  OBVIOUS
<1>4. /\ LoggedBy(l) /\ mode # "idle" /\ r \in DOMAIN records' \ DOMAIN records /\ r \in Nat
      /\ \A x \in DOMAIN records : x \in Nat /\ x < r
  BY <1>1, <1>2, <1>3, RecordedPlain
<1>5. PICK now : now = IF IsEnabled(l, "ERROR") THEN <<Line(r, log_format)>> ELSE <<>>
  OBVIOUS
<1>6. IF app.flush_on_error THEN Flushes(l, log_format, now)
      ELSE emitted' = emitted \o now /\ UNCHANGED <<caches, cleared>>
  BY <1>3, <1>5 DEF LogError
<1>7. emitted \in Seq(LineType) /\ log_format \in KeyMaps
  BY <1>1 DEF LinesOK, KeyInv, KeysTyped
<1>8. CASE ~app.flush_on_error
  <2>1. emitted' = emitted \o now /\ caches' = caches /\ cleared' = cleared
    BY <1>6, <1>8
  <2>2. \E s : PrintedBy(l, s) /\ \A m \in Loggers : KeptOrEmptied(l, s, m)
    <3>1. CASE now = <<>>
      <4>1. emitted' = emitted
        BY <1>7, <2>1, <3>1, ConcatEmptySeq
      <4>2. PrintedBy(l, <<>>)
        BY <1>1, <4>1, PrintsNothing
      <4>3. \A m \in Loggers : KeptOrEmptied(l, <<>>, m)
        BY <2>1 DEF KeptOrEmptied
      <4>4. QED
        BY <4>2, <4>3
    <3>2. CASE now = <<Line(r, log_format)>>
      <4>1. emitted' = Append(emitted, Line(r, log_format))
        <5>1. \A x : Append(emitted, x) = emitted \o <<x>>
          BY <1>7
        <5>2. QED
          BY <2>1, <3>2, <5>1
      <4>2. PrintedBy(l, <<r>>)
        BY <1>1, <1>4, <4>1, PrintsOne
      <4>3. \A i \in DOMAIN <<r>> : <<r>>[i] \in DOMAIN records' \ DOMAIN records
        BY <1>4
      <4>4. \A m \in Loggers : KeptOrEmptied(l, <<r>>, m)
        BY <2>1, <4>3 DEF KeptOrEmptied
      <4>5. QED
        BY <4>2, <4>4
    <3>3. QED
      BY <1>5, <3>1, <3>2
  <2>3. QED
    BY <1>1, <1>4, <2>1, <2>2, Unbuffered
<1>9. CASE app.flush_on_error
  <2>1. Flushes(l, log_format, now)
    BY <1>6, <1>9
  <2>2. PICK s : s = Flushed(l)
    OBVIOUS
  <2>3. s \in Seq(Nat) /\ Rising(s) /\ WaitingOf(l, TracerId, s)
    BY <1>1, <2>2, ToFlush
  <2>4. emitted' = emitted \o Lines(s, log_format) \o now
    BY <2>1, <2>2 DEF Flushes
  <2>5. emitted \o Lines(s, log_format) \in Seq(LineType)
    <3>1. Lines(s, log_format) \in Seq(LineType)
      BY <1>1, <1>7, <2>3, LinesTyped
    <3>2. QED
      BY <1>7, <3>1, ConcatProperties
  <2>6. \E u : PrintedBy(l, u) /\ (s = <<>> => \A i \in DOMAIN u : u[i] \in DOMAIN records' \ DOMAIN records)
    <3>1. CASE now = <<>>
      <4>1. emitted' = emitted \o Lines(s, log_format)
        BY <2>4, <2>5, <3>1, ConcatEmptySeq
      <4>2. PrintedBy(l, s)
        BY <2>2, <2>3, <4>1 DEF PrintedBy
      <4>3. QED
        BY <4>2
    <3>2. CASE now = <<Line(r, log_format)>>
      <4>1. PICK u : u = Append(s, r)
        OBVIOUS
      <4>2. /\ u \in Seq(Nat) /\ Len(s) \in Nat /\ DOMAIN s = 1 .. Len(s)
            /\ DOMAIN u = 1 .. Len(s) + 1 /\ u[Len(s) + 1] = r
            /\ \A i \in 1 .. Len(s) : u[i] = s[i]
        BY <1>4, <2>3, <4>1
      <4>3. emitted' = emitted \o Lines(u, log_format)
        BY <1>1, <1>4, <1>7, <2>3, <2>4, <3>2, <4>1, LinesAnd
      <4>4. ASSUME NEW i \in 1 .. Len(s) + 1, NEW j \in 1 .. Len(s) + 1, i < j PROVE u[i] < u[j]
        <5>1. i \in 1 .. Len(s)
          BY <4>2, <4>4
        <5>2. u[i] = s[i] /\ s[i] \in DOMAIN records
          BY <2>3, <4>2, <5>1 DEF WaitingOf
        <5>3. CASE j = Len(s) + 1
          BY <1>4, <4>2, <5>2, <5>3
        <5>4. CASE j # Len(s) + 1
          <6>1. j \in 1 .. Len(s) /\ u[j] = s[j]
            BY <4>2, <5>4
          <6>2. QED
            BY <2>3, <4>2, <4>4, <5>1, <5>2, <6>1 DEF Rising
        <5>5. QED
          BY <5>3, <5>4
      <4>5. ASSUME NEW i \in 1 .. Len(s) + 1
            PROVE u[i] = r \/ (i \in DOMAIN s /\ u[i] = s[i])
        BY <4>2
      <4>6. PrintedBy(l, u)
        BY <1>4, <2>2, <4>2, <4>3, <4>4, <4>5 DEF PrintedBy, Rising
      <4>7. s = <<>> => \A i \in DOMAIN u : u[i] = r
        BY <4>2, <4>5
      <4>8. QED
        BY <1>4, <4>6, <4>7
    <3>3. QED
      BY <1>5, <3>1, <3>2
  <2>7. PICK u : PrintedBy(l, u) /\ (s = <<>> => \A i \in DOMAIN u : u[i] \in DOMAIN records' \ DOMAIN records)
    BY <2>6
  <2>8. /\ \A m \in Loggers : KeptOrEmptied(l, u, m)
        /\ cleared' \in [Loggers -> 0 .. Len(records)] /\ DOMAIN caches' = Loggers
    BY <1>1, <2>1, <2>2, <2>7, FlushedOf
  <2>9. QED
    BY <1>4, <2>7, <2>8, Unbuffered
<1>10. QED
  BY <1>8, <1>9

LEMMA NothingLogged ==
  ASSUME KeyInv, RecordsOK, NEW l, UNCHANGED <<app, mode, cold, traces, level, records, key_vars>>
  PROVE  LoggedBy(l)
PROOF
<1>1. KeyInv' /\ Running' = Running /\ TracerId' = TracerId
  BY KeysStay
<1>2. Grows
  BY DEF Grows, TraceOf
<1>3. RecordsOK' /\ Len(records) <= Len(records')
  BY DEF RecordsOK, Buffering
<1>4. QED
  BY <1>1, <1>2, <1>3 DEF LoggedBy

LEMMA FlushBufferKeeps ==
  ASSUME LoggerInv, NEW l \in Loggers, FlushBuffer(l)
  PROVE  LoggerInv'
PROOF
<1>1. KeyInv /\ RecordsOK /\ LinesOK /\ BufferInv
  BY DEF LoggerInv, BufferInv
<1>2. mode # "idle" /\ Flushes(l, log_format, <<>>) /\ LoggedBy(l)
  BY <1>1, NothingLogged DEF FlushBuffer
<1>3. PICK s : s = Flushed(l)
  OBVIOUS
<1>4. s \in Seq(Nat) /\ Rising(s)
  BY <1>1, <1>3, ToFlush
<1>5. emitted' = emitted \o Lines(s, log_format) \o <<>>
  BY <1>2, <1>3 DEF Flushes
<1>6. emitted' = emitted \o Lines(s, log_format)
  <2>1. Lines(s, log_format) \in Seq(LineType) /\ emitted \in Seq(LineType)
    BY <1>1, <1>4, LinesTyped DEF KeyInv, KeysTyped, LinesOK
  <2>2. QED
    BY <1>5, <2>1, ConcatProperties, ConcatEmptySeq
<1>7. PrintedBy(l, s)
  BY <1>3, <1>4, <1>6 DEF PrintedBy
<1>8. /\ \A m \in Loggers : KeptOrEmptied(l, s, m)
      /\ cleared' \in [Loggers -> 0 .. Len(records)] /\ DOMAIN caches' = Loggers
  <2>1. s = <<>> => \A i \in DOMAIN s : s[i] \in DOMAIN records' \ DOMAIN records
    OBVIOUS
  <2>2. QED
    BY <1>1, <1>2, <1>3, <2>1, FlushedOf
<1>9. QED
  BY <1>2, <1>7, <1>8, Unbuffered

LEMMA ClearBufferKeeps ==
  ASSUME LoggerInv, NEW l \in Loggers, ClearBuffer(l)
  PROVE  LoggerInv'
PROOF
<1>1. /\ KeyInv /\ RecordsOK /\ LinesOK
      /\ cleared \in [Loggers -> 0 .. Len(records)] /\ DOMAIN caches = Loggers
      /\ Len(records) \in 0 .. Len(records)
  BY DEF LoggerInv, BufferInv, RecordsOK
<1>2. /\ mode # "idle" /\ LoggedBy(l) /\ emitted' = emitted
      /\ caches' = [caches EXCEPT ![l] = Empty] /\ cleared' = [cleared EXCEPT ![l] = Len(records)]
  BY <1>1, NothingLogged DEF ClearBuffer, Cleared
<1>3. PrintedBy(l, <<>>)
  BY <1>1, <1>2, PrintsNothing
<1>4. \A m \in Loggers : KeptOrEmptied(l, <<>>, m)
  BY <1>1, <1>2 DEF KeptOrEmptied
<1>5. cleared' \in [Loggers -> 0 .. Len(records)] /\ DOMAIN caches' = Loggers
  BY <1>1, <1>2
<1>6. QED
  BY <1>2, <1>3, <1>4, <1>5, Unbuffered

------------------------------------------------------------------------------
(* The environment, and the theorems *)

LEMMA KeysOnlyKeep ==
  ASSUME LoggerInv, KeyInv', UNCHANGED <<app, mode, cold, traces, level, buffer_vars>>
  PROVE  LoggerInv'
PROOF
<1>1. UNCHANGED <<records, caches, cleared, emitted>> /\ UNCHANGED <<app, mode, traces>>
  BY DEF buffer_vars
<1>2. Running' = Running /\ TracerId' = TracerId
  BY <1>1 DEF Running, TracerId, TraceOf
<1>3. \A m \in Loggers : caches'[m] = caches[m] /\ Pending(m)' = Pending(m)
  BY <1>1, <1>2 DEF Pending
<1>4. Grows /\ RecordsOK' /\ RecordsOK /\ LinesOK /\ EmittedByOwner
  BY <1>1 DEF Grows, TraceOf, LoggerInv, BufferInv, RecordsOK, Buffering
<1>5. Len(traces) \in Nat /\ Len(traces') \in Nat
  BY <1>1, State DEF LoggerInv, KeyInv
<1>6. LinesOK' /\ EmittedByOwner' /\ \A m : SilentFor(m)
  BY <1>1, <1>4, <1>5, Silent
<1>7. ASSUME NEW m \in Loggers PROVE CacheOK(m)' /\ LostOldest(m)'
  <2>1. CacheOK(m) /\ LostOldest(m)
    BY DEF LoggerInv, BufferInv
  <2>2. QED
    BY <1>1, <1>2, <1>3, <1>4, <1>6, <2>1, CacheStays, LostStays
<1>8. cleared' \in [Loggers -> 0 .. Len(records')] /\ DOMAIN caches' = Loggers
  BY <1>1 DEF LoggerInv, BufferInv
<1>9. QED
  BY <1>4, <1>6, <1>7, <1>8 DEF LoggerInv, BufferInv

LEMMA BeginKeeps ==
  ASSUME LoggerInv, NEW t \in Traces, Begin(t)
  PROVE  LoggerInv'
PROOF
<1>1. /\ KeyInv /\ RecordsOK /\ LinesOK /\ EmittedByOwner
      /\ DOMAIN caches = Loggers /\ \A m \in Loggers : CacheOK(m)
      /\ traces \in Seq(Traces) /\ Len(traces) \in Nat
  BY State DEF LoggerInv, BufferInv, KeyInv, StateTyped
<1>2. /\ mode # "handler" /\ mode' = "handler" /\ traces' = Append(traces, t)
      /\ UNCHANGED <<app, records, caches, emitted>> /\ cleared' = [l \in Loggers |-> 0]
  BY DEF Begin, NothingCleared
<1>3. KeyInv' /\ Running' = Len(traces) + 1 /\ Len(traces') = Len(traces) + 1
  BY <1>1, BeginKeys
<1>4. Grows
  BY <1>1, <1>2 DEF Grows, TraceOf
<1>5. RecordsOK'
  <2>1. ASSUME NEW r \in DOMAIN records
        PROVE  records[r].inv <= Len(traces') /\ (records[r].buffered => Buffering)
    <3>1. records[r].inv <= Len(traces) /\ records[r] \in RecordType /\ (records[r].buffered => Buffering)
      BY <1>1 DEF RecordsOK
    <3>2. records[r].inv \in Nat
      BY <3>1 DEF RecordType
    <3>3. QED
      BY <1>1, <1>3, <3>1, <3>2
  <2>2. QED
    BY <1>1, <1>2, <2>1 DEF RecordsOK, Buffering
<1>6. LinesOK' /\ EmittedByOwner' /\ \A m : SilentFor(m)
  <2>1. Len(traces) <= Len(traces') /\ Len(traces') \in Nat
    BY <1>1, <1>3
  <2>2. QED
    BY <1>1, <1>2, <1>4, <2>1, Silent
<1>7. ASSUME NEW m \in Loggers PROVE CacheOK(m)' /\ LostOldest(m)'
  <2>1. Pending(m)' = {}
    <3>1. \A r \in DOMAIN records : records[r].inv # Len(traces) + 1
      <4>1. ASSUME NEW r \in DOMAIN records, records[r].inv = Len(traces) + 1 PROVE FALSE
        <5>1. records[r].inv <= Len(traces)
          BY <1>1 DEF RecordsOK
        <5>2. QED
          BY <1>1, <4>1, <5>1
      <4>2. QED
        BY <4>1
    <3>2. QED
      BY <1>2, <1>3, <3>1 DEF Pending
  <2>2. CASE m # app.decorator
    BY <1>1, <1>2, <1>4, <1>6, <2>1, <2>2, CacheStays, LostNone
  <2>3. CASE m = app.decorator
    <3>1. DOMAIN caches[m] = {}
      <4>1. ASSUME NEW u \in DOMAIN caches[m] PROVE FALSE
        <5>1. caches[m][u].cache \in Seq(Nat) /\ caches[m][u].cache # <<>>
          BY <1>1 DEF CacheOK, BufferOK, KeyBufferType
        <5>2. 1 \in DOMAIN caches[m][u].cache
          BY <5>1
        <5>3. Waiting(m, caches[m][u].cache[1])
          BY <1>1, <5>2 DEF CacheOK
        <5>4. QED
          BY <1>2, <2>3, <5>3 DEF Waiting
      <4>2. QED
        BY <4>1
    <3>2. QED
      BY <1>2, <2>1, <3>1, LostNone DEF CacheOK
  <2>4. QED
    BY <2>2, <2>3
<1>8. cleared' \in [Loggers -> 0 .. Len(records')] /\ DOMAIN caches' = Loggers
  <2>1. Len(records') \in Nat
    BY <1>5 DEF RecordsOK
  <2>2. QED
    BY <1>1, <1>2, <2>1
<1>9. QED
  BY <1>3, <1>5, <1>6, <1>7, <1>8 DEF LoggerInv, BufferInv

\* The handler is left: what the decorator prints, if anything, is s.
LEMMA EndedKeeps ==
  ASSUME LoggerInv, Ended, DecoratorClears,
         emitted' = emitted \/ (Decorated /\ emitted' = emitted \o Lines(Flushed(app.decorator), Unwound))
  PROVE  LoggerInv'
PROOF
<1>1. /\ KeyInv /\ RecordsOK /\ LinesOK /\ EmittedByOwner /\ BufferInv
      /\ DOMAIN caches = Loggers /\ \A m \in Loggers : CacheOK(m)
      /\ Len(traces) \in Nat /\ app.decorator \in Loggers \cup {Never}
  BY State DEF LoggerInv, BufferInv, KeyInv
<1>2. /\ mode = "handler" /\ mode' = "idle" /\ UNCHANGED <<app, traces, records>>
      /\ cleared' = [l \in Loggers |-> 0]
  BY DEF Ended, NothingCleared
<1>3. KeyInv'
  BY <1>1, EndedKeys
<1>4. Grows /\ RecordsOK'
  BY <1>1, <1>2 DEF Grows, TraceOf, RecordsOK, Buffering
<1>5. LinesOK' /\ EmittedByOwner' /\ \A m \in Loggers : m # app.decorator => SilentFor(m)
  <2>1. CASE emitted' = emitted
    BY <1>1, <1>2, <1>4, <2>1, Silent
  <2>2. CASE Decorated /\ emitted' = emitted \o Lines(Flushed(app.decorator), Unwound)
    <3>1. PICK l \in Loggers : l = app.decorator
      BY <1>1, <2>2 DEF Decorated
    <3>2. PICK s : s = Flushed(l)
      OBVIOUS
    <3>3. s \in Seq(Nat) /\ Rising(s) /\ WaitingOf(l, TracerId, s)
      BY <1>1, <3>2, ToFlush
    <3>4. PICK keys : keys = Unwound
      OBVIOUS
    <3>5. keys \in KeyMaps /\ CurrentKeys(keys)
      BY <1>1, <1>2, <3>4, UnwoundKeys, CurrentFormat DEF KeyInv
    <3>6. ASSUME NEW i \in DOMAIN s PROVE Printable(l, s[i])
      <4>1. s[i] \in DOMAIN records /\ TraceOf(records[s[i]].inv) = TracerId /\ Waiting(l, s[i])
        BY <3>3 DEF WaitingOf
      <4>2. QED
        BY <1>2, <4>1 DEF Printable, Waiting
    <3>7. emitted' = emitted \o Lines(s, keys)
      BY <2>2, <3>1, <3>2, <3>4
    <3>8. /\ LinesOK' /\ EmittedByOwner'
          /\ \A m : (\A k \in DOMAIN s : ~(records'[s[k]].logger = m /\ records'[s[k]].buffered))
                   => SilentFor(m)
      BY <1>1, <1>2, <1>4, <3>3, <3>5, <3>6, <3>7, Printing
    <3>9. \A k \in DOMAIN s : records'[s[k]].logger = l
      BY <3>6 DEF Printable
    <3>10. QED
      BY <3>1, <3>8, <3>9
  <2>3. QED
    BY <2>1, <2>2
<1>6. ASSUME NEW m \in Loggers PROVE CacheOK(m)' /\ LostOldest(m)'
  <2>1. LostOldest(m)'
    BY <1>2, LostNone
  <2>2. CASE m # app.decorator
    <3>1. caches'[m] = caches[m]
      BY <1>1, <2>2 DEF DecoratorClears, Cleared
    <3>2. QED
      BY <1>1, <1>2, <1>4, <1>5, <2>1, <2>2, <3>1, CacheStays
  <2>3. CASE m = app.decorator
    <3>1. Decorated
      BY <2>3 DEF Decorated, Loggers, Never
    <3>2. DOMAIN caches'[m] = {}
      BY <1>1, <2>3, <3>1 DEF DecoratorClears, Cleared, CacheOK, Empty
    <3>3. QED
      BY <2>1, <3>2 DEF CacheOK
  <2>4. QED
    BY <2>2, <2>3
<1>7. cleared' \in [Loggers -> 0 .. Len(records')] /\ DOMAIN caches' = Loggers
  <2>1. Len(records') \in Nat
    BY <1>4 DEF RecordsOK
  <2>2. QED
    BY <1>1, <1>2, <2>1 DEF DecoratorClears, Cleared
<1>8. QED
  BY <1>3, <1>4, <1>5, <1>6, <1>7 DEF LoggerInv, BufferInv

LEMMA RestartKeeps ==
  ASSUME LoggerInv, Restart
  PROVE  LoggerInv'
PROOF
<1>1. KeyInv /\ RecordsOK /\ LinesOK /\ EmittedByOwner /\ Len(traces) \in Nat
  BY State DEF LoggerInv, BufferInv, KeyInv
<1>2. /\ mode' = "init" /\ UNCHANGED <<app, traces, records, emitted>>
      /\ cleared' = [l \in Loggers |-> 0] /\ caches' = [l \in Loggers |-> Empty]
  BY DEF Restart, NothingCleared
<1>3. KeyInv'
  BY <1>1, RestartKeys
<1>4. Grows /\ RecordsOK'
  BY <1>1, <1>2 DEF Grows, TraceOf, RecordsOK, Buffering
<1>5. LinesOK' /\ EmittedByOwner'
  BY <1>1, <1>2, <1>4, Silent
<1>6. \A m \in Loggers : CacheOK(m)' /\ LostOldest(m)'
  BY <1>2, CacheEmpty, LostNone
<1>7. cleared' \in [Loggers -> 0 .. Len(records')] /\ DOMAIN caches' = Loggers
  <2>1. Len(records') \in Nat
    BY <1>4 DEF RecordsOK
  <2>2. QED
    BY <1>2, <2>1
<1>8. QED
  BY <1>3, <1>4, <1>5, <1>6, <1>7 DEF LoggerInv, BufferInv

LEMMA InitInv == Init => LoggerInv
PROOF
<1> SUFFICES ASSUME Init PROVE LoggerInv
  OBVIOUS
<1>1. KeyInv /\ Running = 0 /\ app.records \in Nat
  BY InitKeys, State DEF KeyInv
<1>2. /\ mode = "init" /\ records = <<>> /\ emitted = <<>> /\ cleared = [l \in Loggers |-> 0]
      /\ caches = [l \in Loggers |-> Empty]
  BY DEF Init, Fresh
<1>3. RecordsOK /\ LinesOK /\ EmittedByOwner
  BY <1>1, <1>2 DEF RecordsOK, LinesOK, EmittedByOwner
<1>4. cleared \in [Loggers -> 0 .. Len(records)] /\ DOMAIN caches = Loggers
  BY <1>2
<1>5. \A m \in Loggers : CacheOK(m) /\ LostOldest(m)
  BY <1>2 DEF CacheOK, LostOldest, Empty
<1>6. QED
  BY <1>1, <1>3, <1>4, <1>5 DEF LoggerInv, BufferInv

LEMMA NextInv == LoggerInv /\ [Next]_vars => LoggerInv'
PROOF
<1> SUFFICES ASSUME LoggerInv, [Next]_vars PROVE LoggerInv'
  OBVIOUS
<1>1. KeyInv
  BY DEF LoggerInv
<1>2. ASSUME NEW t \in Traces, Begin(t) PROVE LoggerInv'
  BY <1>2, BeginKeeps
<1>3. ASSUME NEW l \in Loggers, NEW lvl \in Levels, NEW size \in Sizes, LogBuffered(l, lvl, size)
      PROVE LoggerInv'
  BY <1>3, LogBufferedKeeps
<1>4. ASSUME NEW l \in Loggers, NEW lvl \in Levels, LogNow(l, lvl) PROVE LoggerInv'
  BY <1>4, LogNowKeeps
<1>5. ASSUME NEW l \in Loggers, LogError(l) \/ FlushBuffer(l) \/ ClearBuffer(l) PROVE LoggerInv'
  BY <1>5, LogErrorKeeps, FlushBufferKeeps, ClearBufferKeeps
<1>6. ASSUME NEW l \in Loggers, ClearState(l) PROVE LoggerInv'
  <2>1. KeyInv'
    BY <1>1, <1>6, ClearStateKeeps
  <2>2. QED
    BY <1>6, <2>1, KeysOnlyKeep DEF ClearState, KeyStep
<1>7. CASE AppendKeys \/ RemoveKeys \/ EnterContext \/ ExitContext \/ ThreadKeys
  <2>1. KeyInv'
    BY <1>1, <1>7, KeyStepsKeep
  <2>2. UNCHANGED <<app, mode, cold, traces, level, buffer_vars>>
    BY <1>7 DEF AppendKeys, RemoveKeys, EnterContext, ExitContext, ThreadKeys, KeyStep
  <2>3. QED
    BY <2>1, <2>2, KeysOnlyKeep
<1>8. CASE Return
  BY <1>8, EndedKeeps DEF Return
<1>9. CASE Raise
  BY <1>9, EndedKeeps DEF Raise
<1>10. CASE Restart
  BY <1>10, RestartKeeps
<1>11. CASE UNCHANGED vars
  <2>1. UNCHANGED <<app, mode, cold, traces, level, buffer_vars>> /\ UNCHANGED key_vars
    BY <1>11 DEF vars
  <2>2. KeyInv'
    BY <1>1, <2>1, KeysStay
  <2>3. QED
    BY <2>1, <2>2, KeysOnlyKeep
<1>12. QED
  BY <1>2, <1>3, <1>4, <1>5, <1>6, <1>7, <1>8, <1>9, <1>10, <1>11 DEF Next

\* Every variable has its type, and a cache holds one buffer, within its bound.
\* (buffer/cache.py)
THEOREM TypeCorrect == Spec => []TypeOK
PROOF
<1>1. LoggerInv => TypeOK
  <2> SUFFICES ASSUME LoggerInv PROVE TypeOK
    OBVIOUS
  <2>1. /\ StateTyped /\ KeysTyped /\ RecordsOK /\ cleared \in [Loggers -> 0 .. Len(records)]
        /\ DOMAIN caches = Loggers /\ \A l \in Loggers : CacheOK(l)
    BY DEF LoggerInv, KeyInv, BufferInv
  <2>2. ASSUME NEW l \in Loggers
        PROVE  Cardinality(DOMAIN caches[l]) <= 1 /\ DOMAIN caches[l] \subseteq Traces
    <3>1. DOMAIN caches[l] = {} \/ \E t \in Traces : DOMAIN caches[l] = {t}
      BY <2>1 DEF CacheOK
    <3>2. PICK d : d = DOMAIN caches[l]
      OBVIOUS
    <3>3. Cardinality(d) \in {0, 1}
      <4>1. CASE d = {}
        BY <4>1, FS_EmptySet
      <4>2. CASE d # {}
        <5>1. PICK t : d = {t}
          BY <3>1, <3>2, <4>2
        <5>2. QED
          BY <5>1, FS_Singleton
      <4>3. QED
        BY <4>1, <4>2
    <3>4. Cardinality(d) <= 1
      BY <3>3
    <3>5. QED
      BY <3>1, <3>2, <3>4
  <2>3. ASSUME NEW l \in Loggers, NEW t \in DOMAIN caches[l] PROVE BufferType(caches[l][t])
    <3>1. PICK kb : kb = caches[l][t]
      OBVIOUS
    <3>2. BufferOK(kb, t)
      BY <2>1, <3>1 DEF CacheOK
    <3>3. Sized(kb.cache, records)
      <4>2. ASSUME NEW i \in 1 .. Len(kb.cache) PROVE records[kb.cache[i]].size \in Nat \ {0}
        <5>1. kb.cache[i] \in DOMAIN records
          BY <3>2 DEF BufferOK, KeyBufferType
        <5>2. records[kb.cache[i]] \in RecordType
          BY <2>1, <5>1 DEF RecordsOK
        <5>3. QED
          BY <5>2 DEF RecordType
      <4>3. QED
        BY <3>2, <4>2 DEF Sized, BufferOK, KeyBufferType
    <3>4. kb.current_size \in 1 .. MaxBytes
      <4>1. Len(kb.cache) \in Nat \ {0}
        BY <3>2, EmptySeq DEF BufferOK, KeyBufferType
      <4>2. QED
        BY <3>2, <3>3, <4>1, TotalPositive, BytesAssumption DEF BufferOK
    <3>5. kb.cache \in Seq(DOMAIN records)
      <4>1. PICK n \in Nat : kb.cache \in [1 .. n -> Nat] /\ DOMAIN kb.cache = 1 .. n
        BY <3>2, LenProperties DEF BufferOK, KeyBufferType
      <4>2. kb.cache \in [1 .. n -> DOMAIN records]
        BY <3>2, <4>1 DEF BufferOK
      <4>3. kb.cache \in UNION {[1 .. m -> DOMAIN records] : m \in Nat}
        BY <4>2
      <4>4. QED
        BY <4>3, SeqDef
    <3>6. QED
      BY <3>1, <3>2, <3>4, <3>5 DEF BufferOK, KeyBufferType, BufferType
  <2>4. QED
    BY <2>1, <2>2, <2>3 DEF TypeOK, StateTyped, KeysTyped, RecordsOK
<1>2. QED
  BY InitInv, NextInv, <1>1, PTL DEF Spec

\* A buffer holds the newest records of its trace in order, its running size is
\* theirs, and whatever is missing was evicted, which the flag tells.
\* (LoggerBufferCache.add, KeyBufferCache.remove_oldest)
THEOREM BufferNewest == Spec => []BufferIsNewest
PROOF
<1>1. LoggerInv => BufferIsNewest
  <2> SUFFICES ASSUME LoggerInv PROVE BufferIsNewest
    OBVIOUS
  <2>1. BufferInv /\ \A l \in Loggers : CacheOK(l) /\ LostOldest(l)
    BY DEF LoggerInv, BufferInv
  <2>2. ASSUME NEW l \in Loggers, NEW t \in DOMAIN caches[l] PROVE BufferOK(caches[l][t], t)
    BY <2>1 DEF CacheOK
  <2>3. ASSUME NEW l \in Loggers, mode = "handler"
        PROVE  LET kept == ToSet(Get(caches[l], TracerId))
                   lost == Pending(l) \ kept
               IN /\ \A r \in lost, k \in kept : r < k
                  /\ lost # {} => kept # {} /\ caches[l][TracerId].has_evicted
                  /\ Printed \cap kept = {}
    <3>1. /\ \A r \in Lost(l), k \in ToSet(Kept(l)) : r < k
          /\ Lost(l) # {} => Kept(l) # <<>> /\ caches[l][TracerId].has_evicted
      BY <2>1, <2>3 DEF LostOldest
    <3>2. Kept(l) \in Seq(Nat) /\ WaitingOf(l, TracerId, Kept(l))
      BY <2>1, ToFlush
    <3>3. Kept(l) # <<>> => ToSet(Kept(l)) # {}
      <4>1. Kept(l) # <<>> => 1 \in DOMAIN Kept(l)
        BY <3>2
      <4>2. QED
        BY <4>1 DEF ToSet
    <3>4. Printed \cap ToSet(Kept(l)) = {}
      BY <3>2 DEF Printed, ToSet, WaitingOf, Waiting
    <3>5. QED
      BY <3>1, <3>3, <3>4 DEF Lost, Kept
  <2>4. QED
    BY <2>2, <2>3 DEF BufferIsNewest, BufferOK
<1>2. QED
  BY InitInv, NextInv, <1>1, PTL DEF Spec

\* A record is printed at most once, in order, under its own trace, and with no
\* request id or, with clear_state, key of another invocation. (flush_buffer,
\* structure_logs, inject_lambda_context)
THEOREM PrintedByOwner == Spec => []EmittedByOwner
PROOF
<1>1. LoggerInv => EmittedByOwner
  BY DEF LoggerInv
<1>2. QED
  BY InitInv, NextInv, <1>1, PTL DEF Spec
===============================================================================
